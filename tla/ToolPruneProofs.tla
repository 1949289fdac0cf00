--------------------------- MODULE ToolPruneProofs ---------------------------
(***************************************************************************)
(* Proofs about Roots, Target and ToolPrune, for every tree, situation,    *)
(* profile and number of steps of the others.                              *)
(***************************************************************************)
EXTENDS ToolPrune, WellFoundedInduction, TLAPS

Walking == {"identity", "stat", "mount", "open"}
ToolOnly == {"identity", "owner", "snapshot", "resolve", "binary",
             "validate root",
             "validate binary", "probe", "command"}

\* After the root has been accepted.
Working == {"ready", "resolve", "binary", "validate root", "validate binary",
            "probe",
            "command"}

----------------------------------------------------------------------------
(***************************************************************************)
(* The inductive invariant, in parts.                                      *)
(***************************************************************************)
\* What the run was asked for does not change.
Asked ==
  /\ run = DetermineScope(situation)
  /\ root = profile.path /\ profile \in Profiles /\ situation \in Situations
  /\ who # "tool" => Len(root.names) = 2
  /\ who = "tool" => uid = IdentityFor(situation, run, profile.system).uid

\* Which executor comes to which system call.
Actor ==
  /\ pc \in {"leaf", "file", "filemount"} => who = "paths"
  /\ pc \in {"select", "selmount", "compare"} => who \in {"debris", "managed"}
  /\ pc = "openleaf" => who = "managed"
  /\ pc \in {"settings", "check"} => who = "rustup"
  /\ pc \in ToolOnly => who = "tool"
  /\ pc \in Walking =>
       \/ stage = "parent" /\ who \in {"paths", "managed"}
       \/ stage = "file" /\ who = "paths"
       \/ stage = "rustup" /\ who = "rustup"
       \/ stage = "root" /\ who # "managed"
  /\ got # None => pc \in Working \cup {"done"}

\* A name looked up in x, or two, lead to what has been in the tree.
Near(x) == Below(Below({x})) \ {None} \subseteq claimed
Far(x) == Below(Below(Below(Below({x})))) \ {None} \subseteq claimed

\* The directory held is as far from the base as names have been opened.
Descent ==
  /\ None \notin claimed /\ root.from \in claimed /\ Far(root.from)
  /\ cur \in claimed
  /\ pc \in Walking =>
       /\ rest \in Seq(STRING) /\ Len(rest) \in 1..2 /\ Near(cur)
       /\ stage # "root" \/ (who = "rustup") => Len(rest) = 1
       /\ stage # "root" \/ Len(rest) = 2 => cur = root.from
  /\ pc \in {"leaf", "file", "filemount", "select", "selmount", "openleaf",
             "settings"}
       => Near(cur)
  /\ pc = "filemount" => seen \in claimed

\* What has been selected is what the next checks compare with.
Chosen ==
  /\ Resolve(root) \in named
  /\ who = "debris" =>
       /\ pc = "selmount" => sel \in named
       /\ pc \in Walking \cup {"compare"} => sel \in named /\ Suitable(sel)
  /\ who = "managed" /\ pc \in {"openleaf", "compare"} => Suitable(sel)
  /\ pc = "snapshot" => sel.node = cur
  /\ who = "tool" /\ pc \in Working \cup {"snapshot"} => Owner[sel.node] = uid

\* The toolchains are looked for in the directory of the settings, which has
\* not changed hands since.
BesideSettings ==
  who = "rustup" =>
    /\ pc \in Walking /\ stage = "root" =>
         cur = settings /\ \A x \in Places : Lookup(cur, x[2]) \in within
    /\ pc = "check" => cur \in within

\* What the executor for tools has settled.
Settled ==
  /\ who = "tool" /\ pc \notin {"identity", "done"} =>
       /\ identity = IdentityFor(situation, run, profile.system)
       /\ identity # NoIdentity
  /\ pc \in Working \ {"ready"} => ~Unsupported
  /\ pc \in Working \ {"ready", "resolve"} => binary \in Paths
  /\ profile.system /\ pc \in {"validate binary", "probe", "command"} =>
       Owner[sel.node] = 0 /\ ~sel.loose
  /\ profile.system /\ pc \in {"probe", "command"} =>
       Owner[binState.node] = 0 /\ ~binState.loose

\* What has been looked at since the probe.
Rechecked ==
  /\ again \subseteq {"root", "binary"}
  /\ round = 2 /\ pc = "validate binary" => "root" \in again
  /\ pc = "command" => round = 2 /\ again = {"root", "binary"}

IndInv ==
  /\ TypeOK /\ Asked /\ Actor /\ Descent /\ Chosen /\ BesideSettings
  /\ NoRedirect /\ AsSelected /\ Settled /\ Rechecked

FsSame == UNCHANGED <<entry, over>>

----------------------------------------------------------------------------
(***************************************************************************)
(* Lemmas about names and what is below a directory.                       *)
(***************************************************************************)
\* While nobody touches the file system, everything stays where it is.
LEMMA Frame ==
  ASSUME FsSame
  PROVE  /\ \A d, n : Lookup(d, n)' = Lookup(d, n)
         /\ \A path : Resolve(path)' = Resolve(path)
         /\ \A D : Below(D)' = Below(D)
         /\ \A D : Reach(D)' = Reach(D)
<1>1. \A d, n : Lookup(d, n)' = Lookup(d, n)
  BY DEF FsSame, Lookup
<1>2. \A path : Resolve(path)' = Resolve(path)
  BY DEF FsSame, Resolve, Step, Lookup
<1>3. \A D : Below(D)' = Below(D)
  BY DEF FsSame, Below, Content
<1>4. \A D : Reach(D)' = Reach(D)
  BY DEF FsSame, Reach, Below, Content
<1> QED BY <1>1, <1>2, <1>3, <1>4

\* More directories have more below them, and each is among them.
LEMMA Monotone ==
  /\ \A D, E : D \subseteq E => Below(D) \subseteq Below(E)
  /\ \A D : D \subseteq Below(D)
BY DEF Below, Content

\* What is reached from a set of directories holds the set and what is one to
\* four levels below each of them.
ReachesAll ==
  \A D : /\ D \ {None} \subseteq Reach(D) /\ None \notin Reach(D)
         /\ \A x \in D :
              /\ Below(Below({x})) \ {None} \subseteq Reach(D)
              /\ Below(Below(Below(Below({x})))) \ {None} \subseteq Reach(D)

\* The operators of Roots are monotone: what is below a part is below the whole.
LEMMA Reached == ReachesAll
<1> SUFFICES ASSUME NEW D, NEW x \in D
             PROVE  /\ D \ {None} \subseteq Reach(D) /\ None \notin Reach(D)
                    /\ Below(Below({x})) \ {None} \subseteq Reach(D)
                    /\ Below(Below(Below(Below({x})))) \ {None}
                         \subseteq Reach(D)
  BY DEF ReachesAll, Reach, Below
<1>1. {x} \subseteq D /\ D \subseteq Below(D)
  BY Monotone
<1>2. Below(Below({x})) \subseteq Below(Below(Below(Below({x}))))
  BY Monotone
<1>3. Below(Below(Below(Below({x}))))
        \subseteq Below(Below(Below(Below(Below(D)))))
  BY Monotone
<1>4. D \subseteq Below(Below(Below(Below(Below(D)))))
  BY Monotone
<1> QED BY <1>2, <1>3, <1>4 DEF Reach

\* The same of the next state, whose file system is another one.
LEMMA ReachedNext == ReachesAll'
BY Reached, PTL

\* A name leads to an entry or to what is mounted over it.
LEMMA LookupBelow ==
  ASSUME NEW d, NEW n
  PROVE  Lookup(d, n) \in Below(Below({d})) \cup {None}
<1> DEFINE c == entry[<<d, n>>]
<1>1. CASE <<d, n>> \in Places
  <2>1. c \in Below({d})
    BY <1>1 DEF Below, Content
  <2>2. c \in Dirs => over[c] \in Below(Below({d}))
    <3>1. c \in Dirs => over[c] \in Content(c)
      BY DEF Content
    <3> QED BY <2>1, <3>1 DEF Below
  <2>3. c \in Below(Below({d}))
    BY <2>1, Monotone
  <2> QED BY <2>2, <2>3, <1>1 DEF Lookup
<1>2. CASE <<d, n>> \notin Places
  BY <1>2, RootsAssumption DEF Lookup, Nodes
<1> QED BY <1>1, <1>2

\* From a directory one can go two names down, from one of them one.
LEMMA Walk ==
  ASSUME NEW d, NEW n
  PROVE  /\ Near(d) => Lookup(d, n) \in claimed \cup {None}
         /\ Far(d) => Near(d) /\ (Lookup(d, n) # None => Near(Lookup(d, n)))
<1> DEFINE c == Lookup(d, n)
<1>1. c \in Below(Below({d})) \cup {None}
  BY LookupBelow
<1>2. Near(d) => c \in claimed \cup {None}
  BY <1>1 DEF Near
<1>3. Far(d) => Near(d)
  BY Monotone DEF Near, Far
<1>4. ASSUME Far(d), c # None
      PROVE  Near(c)
  <2>1. {c} \subseteq Below(Below({d}))
    BY <1>1, <1>4
  <2>2. Below(Below({c})) \subseteq Below(Below(Below(Below({d}))))
    BY <2>1, Monotone
  <2> QED BY <2>2, <1>4 DEF Near, Far
<1> QED BY <1>2, <1>3, <1>4

\* What others do takes nothing out of the history, and what is in it then has
\* everything below it in it.
LEMMA Moved ==
  ASSUME Remember, ~FsSame, None \notin claimed
  PROVE  /\ claimed \subseteq claimed' /\ named \subseteq named'
         /\ Resolve(root)' \in named' /\ None \notin claimed'
         /\ \A x \in claimed : Near(x)' /\ Far(x)'
<1>1. PICK D : D = claimed /\ claimed' = Reach(D)'
  BY DEF Remember, FsSame
<1>2. /\ D \ {None} \subseteq Reach(D)' /\ None' \notin Reach(D)'
      /\ \A x \in D :
           /\ (Below(Below({x})) \ {None})' \subseteq Reach(D)'
           /\ (Below(Below(Below(Below({x})))) \ {None})' \subseteq Reach(D)'
  BY ReachedNext DEF ReachesAll
<1>4. claimed \subseteq claimed' /\ None \notin claimed'
  BY <1>1, <1>2
<1>5. \A x \in claimed : Near(x)' /\ Far(x)'
  BY <1>1, <1>2 DEF Near, Far
<1>6. named \subseteq named' /\ Resolve(root)' \in named'
  BY DEF Remember, FsSame
<1> QED BY <1>4, <1>5, <1>6

----------------------------------------------------------------------------
(***************************************************************************)
(* What holds of the constants, and what holds at first.                   *)
(***************************************************************************)
LEMMA Bounds ==
  /\ None \notin Dirs /\ None \notin Files /\ None \notin Links
  /\ Dirs \cap Links = {} /\ Dirs \cap Files = {} /\ Files \cap Links = {}
  /\ Slash \in Dirs /\ Foreign \subseteq Dirs /\ None \notin Foreign
  /\ \A p \in Profiles : /\ p.system \in BOOLEAN /\ p.path \in Paths
                         /\ Len(p.path.names) \in 1..2
  /\ \A b \in BOOLEAN : SearchPaths[b] \in Seq(Paths)
BY RootsAssumption, ToolPruneAssumption DEF Nodes

\* A set of numbers that is not empty has a smallest member.
LEMMA Smallest ==
  ASSUME NEW S \in SUBSET Nat, S # {}
  PROVE  \E i \in S : \A j \in S : i <= j
<1>1. PICK i \in S : \A j \in S : ~(<<j, i>> \in OpToRel(<, Nat))
  BY NatLessThanWellFounded, WFMin
<1>2. \A j \in S : ~(j < i)
  BY <1>1 DEF OpToRel
<1> QED BY <1>2

\* An account found by its number has that number.
LEMMA AccountFound ==
  ASSUME NEW s \in Situations, NEW id, LookupId(s, id) # Unknown
  PROVE  LookupId(s, id) \in Accounts /\ LookupId(s, id).uid = id
<1> DEFINE fits == {i \in 1..Len(s.accounts) : s.accounts[i].uid = id}
           first == CHOOSE i \in fits : \A j \in fits : i <= j
<1>1. s.accounts \in Seq(Accounts)
  BY TargetAssumption
<1>2. fits # {}
  BY DEF LookupId, SelectInSeq
<1>3. first \in fits
  <2>1. fits \in SUBSET Nat
    BY <1>1
  <2>2. \E i \in fits : \A j \in fits : i <= j
    BY <1>2, <2>1, Smallest
  <2> QED BY <2>2
<1>5. first \in 1..Len(s.accounts) /\ s.accounts[first].uid = id
  BY <1>3
<1>4. LookupId(s, id) = s.accounts[first]
  BY <1>2 DEF LookupId, SelectInSeq, Min
<1> HIDE DEF first, fits
<1> QED BY <1>1, <1>4, <1>5

\* An account that is found by its name is one of the accounts.
LEMMA NamedAccountFound ==
  ASSUME NEW s \in Situations, NEW name, LookupName(s, name) # Unknown
  PROVE  LookupName(s, name) \in Accounts
<1> DEFINE fits == {i \in 1..Len(s.accounts) : s.accounts[i].name = name}
           first == CHOOSE i \in fits : \A j \in fits : i <= j
<1>1. s.accounts \in Seq(Accounts)
  BY TargetAssumption
<1>2. fits # {}
  BY DEF LookupName, SelectInSeq
<1>3. first \in fits
  <2>1. fits \in SUBSET Nat
    BY <1>1
  <2>2. \E i \in fits : \A j \in fits : i <= j
    BY <1>2, <2>1, Smallest
  <2> QED BY <2>2
<1>5. first \in 1..Len(s.accounts) /\ s.accounts[first].name = name
  BY <1>3
<1>4. LookupName(s, name) = s.accounts[first]
  BY <1>2 DEF LookupName, SelectInSeq, Min
<1> HIDE DEF first, fits
<1> QED BY <1>1, <1>4, <1>5

\* The target of a run and the identity of a tool have a number.
LEMMA UidsAreNumbers ==
  ASSUME NEW s \in Situations, NEW system \in BOOLEAN
  PROVE  /\ DetermineScope(s).uid \in Nat
         /\ IdentityFor(s, DetermineScope(s), system).uid \in Nat
<1>1. Sudo(s).uid \in Nat \cup {Unknown}
  BY NamedAccountFound, TargetAssumption DEF Sudo, Accounts
<1>2. Agrees(s, Sudo(s)) => Sudo(s).uid \in Nat
  BY <1>1 DEF Agrees
<1>3. DetermineScope(s).uid \in Nat
  BY <1>2, TargetAssumption DEF DetermineScope, Refusal
<1>4. IdentityFor(s, DetermineScope(s), system).uid \in Nat
  <2>1. LookupId(s, DetermineScope(s).uid) # Unknown =>
          LookupId(s, DetermineScope(s).uid).uid = DetermineScope(s).uid
    BY AccountFound
  <2> HIDE DEF DetermineScope
  <2> QED BY <2>1, <1>3 DEF IdentityFor, NoIdentity, RootIdentity, PlainUser
<1> QED BY <1>3, <1>4

\* Nothing has happened yet: the base is held, and the tree below it known.
LEMMA Initial == Init => IndInv
<1> SUFFICES ASSUME Init PROVE IndInv
  OBVIOUS
<1>1. PICK t \in Tasks :
        /\ RootsInit(t.who, t.profile.path, TargetUid(t), t.tree)
        /\ acts = t.acts /\ situation = t.situation /\ profile = t.profile
        /\ run = DetermineScope(situation)
        /\ dry = t.dry /\ identity = NoIdentity
        /\ tried = 0 /\ binary = NoPath /\ binState = NoState
        /\ round = 1 /\ outcome = "" /\ again = {}
  BY DEF Init
<1>2. /\ t.who \in Callers /\ t.acts \in Nat /\ t.profile \in Profiles
      /\ t.who # "tool" => Len(t.profile.path.names) = 2
      /\ t.tree \in [Places -> Nodes \cup {None}]
      /\ t.situation \in Situations
  BY ToolPruneAssumption
<1>3. /\ profile.path \in Paths /\ Len(root.names) \in 1..2
      /\ root.names \in Seq(STRING)
      /\ root = profile.path /\ root.from \in Dirs
  BY <1>1, <1>2, Bounds DEF RootsInit, Paths
<1>4. claimed = Reach({root.from}) /\ named = {Resolve(root)}
  BY <1>1, <1>3 DEF RootsInit
<1>5. root.from \in claimed /\ None \notin claimed /\ Near(root.from)
      /\ Far(root.from)
  BY <1>3, <1>4, Reached, Bounds DEF ReachesAll, Near, Far
<1>6. uid \in Nat
  BY <1>1, <1>2, UidsAreNumbers, Bounds DEF RootsInit, TargetUid
<1>9. /\ who \in Callers /\ cur = root.from /\ got = None /\ refused = FALSE
      /\ who = "tool" => stage = "root" /\ rest = root.names /\ pc = "identity"
      /\ who = "debris" => stage = "root" /\ rest = root.names /\ pc = "select"
      /\ who \in {"paths", "managed"} =>
           stage = "parent" /\ rest = <<Head(root.names)>> /\ pc = "stat"
      /\ who = "rustup"
           => stage = "rustup" /\ rest = <<Head(root.names)>> /\ pc = "stat"
  BY <1>1, <1>2, <1>3 DEF RootsInit
<1>15. /\ rest \in Seq(STRING) /\ Len(rest) \in 1..2 /\ rest # <<>>
       /\ pc # "command"
       /\ pc # "done"
  <2>1. Head(root.names) \in STRING
    BY <1>3
  <2>2. rest = root.names \/ rest = <<Head(root.names)>>
    BY <1>9 DEF Callers
  <2>3. /\ <<Head(root.names)>> \in Seq(STRING)
        /\ Len(<<Head(root.names)>>) = 1
    BY <2>1
  <2>4. rest \in Seq(STRING) /\ Len(rest) \in 1..2
    BY <1>3, <2>2, <2>3
  <2>5. pc # "command" /\ pc # "done"
    BY <1>9 DEF Callers
  <2> QED BY <2>4, <2>5
<1>16. SearchPaths[profile.system] \in Seq(Paths)
  BY <1>1, <1>2, Bounds
<1>7. TypeOK
  <2>1. entry = t.tree /\ over = [d \in Dirs |-> None] /\ loose = {}
        /\ base = root.from
        /\ seen = None /\ settings = None
    BY <1>1, <1>3 DEF RootsInit
  <2>2. /\ entry \in [Places -> Nodes \cup {None}]
        /\ over \in [Dirs -> Foreign \cup {None}] /\ loose \subseteq Nodes
    BY <1>2, <2>1
  <2>3. 0 \in 0..Len(SearchPaths[profile.system])
    BY <1>16
  <2>4. tried = 0 /\ round = 1 /\ acts \in Nat
    BY <1>1, <1>2
  <2>5. Len(rest) <= 2
    BY <1>15
  <2> QED BY <1>3, <1>6, <1>9, <1>15, <2>1, <2>2, <2>4, <2>5 DEF TypeOK
<1>8. Asked
  BY <1>1, <1>2, <1>3 DEF RootsInit, Asked, TargetUid
<1>14. Actor
  BY <1>9 DEF Actor, Callers, Walking, ToolOnly
<1>10. Descent
  <2>1. Head(root.names) \in STRING
    BY <1>3
  <2> QED BY <1>9, <1>3, <1>5, <2>1 DEF Descent, Callers
<1>11. Chosen /\ BesideSettings
  BY <1>1, <1>2, <1>4, <1>9
  DEF RootsInit, Chosen, BesideSettings, Callers, Walking, Working
<1>12. NoRedirect /\ AsSelected
  BY <1>1 DEF RootsInit, NoRedirect, AsSelected, Opened
<1>13. Settled /\ Rechecked
  BY <1>1, <1>2 DEF RootsInit, Settled, Rechecked, Callers, Working
<1> QED BY <1>7, <1>8, <1>14, <1>10, <1>11, <1>12, <1>13 DEF IndInv

----------------------------------------------------------------------------
(***************************************************************************)
(* The others' steps.                                                      *)
(***************************************************************************)
\* Whatever a step does, what was in the history stays there, and a name that
\* was one or two levels away from the history still is.
LEMMA HistoryGrows ==
  ASSUME IndInv, Remember, UNCHANGED root
  PROVE  /\ claimed \subseteq claimed' /\ named \subseteq named'
         /\ within \subseteq within'
         /\ None \notin claimed' /\ Resolve(root)' \in named'
         /\ \A x \in claimed : (Near(x) => Near(x)') /\ (Far(x) => Far(x)')
<1>1. None \notin claimed /\ Resolve(root) \in named
  BY DEF IndInv, Descent, Chosen
<1>2. within \subseteq within'
  BY DEF Remember
<1>3. CASE FsSame
  <2>1. UNCHANGED <<claimed, named>>
    BY <1>3 DEF Remember, FsSame
  <2>2. Resolve(root)' = Resolve(root)
    BY <1>3 DEF Resolve, Step, Lookup, FsSame
  <2>3. \A x : (Near(x)' <=> Near(x)) /\ (Far(x)' <=> Far(x))
    BY <1>3, <2>1 DEF FsSame, Near, Far, Below, Content
  <2> QED BY <1>1, <1>2, <2>1, <2>2, <2>3
<1>4. CASE ~FsSame
  BY <1>1, <1>2, <1>4, Moved
<1> QED BY <1>3, <1>4

\* Nothing another process does to the file system changes a type.
LEMMA OthersKeepTypes ==
  ASSUME TypeOK, OthersStep, UNCHANGED toolVars, UNCHANGED asked
  PROVE  TypeOK'
<1> DEFINE Typed == /\ entry' \in [Places -> Nodes \cup {None}]
                    /\ over' \in [Dirs -> Foreign \cup {None}]
                    /\ loose' \subseteq Nodes
<1>3. Act
  BY DEF OthersStep, Exchange, Mount, Unmount, Chmod
<1>1. UNCHANGED <<task, rootVars, toolVars, asked>> /\ acts' \in Nat
  BY <1>3 DEF Act, TypeOK
<1>2. Typed
  <2>1. ASSUME NEW x \in Swaps[who], Exchange(x[1], x[2])
        PROVE  Typed
    <3>1. x[1] \in Places /\ x[2] \in Places
      BY RootsAssumption DEF TypeOK
    <3>2. entry' = [entry EXCEPT ![x[1]] = entry[x[2]], ![x[2]] = entry[x[1]]]
      BY <2>1 DEF Exchange
    <3>3. entry \in [Places -> Nodes \cup {None}]
      BY DEF TypeOK
    <3>4. entry' \in [Places -> Nodes \cup {None}]
      BY <3>1, <3>2, <3>3
    <3> QED BY <2>1, <3>4 DEF Exchange, TypeOK
  <2>2. ASSUME NEW d \in MountPoints, NEW f \in Foreign, Mount(d, f)
        PROVE  Typed
    BY <2>2, RootsAssumption DEF Mount, TypeOK
  <2>3. ASSUME NEW d \in MountPoints, Unmount(d)
        PROVE  Typed
    BY <2>3, RootsAssumption DEF Unmount, TypeOK
  <2>4. ASSUME NEW x \in Modes, Chmod(x)
        PROVE  Typed
    BY <2>4, RootsAssumption DEF Chmod, TypeOK, Nodes
  <2> QED BY <2>1, <2>2, <2>3, <2>4 DEF OthersStep
<1> QED BY <1>1, <1>2 DEF TypeOK, task, rootVars, descent, toolVars, asked

\* Another process moves and mounts, but what the tool holds open stays held,
\* and whatever it reaches from there has been in the history since.
LEMMA OthersKeep ==
  ASSUME IndInv, OthersStep, UNCHANGED toolVars, UNCHANGED asked, Remember,
         RememberChecks
  PROVE  IndInv'
<1>1. UNCHANGED <<task, rootVars, toolVars, asked>>
  <2>1. Act
    BY DEF OthersStep, Exchange, Mount, Unmount, Chmod
  <2> QED BY <2>1 DEF Act
<1>2. TypeOK'
  BY OthersKeepTypes DEF IndInv
<1>3. Asked' /\ Actor' /\ Settled'
  <2>1. Asked'
    BY <1>1 DEF IndInv, Asked, task, asked
  <2>2. Actor'
    BY <1>1 DEF IndInv, Actor, task, rootVars, descent
  <2>3. Settled'
    <3>1. Settled /\ UNCHANGED <<who, pc, identity, situation, run, profile,
                                 dry, binary, sel,
                                 binState>>
      BY <1>1 DEF IndInv, task, rootVars, toolVars, asked
    <3> QED BY <3>1 DEF Settled, Unsupported
  <2> QED BY <2>1, <2>2, <2>3
<1>4. /\ claimed \subseteq claimed' /\ named \subseteq named'
      /\ within \subseteq within'
      /\ None \notin claimed' /\ Resolve(root)' \in named'
      /\ \A x \in claimed : (Near(x) => Near(x)') /\ (Far(x) => Far(x)')
  BY <1>1, HistoryGrows DEF task
<1>5. (Near(cur) => Near(cur)') /\ (Far(root.from) => Far(root.from)')
  <2>1. \A x \in claimed :
          (cur' = x => (Near(x)' => Near(cur)'))
          /\ (root'.from = x => (Far(x)' => Far(root.from)'))
    BY DEF Far
  <2> QED BY <1>1, <1>4 DEF IndInv, Descent, task, rootVars, descent
<1>6. Descent'
  BY <1>1, <1>4 DEF IndInv, Descent, task, rootVars, descent
<1>7. settings # None => \A x \in Places : Lookup(settings, x[2])' \in within'
  BY <1>1 DEF Remember, rootVars
<1>8. Chosen'
  BY <1>1, <1>4 DEF IndInv, Chosen, Suitable, task, rootVars, descent
<1>11. BesideSettings'
  <2>1. cur \in Dirs /\ None \notin Dirs
    BY Bounds DEF IndInv, TypeOK
  <2>2. settings = cur => \A x \in Places : Lookup(cur, x[2])' \in within'
    BY <1>1, <1>7, <2>1 DEF rootVars, descent
  <2> QED BY <1>1, <1>4, <2>2
          DEF IndInv, BesideSettings, task, rootVars, descent
<1>9. NoRedirect' /\ AsSelected'
  BY <1>1, <1>4
  DEF IndInv, NoRedirect, AsSelected, Opened, Suitable, task, rootVars
<1>10. Rechecked'
  <2>1. UNCHANGED <<pc, round>>
    BY <1>1 DEF rootVars, toolVars
  <2>2. again' \subseteq again \cup {"root", "binary"}
        /\ (round = 2 => again \subseteq again')
    BY <2>1 DEF RememberChecks
  <2>3. Rechecked
    BY DEF IndInv
  <2>4. ASSUME pc = "command" PROVE again' = {"root", "binary"}
    BY <2>2, <2>3, <2>4 DEF Rechecked
  <2>5. again' \subseteq {"root", "binary"}
    BY <2>2, <2>3 DEF Rechecked
  <2> QED BY <2>1, <2>2, <2>3, <2>4, <2>5 DEF Rechecked
<1> QED BY <1>2, <1>3, <1>6, <1>8, <1>9, <1>10, <1>11 DEF IndInv

----------------------------------------------------------------------------
(***************************************************************************)
(* The steps of the opening.                                               *)
(***************************************************************************)
\* One or two names, and what is left of them after the first.
LEMMA Names ==
  ASSUME NEW q \in Seq(STRING), Len(q) \in 1..2
  PROVE  /\ q # <<>> /\ Len(q) <= 2 /\ Head(q) \in STRING /\ q[1] = Head(q)
         /\ <<q[1]>> \in Seq(STRING) /\ Len(<<q[1]>>) = 1 /\ <<q[1]>> # <<>>
         /\ Tail(q) \in Seq(STRING) /\ Len(Tail(q)) = Len(q) - 1
         /\ Len(q) = 2 => Tail(q) # <<>>
<1>1. Len(<<>>) = 0
  OBVIOUS
<1>2. Head(q) \in STRING /\ q[1] = Head(q) /\ Tail(q) \in Seq(STRING)
      /\ Len(Tail(q)) = Len(q) - 1
  OBVIOUS
<1>3. <<q[1]>> \in Seq(STRING) /\ Len(<<q[1]>>) = 1
  BY <1>2
<1> QED BY <1>2

\* The path of the root, and the names still to be opened.
LEMMA Shape ==
  ASSUME IndInv
  PROVE  /\ root \in Paths /\ root.from \in Dirs
         /\ root.names \in Seq(STRING) /\ Len(root.names) \in 1..2
         /\ who \in Callers /\ (who # "tool" => Len(root.names) = 2)
         /\ pc \in Walking => rest \in Seq(STRING) /\ Len(rest) \in 1..2
<1>1. root \in Paths /\ Len(root.names) \in 1..2
      /\ (who # "tool" => Len(root.names) = 2)
  BY Bounds DEF IndInv, Asked
<1>2. root.from \in Dirs /\ root.names \in Seq(STRING)
  BY <1>1 DEF Paths
<1>3. pc \in Walking => rest \in Seq(STRING) /\ Len(rest) \in 1..2
  BY DEF IndInv, Descent
<1> QED BY <1>1, <1>2, <1>3 DEF IndInv, TypeOK

\* A name leads to a directory, to a file or to nothing.
LEMMA LookupTyped ==
  ASSUME TypeOK, NEW d, NEW n
  PROVE  Lookup(d, n) \in Nodes \cup {None}
<1>1. CASE <<d, n>> \in Places
  BY Bounds DEF TypeOK, Lookup, Nodes
<1>2. CASE <<d, n>> \notin Places
  BY <1>2, Bounds DEF Lookup
<1> QED BY <1>1, <1>2

\* The part of the types the opening changes.
Held ==
  /\ cur \in Dirs /\ base \in Dirs /\ seen \in Nodes \cup {None}
  /\ got \in Dirs \cup Files \cup {None} /\ settings \in Dirs \cup {None}
  /\ refused => got = None /\ pc = "done"
  /\ Len(rest) <= 2 /\ (pc \in {"stat", "mount", "open"} => rest # <<>>)
  /\ pc = "command" /\ dry => profile.nativeDryRun

\* The opening keeps the types.
LEMMA RootsKeepHeld ==
  ASSUME IndInv, RootsStep, UNCHANGED toolVars, UNCHANGED asked, Remember
  PROVE  Held'
<1>1. TypeOK /\ Actor
  BY DEF IndInv
<1>2. UNCHANGED <<fsVars, acts, task, toolVars, asked>>
  BY DEF RootsStep
<1>11. CASE StatPart
  BY <1>11, <1>1, LookupTyped
  DEF StatPart, Refuse, TypeOK, Actor, Working, Held, descent
<1>12. CASE MountPart
  BY <1>12, <1>1
  DEF MountPart, Refuse, TypeOK, Actor, Working, Held, descent
<1>13. CASE OpenPart
  <2>1. /\ rest \in Seq(STRING) /\ Len(rest) \in 1..2
    BY <1>13, Shape DEF OpenPart, Walking
  <2>2. Len(Tail(rest)) <= 2 /\ (Len(rest) > 1 => Tail(rest) # <<>>)
    BY <2>1, Names
  <2>3. AtEnd \notin {"stat", "mount", "open", "command", "done"}
    BY <1>13, <1>1 DEF OpenPart, AtEnd, TypeOK, Callers, Actor, Walking
  <2>7. \/ pc' = "done" /\ rest' = rest
        \/ rest' = Tail(rest) /\ pc' = IF Len(rest) > 1 THEN "stat" ELSE AtEnd
    BY <1>13 DEF OpenPart, Refuse, descent
  <2>8. Len(rest) <= 2
    BY <2>1, Names
  <2>4. pc' \notin {"mount", "open", "command"} /\ Len(rest') <= 2
        /\ (pc' = "stat" => rest' # <<>>)
    BY <2>7, <2>8, <2>2, <2>3
  <2>5. /\ cur' \in Dirs /\ base' \in Dirs /\ seen' \in Nodes \cup {None}
        /\ got' \in Dirs \cup Files \cup {None}
        /\ settings' \in Dirs \cup {None}
    BY <1>13, <1>1 DEF OpenPart, Refuse, TypeOK, descent
  <2>6. refused' => got' = None /\ pc' = "done"
    BY <1>13, <1>1 DEF OpenPart, Refuse, TypeOK, Actor, Working
  <2> QED BY <2>4, <2>5, <2>6 DEF Held
<1>14. CASE PathsLeaf
  <2>1. <<root.names[1]>> # <<>> /\ Len(<<root.names[1]>>) <= 2
        /\ root.names # <<>>
        /\ Len(root.names) <= 2 /\ root.from \in Dirs
    BY Shape, Names
  <2> QED BY <1>14, <1>1, <1>2, <2>1
          DEF PathsLeaf, Descend, Refuse, TypeOK, Actor, Working,
             Held, descent, asked
<1>15. CASE PathsFile
  BY <1>15, <1>1, LookupTyped
  DEF PathsFile, Refuse, TypeOK, Actor, Working, Held, descent
<1>16. CASE PathsFileMount
  BY <1>16, <1>1
  DEF PathsFileMount, Accept, Refuse, TypeOK, Actor, Working, Held,
     descent
<1>17. CASE Select
  BY <1>17, <1>1 DEF Select, Refuse, TypeOK, Actor, Working, Held, descent
<1>18. CASE SelectMount
  <2>1. root.names # <<>> /\ Len(root.names) <= 2 /\ root.from \in Dirs
    BY Shape, Names
  <2> QED BY <1>18, <1>1, <2>1
          DEF SelectMount, Descend, Refuse, TypeOK, Actor,
             Working, Held, descent
<1>19. CASE ManagedOpen
  BY <1>19, <1>1
  DEF ManagedOpen, Refuse, TypeOK, Actor, Working, Held, descent
<1>20. CASE Compare
  BY <1>20, <1>1
  DEF Compare, Accept, Refuse, TypeOK, Actor, Working, Held, descent
<1>21. CASE RustupSettings
  <2>1. Tail(root.names) # <<>> /\ Len(Tail(root.names)) <= 2
    <3>1. who = "rustup" /\ Len(root.names) = 2
      BY <1>21, <1>1, Shape DEF RustupSettings, Actor
    <3> QED BY <3>1, Shape, Names
  <2> QED BY <1>21, <1>1, <2>1
          DEF RustupSettings, FromSettings, Descend, TypeOK, Held
<1>22. CASE RustupCheck
  BY <1>22, <1>1
  DEF RustupCheck, Accept, Refuse, TypeOK, Actor, Working, Held, descent
<1>23. CASE ToolOwner
  BY <1>23, <1>1
  DEF ToolOwner, Refuse, TypeOK, Actor, Working, Held, descent
<1>24. CASE ToolSnapshot
  <2>1. sel.node = cur
    BY <1>24 DEF ToolSnapshot, IndInv, Chosen
  <2>2. Snapshot(Resolve(root)) = sel => Resolve(root) \in Dirs
    BY <2>1, <1>1 DEF Snapshot, TypeOK
  <2> QED BY <1>24, <1>1, <2>2
          DEF ToolSnapshot, Accept, Refuse, TypeOK, Actor,
             Working, Held, descent
<1> QED BY <1>11, <1>12, <1>13, <1>14, <1>15, <1>16, <1>17, <1>18, <1>19,
           <1>20, <1>21, <1>22, <1>23, <1>24 DEF RootsStep

\* The opening keeps every type, the one of the history included.
LEMMA RootsKeepTypes ==
  ASSUME IndInv, RootsStep, UNCHANGED toolVars, UNCHANGED asked, Remember
  PROVE  TypeOK'
<1>1. TypeOK /\ Held' /\ UNCHANGED <<fsVars, acts, task, toolVars, asked>>
  BY RootsKeepHeld DEF IndInv, RootsStep
<1>2. /\ entry' \in [Places -> Nodes \cup {None}]
      /\ over' \in [Dirs -> Foreign \cup {None}] /\ loose' \subseteq Nodes
  BY <1>1 DEF TypeOK, fsVars
<1> QED BY <1>1, <1>2 DEF TypeOK, Held, task, toolVars, asked

\* Every executor stays on its own way.
LEMMA RootsKeepActor ==
  ASSUME IndInv, RootsStep, UNCHANGED toolVars, UNCHANGED asked, Remember
  PROVE  Actor'
<1>1. TypeOK /\ Actor
  BY DEF IndInv
<1>2. UNCHANGED <<fsVars, acts, task, toolVars, asked>>
  BY DEF RootsStep
<1>11. CASE StatPart
  BY <1>11, <1>1, <1>2, Shape
  DEF StatPart, Refuse, TypeOK, Actor, Walking, ToolOnly, Working,
     Callers, fsVars, task, descent, toolVars, asked
<1>12. CASE MountPart
  BY <1>12, <1>1, <1>2, Shape
  DEF MountPart, Refuse, TypeOK, Actor, Walking, ToolOnly, Working,
     Callers, fsVars, task, descent, toolVars, asked
<1>13. CASE OpenPart
  BY <1>13, <1>1, <1>2, Shape
  DEF OpenPart, OpenDirAt, AtEnd, Refuse, TypeOK, Actor, Walking,
     ToolOnly, Working, Callers, fsVars, task, descent, toolVars, asked
<1>14. CASE PathsLeaf
  BY <1>14, <1>1, <1>2, Shape
  DEF PathsLeaf, Descend, Refuse, TypeOK, Actor, Walking, ToolOnly,
     Working, Callers, fsVars, task, descent, toolVars, asked
<1>15. CASE PathsFile
  BY <1>15, <1>1, <1>2, Shape
  DEF PathsFile, Refuse, TypeOK, Actor, Walking, ToolOnly, Working,
     Callers, fsVars, task, descent, toolVars, asked
<1>16. CASE PathsFileMount
  BY <1>16, <1>1, <1>2, Shape
  DEF PathsFileMount, Accept, Refuse, TypeOK, Actor, Walking, ToolOnly,
     Working, Callers, fsVars, task, descent, toolVars, asked
<1>17. CASE Select
  BY <1>17, <1>1, <1>2, Shape
  DEF Select, Candidate, Refuse, TypeOK, Actor, Walking, ToolOnly,
     Working, Callers, fsVars, task, descent, toolVars, asked
<1>18. CASE SelectMount
  BY <1>18, <1>1, <1>2, Shape
  DEF SelectMount, Descend, Refuse, TypeOK, Actor, Walking, ToolOnly,
     Working, Callers, fsVars, task, descent, toolVars, asked
<1>19. CASE ManagedOpen
  BY <1>19, <1>1, <1>2, Shape
  DEF ManagedOpen, OpenDirAt, Refuse, TypeOK, Actor, Walking, ToolOnly,
     Working, Callers, fsVars, task, descent, toolVars, asked
<1>20. CASE Compare
  BY <1>20, <1>1, <1>2, Shape
  DEF Compare, SameRoot, Accept, Refuse, TypeOK, Actor, Walking,
     ToolOnly, Working, Callers, fsVars, task, descent, toolVars, asked
<1>21. CASE RustupSettings
  BY <1>21, <1>1, <1>2
  DEF RustupSettings, Descend, Actor, ToolOnly, Working, task
<1>22. CASE RustupCheck
  BY <1>22, <1>1, <1>2, Shape
  DEF RustupCheck, Accept, Refuse, TypeOK, Actor, Walking, ToolOnly,
     Working, Callers, fsVars, task, descent, toolVars, asked
<1>23. CASE ToolOwner
  BY <1>23, <1>1, <1>2, Shape
  DEF ToolOwner, Snapshot, Refuse, TypeOK, Actor, Walking, ToolOnly,
     Working, Callers, fsVars, task, descent, toolVars, asked
<1>24. CASE ToolSnapshot
  BY <1>24, <1>1, <1>2, Shape
  DEF ToolSnapshot, Snapshot, Accept, Refuse, TypeOK, Actor, Walking,
     ToolOnly, Working, Callers, fsVars, task, descent, toolVars, asked
<1> QED BY <1>11, <1>12, <1>13, <1>14, <1>15, <1>16, <1>17, <1>18, <1>19,
           <1>20, <1>21, <1>22, <1>23, <1>24 DEF RootsStep

\* The opening changes neither the file system nor what has been in it.
LEMMA RootsFrame ==
  ASSUME IndInv, RootsStep, Remember
  PROVE  /\ UNCHANGED <<claimed, named>> /\ within \subseteq within'
         /\ None \notin claimed
         /\ Resolve(root)' = Resolve(root) /\ Resolve(root) \in named
         /\ \A x : (cur' = x => (Near(cur)' <=> Near(x)))
                   /\ (Near(x) => Near(x)')
         /\ Far(root.from)' <=> Far(root.from)
<1>1. UNCHANGED <<entry, over, root>>
  BY DEF RootsStep, fsVars, task
<1>2. UNCHANGED <<claimed, named>> /\ within \subseteq within'
  BY <1>1 DEF Remember
<1>3. Resolve(root)' = Resolve(root)
  BY <1>1 DEF Resolve, Step, Lookup
<1>4. \A x : cur' = x => (Near(cur)' <=> Near(x))
  BY <1>1, <1>2 DEF Near, Below, Content
<1>5. \A x : Near(x) => Near(x)'
  BY <1>1, <1>2 DEF Near, Below, Content
<1>6. Far(root.from)' <=> Far(root.from)
  BY <1>1, <1>2 DEF Far, Below, Content
<1> QED BY <1>2, <1>3, <1>4, <1>5, <1>6 DEF IndInv, Chosen, Descent

\* One level down with every name: what is held stays known.
LEMMA RootsKeepDescent ==
  ASSUME IndInv, RootsStep, UNCHANGED toolVars, UNCHANGED asked, Remember
  PROVE  Descent'
<1>1. TypeOK /\ Actor /\ Descent
  BY DEF IndInv
<1>2. UNCHANGED <<fsVars, acts, task, toolVars, asked>>
  BY DEF RootsStep
<1>3. /\ UNCHANGED <<claimed, named>> /\ None \notin claimed
      /\ \A x : cur' = x => (Near(cur)' <=> Near(x))
      /\ Far(root.from)' <=> Far(root.from)
  BY RootsFrame
<1>11. CASE StatPart
  BY <1>11, <1>1, <1>2, <1>3
  DEF StatPart, Refuse, Walking, Descent, task, descent
<1>12. CASE MountPart
  BY <1>12, <1>1, <1>2, <1>3
  DEF MountPart, Refuse, Walking, Descent, task, descent
<1>13. CASE OpenPart
  <2> DEFINE c == Lookup(cur, Head(rest))
  <2>1. /\ rest \in Seq(STRING) /\ Len(rest) \in 1..2 /\ Near(cur)
        /\ cur \in claimed
        /\ root.from \in claimed /\ Far(root.from)
        /\ stage # "root" \/ (who = "rustup") => Len(rest) = 1
        /\ stage # "root" \/ Len(rest) = 2 => cur = root.from
    BY <1>13, <1>1 DEF OpenPart, Descent, Walking
  <2>2. Tail(rest) \in Seq(STRING) /\ Len(Tail(rest)) = Len(rest) - 1
    BY <2>1, Names
  <2>3. CASE c \notin Dirs
    <3>1. pc' = "done" /\ UNCHANGED <<descent, task>>
      BY <1>13, <2>3, <1>2 DEF OpenPart, OpenDirAt, Refuse
    <3> QED BY <3>1, <2>1, <1>3 DEF Descent, descent, task
  <2>4. CASE c \in Dirs
    <3>1. /\ cur' = c /\ rest' = Tail(rest) /\ UNCHANGED <<stage, task>>
          /\ pc' = IF Len(rest) > 1 THEN "stat" ELSE AtEnd
      BY <1>13, <2>4, <1>2 DEF OpenPart, OpenDirAt
    <3>2. c \in claimed /\ (cur = root.from => Near(c))
      BY <2>1, <2>4, Walk, Bounds
    <3>3. cur' \in claimed /\ (cur = root.from => Near(cur)')
      BY <3>1, <3>2, <1>3
    <3>4. CASE Len(rest) = 2
      <4>1. pc' = "stat" /\ Len(rest') = 1 /\ stage = "root" /\ who # "rustup"
            /\ cur = root.from
        BY <3>1, <3>4, <2>1, <2>2
      <4> QED BY <4>1, <3>1, <3>3, <2>1, <1>3 DEF Descent, task
    <3>5. CASE Len(rest) = 1
      <4>1. pc' = AtEnd /\ AtEnd \notin Walking /\ AtEnd # "filemount"
            /\ (AtEnd \in {"leaf", "file", "select", "selmount", "openleaf",
                           "settings"}
                  => stage # "root")
        BY <1>13, <3>1, <3>5, <1>1
        DEF OpenPart, AtEnd, Actor, TypeOK, Callers, Walking
      <4> QED BY <4>1, <3>1, <3>3, <2>1, <1>3 DEF Descent, task
    <3> QED BY <3>4, <3>5, <2>1
  <2> QED BY <2>3, <2>4
<1>14. CASE PathsLeaf
  BY <1>14, <1>1, <1>2, <1>3, Shape, Walk
  DEF PathsLeaf, Descend, Refuse, Actor, Walking, Descent, task, descent
<1>15. CASE PathsFile
  BY <1>15, <1>1, <1>2, <1>3, Walk
  DEF PathsFile, Refuse, Walking, Descent, task, descent
<1>16. CASE PathsFileMount
  BY <1>16, <1>1, <1>2, <1>3
  DEF PathsFileMount, Accept, Refuse, Walking, Descent, task, descent
<1>17. CASE Select
  BY <1>17, <1>1, <1>2, <1>3
  DEF Select, Refuse, Walking, Descent, task, descent
<1>18. CASE SelectMount
  BY <1>18, <1>1, <1>2, <1>3, Shape, Names, Walk, Bounds
  DEF SelectMount, Descend, Refuse, Actor, Walking, Descent, task,
     descent
<1>19. CASE ManagedOpen
  BY <1>19, <1>1, <1>2, <1>3, Walk, Bounds
  DEF ManagedOpen, OpenDirAt, Refuse, Walking, Descent, task, descent
<1>20. CASE Compare
  BY <1>20, <1>1, <1>2, <1>3
  DEF Compare, Accept, Refuse, Walking, Descent, task, descent
<1>21. CASE RustupSettings
  <2>1. Tail(root.names) \in Seq(STRING) /\ Len(Tail(root.names)) = 1
    <3>1. who = "rustup" /\ Len(root.names) = 2
      BY <1>21, <1>1, Shape DEF RustupSettings, Actor
    <3>2. root.names \in Seq(STRING) /\ Len(root.names) \in 1..2
      BY Shape
    <3>3. Tail(root.names) \in Seq(STRING)
          /\ Len(Tail(root.names)) = Len(root.names) - 1
      BY <3>2, Names
    <3> QED BY <3>1, <3>3
  <2>2. Near(cur) /\ cur' = cur /\ rest' = Tail(root.names) /\ stage' = "root"
        /\ pc' = "stat"
    BY <1>21, <1>1 DEF RustupSettings, FromSettings, Descend, Descent
  <2>3. Near(cur)'
    BY <2>2, <1>3
  <2>4. rest' \in Seq(STRING) /\ Len(rest') = 1
    BY <2>1, <2>2
  <2>5. Len(rest') \in 1..2 /\ ~(Len(rest') = 2)
    BY <2>4
  <2> QED BY <2>2, <2>4, <2>5, <1>1, <1>2, <1>3 DEF Descent, task
<1>22. CASE RustupCheck
  BY <1>22, <1>1, <1>2, <1>3
  DEF RustupCheck, Accept, Refuse, Walking, Descent, task, descent
<1>23. CASE ToolOwner
  BY <1>23, <1>1, <1>2, <1>3
  DEF ToolOwner, Refuse, Walking, Descent, task, descent
<1>24. CASE ToolSnapshot
  BY <1>24, <1>1, <1>2, <1>3
  DEF ToolSnapshot, Accept, Refuse, Walking, Descent, task, descent
<1> QED BY <1>11, <1>12, <1>13, <1>14, <1>15, <1>16, <1>17, <1>18, <1>19,
           <1>20, <1>21, <1>22, <1>23, <1>24 DEF RootsStep

\* What is selected fits, and is what the next checks go by.
LEMMA RootsKeepChosen ==
  ASSUME IndInv, RootsStep, UNCHANGED toolVars, UNCHANGED asked, Remember
  PROVE  Chosen'
<1>1. TypeOK /\ Actor /\ Chosen
  BY DEF IndInv
<1>2. UNCHANGED <<fsVars, acts, task, toolVars, asked>>
  BY DEF RootsStep
<1>3. /\ UNCHANGED named /\ Resolve(root)' = Resolve(root)
      /\ Resolve(root) \in named
  BY RootsFrame
<1>11. CASE StatPart
  BY <1>11, <1>1, <1>2, <1>3, Bounds
  DEF StatPart, Refuse, Actor, Chosen, Suitable, Walking, Working,
     Callers, TypeOK, task, descent
<1>12. CASE MountPart
  BY <1>12, <1>1, <1>2, <1>3, Bounds
  DEF MountPart, Refuse, Actor, Chosen, Suitable, Walking, Working,
     Callers, TypeOK, task, descent
<1>13. CASE OpenPart
  <2>1. who = "debris" /\ pc' \in Walking \cup {"compare"} =>
          sel \in named /\ Suitable(sel)
    BY <1>13, <1>1 DEF OpenPart, Chosen, Walking
  <2>2. AtEnd \notin {"openleaf", "selmount", "snapshot", "command"}
        /\ (who # "debris" => AtEnd # "compare")
        /\ (who = "tool" => AtEnd = "owner")
    BY <1>13, <1>1 DEF OpenPart, AtEnd, Actor, TypeOK, Callers, Walking
  <2>3. UNCHANGED <<sel, task>> /\ pc' \in {"stat", "done", AtEnd}
    BY <1>13, <1>2 DEF OpenPart, Refuse
  <2>4. who = "tool" => pc' \notin Working \cup {"snapshot"}
    BY <2>2, <2>3 DEF Working
  <2>5. pc' \notin {"openleaf", "selmount", "snapshot"}
        /\ (who = "managed" => pc' # "compare")
    BY <2>2, <2>3
  <2> QED BY <2>1, <2>3, <2>4, <2>5, <1>3 DEF Chosen, Suitable, task
<1>14. CASE PathsLeaf
  BY <1>14, <1>1, <1>2, <1>3
  DEF PathsLeaf, Descend, Refuse, Actor, Chosen, task
<1>15. CASE PathsFile
  BY <1>15, <1>1, <1>2, <1>3 DEF PathsFile, Refuse, Actor, Chosen, task
<1>16. CASE PathsFileMount
  BY <1>16, <1>1, <1>2, <1>3
  DEF PathsFileMount, Accept, Refuse, Actor, Chosen, task
<1>17. CASE Select
  BY <1>17, <1>1, <1>2, <1>3, Bounds
  DEF Select, Candidate, Refuse, Actor, Chosen, Suitable, Walking,
     Working, Callers, TypeOK, task, descent
<1>18. CASE SelectMount
  BY <1>18, <1>1, <1>2, <1>3, Bounds
  DEF SelectMount, Descend, Refuse, Actor, Chosen, Suitable, Walking,
     Working, Callers, TypeOK, task, descent
<1>19. CASE ManagedOpen
  BY <1>19, <1>1, <1>2, <1>3
  DEF ManagedOpen, Refuse, Actor, Chosen, Suitable, task
<1>20. CASE Compare
  BY <1>20, <1>1, <1>2, <1>3, Bounds
  DEF Compare, SameRoot, Accept, Refuse, Actor, Chosen, Suitable,
     Walking, Working, Callers, TypeOK, task, descent
<1>21. CASE RustupSettings
  BY <1>21, <1>1, <1>2, <1>3
  DEF RustupSettings, Descend, Actor, Chosen, task
<1>22. CASE RustupCheck
  BY <1>22, <1>1, <1>2, <1>3
  DEF RustupCheck, Accept, Refuse, Actor, Chosen, task
<1>23. CASE ToolOwner
  <2>1. UNCHANGED task /\ who = "tool" /\ pc' \in {"done", "snapshot"}
    BY <1>23, <1>1, <1>2 DEF ToolOwner, Refuse, Actor, ToolOnly
  <2>2. pc' = "snapshot" => sel'.node = cur' /\ Owner[sel'.node] = uid
    BY <1>23 DEF ToolOwner, Snapshot, Refuse, descent
  <2> QED BY <2>1, <2>2, <1>3 DEF Chosen, Working, task
<1>24. CASE ToolSnapshot
  BY <1>24, <1>1, <1>2, <1>3, Bounds
  DEF ToolSnapshot, Snapshot, Accept, Refuse, Actor, Chosen, Suitable,
     Walking, Working, Callers, TypeOK, task, descent
<1> QED BY <1>11, <1>12, <1>13, <1>14, <1>15, <1>16, <1>17, <1>18, <1>19,
           <1>20, <1>21, <1>22, <1>23, <1>24 DEF RootsStep

\* The toolchains come from the directory of the settings.
LEMMA RootsKeepSettings ==
  ASSUME IndInv, RootsStep, UNCHANGED toolVars, UNCHANGED asked, Remember
  PROVE  BesideSettings'
<1>1. TypeOK /\ Actor /\ Descent /\ BesideSettings
  BY DEF IndInv
<1>2. UNCHANGED <<fsVars, acts, task, toolVars, asked>>
  BY DEF RootsStep
<1>3. within \subseteq within'
      /\ (settings' # None
           => \A x \in Places : Lookup(settings, x[2])' \in within')
  BY DEF Remember
<1>4. cur \in Dirs /\ None \notin Dirs
  BY <1>1, Bounds DEF TypeOK
<1>11. CASE StatPart
  BY <1>11, <1>1, <1>2, <1>3, <1>4
  DEF StatPart, Refuse, BesideSettings, Walking, task
<1>12. CASE MountPart
  BY <1>12, <1>1, <1>2, <1>3, <1>4
  DEF MountPart, Refuse, BesideSettings, Walking, task, descent
<1>13. CASE OpenPart
  <2> DEFINE c == Lookup(cur, Head(rest))
  <2>1. CASE who = "rustup" /\ c \in Dirs
    <3>1. cur' = c /\ UNCHANGED <<stage, task>>
      BY <1>13, <2>1, <1>2 DEF OpenPart, OpenDirAt
    <3>2. Len(rest) = 1 /\ pc' = AtEnd
      BY <1>13, <2>1, <1>1 DEF OpenPart, OpenDirAt, Descent, Walking
    <3>3. pc' \in {"settings", "check"} /\ (pc' = "check" => stage = "root")
      BY <1>13, <2>1, <3>2, <1>1 DEF OpenPart, AtEnd, Actor, Walking
    <3>4. stage = "root" => \A x \in Places : Lookup(cur, x[2]) \in within
      BY <1>13, <2>1, <1>1 DEF OpenPart, BesideSettings, Walking
    <3>5. <<cur, Head(rest)>> \in Places
      BY <2>1, <1>4 DEF Lookup
    <3>6. stage = "root" => c \in within
      BY <3>4, <3>5
    <3> QED BY <3>1, <3>3, <3>6, <1>3 DEF BesideSettings, Walking
  <2>2. CASE ~(who = "rustup" /\ c \in Dirs)
    BY <1>13, <2>2, <1>2
    DEF OpenPart, OpenDirAt, Refuse, BesideSettings, Walking, task
  <2> QED BY <2>1, <2>2
<1>14. CASE PathsLeaf
  BY <1>14, <1>1, <1>2 DEF PathsLeaf, Actor, BesideSettings, task
<1>15. CASE PathsFile
  BY <1>15, <1>1, <1>2 DEF PathsFile, Actor, BesideSettings, task
<1>16. CASE PathsFileMount
  BY <1>16, <1>1, <1>2 DEF PathsFileMount, Actor, BesideSettings, task
<1>17. CASE Select
  BY <1>17, <1>1, <1>2 DEF Select, Actor, BesideSettings, task
<1>18. CASE SelectMount
  BY <1>18, <1>1, <1>2 DEF SelectMount, Actor, BesideSettings, task
<1>19. CASE ManagedOpen
  BY <1>19, <1>1, <1>2 DEF ManagedOpen, Actor, BesideSettings, task
<1>20. CASE Compare
  BY <1>20, <1>1, <1>2 DEF Compare, Actor, BesideSettings, task
<1>21. CASE RustupSettings
  <2>1. cur' = settings' /\ settings' # None /\ pc' = "stat"
    BY <1>21, <1>4 DEF RustupSettings, FromSettings, Descend
  <2>2. \A x \in Places : Lookup(cur, x[2])' \in within'
    BY <2>1, <1>3 DEF Lookup
  <2> QED BY <2>1, <2>2 DEF BesideSettings
<1>22. CASE RustupCheck
  BY <1>22 DEF RustupCheck, Accept, Refuse, BesideSettings, Walking
<1>23. CASE ToolOwner
  BY <1>23 DEF ToolOwner, Refuse, BesideSettings, Walking
<1>24. CASE ToolSnapshot
  BY <1>24 DEF ToolSnapshot, Accept, Refuse, BesideSettings, Walking
<1> QED BY <1>11, <1>12, <1>13, <1>14, <1>15, <1>16, <1>17, <1>18, <1>19,
           <1>20, <1>21, <1>22, <1>23, <1>24 DEF RootsStep

\* The root that is opened is the one that was chosen.
LEMMA RootsKeepRoot ==
  ASSUME IndInv, RootsStep, UNCHANGED toolVars, UNCHANGED asked, Remember
  PROVE  NoRedirect' /\ AsSelected'
<1>1. TypeOK /\ Actor /\ Chosen /\ Descent /\ BesideSettings /\ NoRedirect
      /\ AsSelected
  BY DEF IndInv
<1>2. UNCHANGED <<fsVars, acts, task, toolVars, asked>>
  BY DEF RootsStep
<1>3. /\ UNCHANGED <<claimed, named>> /\ within \subseteq within'
      /\ Resolve(root) \in named
  BY RootsFrame
<1>11. CASE StatPart
  BY <1>11, <1>1, <1>2, <1>3
  DEF StatPart, Refuse, NoRedirect, AsSelected, Opened, Suitable, task
<1>12. CASE MountPart
  BY <1>12, <1>1, <1>2, <1>3
  DEF MountPart, Refuse, NoRedirect, AsSelected, Opened, Suitable, task
<1>13. CASE OpenPart
  <2> DEFINE c == Lookup(cur, Head(rest))
  <2>1. UNCHANGED <<sel, task>> /\ got = None
    BY <1>13, <1>1, <1>2 DEF OpenPart, Refuse, Actor, Working
  <2>2. got' # None => got' = c /\ c \in Dirs /\ who = "paths"
    <3>1. got' # None => got' = c /\ c \in Dirs /\ pc' = "ready"
                         /\ pc' \in {"stat", AtEnd}
      BY <1>13, <2>1 DEF OpenPart, OpenDirAt, Refuse
    <3>2. AtEnd = "ready" => who = "paths"
      BY <1>13, <1>1 DEF OpenPart, AtEnd, Actor, TypeOK, Callers, Walking
    <3> QED BY <3>1, <3>2
  <2>3. c \in Dirs => c \in claimed
    BY <1>13, <1>1, Walk, Bounds DEF OpenPart, Descent, Walking
  <2> QED BY <2>1, <2>2, <2>3, <1>3 DEF NoRedirect, AsSelected, Opened, task
<1>14. CASE PathsLeaf
  BY <1>14, <1>1, <1>2, <1>3
  DEF PathsLeaf, Refuse, NoRedirect, AsSelected, Opened, Suitable, task
<1>15. CASE PathsFile
  BY <1>15, <1>1, <1>2, <1>3
  DEF PathsFile, Refuse, NoRedirect, AsSelected, Opened, Suitable, task
<1>16. CASE PathsFileMount
  BY <1>16, <1>1, <1>2, <1>3
  DEF PathsFileMount, Accept, Refuse, Actor, Descent, NoRedirect,
     AsSelected, Opened, task
<1>17. CASE Select
  BY <1>17, <1>1
  DEF Select, Refuse, Actor, NoRedirect, AsSelected, Opened, Working
<1>18. CASE SelectMount
  BY <1>18, <1>1, <1>2, <1>3
  DEF SelectMount, Refuse, NoRedirect, AsSelected, Opened, Suitable, task
<1>19. CASE ManagedOpen
  BY <1>19, <1>1, <1>2, <1>3
  DEF ManagedOpen, Refuse, NoRedirect, AsSelected, Opened, Suitable, task
<1>20. CASE Compare
  BY <1>20, <1>1, <1>2, <1>3
  DEF Compare, SameRoot, Accept, Refuse, Actor, Chosen, Descent,
     NoRedirect, AsSelected, Opened, Suitable, task
<1>21. CASE RustupSettings
  BY <1>21, <1>1, <1>2, <1>3
  DEF RustupSettings, NoRedirect, AsSelected, Opened, Suitable, task
<1>22. CASE RustupCheck
  BY <1>22, <1>1, <1>2, <1>3
  DEF RustupCheck, Accept, Refuse, Actor, Descent, BesideSettings,
     NoRedirect, AsSelected, Opened, Suitable, task
<1>23. CASE ToolOwner
  BY <1>23, <1>1
  DEF ToolOwner, Refuse, Actor, NoRedirect, AsSelected, Opened, Working
<1>24. CASE ToolSnapshot
  <2>1. UNCHANGED <<sel, task>> /\ got = None /\ who = "tool" /\ sel.node = cur
    BY <1>24, <1>1, <1>2
    DEF ToolSnapshot, Accept, Refuse, Actor, ToolOnly, Working, Chosen
  <2>2. got' # None => got' = Resolve(root) /\ Snapshot(Resolve(root)) = sel
    BY <1>24, <2>1 DEF ToolSnapshot, Accept, Refuse
  <2>3. got' # None => got' = cur /\ got' \in named
    BY <2>1, <2>2, <1>3 DEF Snapshot
  <2> QED BY <2>1, <2>3, <1>1, <1>3
          DEF Descent, NoRedirect, AsSelected, Opened, task
<1> QED BY <1>11, <1>12, <1>13, <1>14, <1>15, <1>16, <1>17, <1>18, <1>19,
           <1>20, <1>21, <1>22, <1>23, <1>24 DEF RootsStep

\* No step of the opening of a root breaks the inductive invariant.
LEMMA RootsKeep ==
  ASSUME IndInv, RootsStep, UNCHANGED toolVars, UNCHANGED asked, Remember,
         RememberChecks
  PROVE  IndInv'
<1>1. /\ TypeOK' /\ Actor' /\ Descent' /\ Chosen' /\ BesideSettings'
      /\ NoRedirect' /\ AsSelected'
  BY RootsKeepTypes, RootsKeepActor, RootsKeepDescent, RootsKeepChosen,
     RootsKeepSettings, RootsKeepRoot
<1>2. UNCHANGED <<task, asked, toolVars>>
  BY DEF RootsStep
<1>3. /\ pc \notin {"identity", "done"}
      /\ pc' \in (Walking \ {"identity"}) \cup
           {"leaf", "file", "filemount", "select", "selmount", "openleaf",
            "compare",
            "settings", "check", "owner", "snapshot", "ready", "done"}
  <2>1. pc = "open" => AtEnd \in {"leaf", "select", "file", "settings", "ready",
                                  "compare",
                                  "check", "owner"}
    BY DEF AtEnd, IndInv, Actor, TypeOK, Callers, Walking
  <2> QED BY <2>1
          DEF RootsStep, StatPart, MountPart, OpenPart,
             PathsLeaf, PathsFile, PathsFileMount, Select, SelectMount,
             ManagedOpen, Compare, RustupSettings, RustupCheck, ToolOwner,
             ToolSnapshot, Refuse, Accept, Descend, Walking
<1>4. Asked'
  BY <1>2 DEF IndInv, Asked, task, asked
<1>5. Settled'
  <2>1. Settled /\ UNCHANGED <<who, identity, situation, run, profile>>
    BY <1>2 DEF IndInv, task, asked, toolVars
  <2> QED BY <2>1, <1>3 DEF Settled, Working, Walking
<1>6. Rechecked'
  <2>1. round' = round /\ again \subseteq {"root", "binary"}
    BY <1>2 DEF toolVars, IndInv, Rechecked
  <2>2. again' \subseteq {"root", "binary"}
    BY <2>1 DEF RememberChecks
  <2> QED BY <2>2, <1>3 DEF Rechecked, Walking
<1> QED BY <1>1, <1>4, <1>5, <1>6 DEF IndInv

----------------------------------------------------------------------------
(***************************************************************************)
(* The steps of the executor for tools.                                    *)
(***************************************************************************)
\* What the next step relies on has just been established.
LEMMA ToolSettled ==
  ASSUME IndInv, ToolStep, UNCHANGED asked
  PROVE  Settled'
<1>1. UNCHANGED <<fsVars, acts, task, descent, sel, settings, got, refused,
                  asked>> /\ Settled
  BY DEF ToolStep, IndInv
<1>2. profile.system \in BOOLEAN /\ SearchPaths[profile.system] \in Seq(Paths)
  BY Bounds DEF IndInv, Asked
<1>3. \/ pc = "identity" /\ pc' = "stat" /\ identity' # NoIdentity
         /\ identity' = IdentityFor(situation, run, profile.system)
      \/ pc # "identity" /\ identity' = identity
      \/ pc' = "done"
  BY DEF ToolStep, Identify, CheckBusy, ResolveBinary, SnapshotBinary,
     ValidateRoot, ValidateBinary, Probe, Command, Finish, toolVars
<1>4. pc # "done" /\ pc' # "identity"
  BY DEF ToolStep, Identify, CheckBusy, ResolveBinary, SnapshotBinary,
     ValidateRoot, ValidateBinary, Probe, AfterProbe, Command, Finish
<1>5. (who = "tool" /\ pc \notin {"identity", "done"} =>
         identity = IdentityFor(situation, run, profile.system)
         /\ identity # NoIdentity)'
  <2>1. IdentityFor(situation, run, profile.system)' = IdentityFor(situation,
        run, profile.system)
    BY DEF asked
  <2>2. pc # "identity" /\ who = "tool"
          => identity = IdentityFor(situation, run, profile.system)
                           /\ identity # NoIdentity
    BY <1>1, <1>4 DEF Settled
  <2> QED BY <1>1, <1>3, <2>1, <2>2 DEF task
<1>6. (pc \in Working \ {"ready"} => ~Unsupported)'
  <2>1. Unsupported' = Unsupported
    BY DEF Unsupported, asked
  <2>2. pc' \in Working => pc \in Working \ {"ready"} \/ ~Unsupported
    BY DEF ToolStep, Identify, CheckBusy, ResolveBinary, SnapshotBinary,
       ValidateRoot, ValidateBinary, Probe, Command, Finish, Working
  <2>3. pc \in Working \ {"ready"} => ~Unsupported
    BY <1>1 DEF Settled
  <2> QED BY <2>1, <2>2, <2>3 DEF Working
<1>7. (pc \in Working \ {"ready", "resolve"} => binary \in Paths)'
  <2>1. \/ UNCHANGED binary
        \/ /\ tried # Len(SearchPaths[profile.system])
           /\ binary' = SearchPaths[profile.system][tried + 1]
    BY DEF ToolStep, Identify, CheckBusy, ResolveBinary, SnapshotBinary,
       ValidateRoot, ValidateBinary, Probe, Command, Finish, toolVars
  <2>2. tried \in 0..Len(SearchPaths[profile.system])
    BY DEF IndInv, TypeOK
  <2>3. tried # Len(SearchPaths[profile.system])
          => SearchPaths[profile.system][tried + 1] \in Paths
    BY <2>2, <1>2
  <2>4. ASSUME pc' \in Working \ {"ready", "resolve"},
               pc \notin Working \ {"ready", "resolve"}
        PROVE  /\ binary' = SearchPaths[profile.system][tried + 1]
               /\ tried # Len(SearchPaths[profile.system])
    <3>1. ResolveBinary
      BY <2>4
      DEF ToolStep, Identify, CheckBusy, SnapshotBinary,
         ValidateRoot, ValidateBinary, Probe, AfterProbe, Command, Finish,
         Working
    <3> QED BY <2>4, <3>1 DEF ResolveBinary, Finish, Working
  <2>5. pc \in Working \ {"ready", "resolve"} => binary \in Paths
    BY <1>1 DEF Settled
  <2> QED BY <2>1, <2>3, <2>4, <2>5
<1>8. (profile.system /\ pc \in {"validate binary", "probe", "command"} =>
         Owner[sel.node] = 0 /\ ~sel.loose)'
  <2>1. profile.system /\ pc \in {"validate binary", "probe", "command"} =>
         Owner[sel.node] = 0 /\ ~sel.loose
    BY <1>1 DEF Settled
  <2>2. profile.system /\ pc' \in {"validate binary", "probe", "command"} =>
          \/ pc \in {"validate binary", "probe", "command"}
          \/ Owner[sel.node] = 0 /\ ~sel.loose
    BY DEF ToolStep, Identify, CheckBusy, ResolveBinary, SnapshotBinary,
       ValidateRoot, ValidateBinary, Probe, AfterProbe, Command, Finish
  <2> QED BY <1>1, <2>1, <2>2 DEF asked
<1>9. (profile.system /\ pc \in {"probe", "command"} =>
         Owner[binState.node] = 0 /\ ~binState.loose)'
  <2>1. ASSUME profile.system, pc' \in {"probe", "command"}
        PROVE  Owner[binState.node] = 0 /\ ~binState.loose
               /\ binState' = binState
    <3>1. pc = "validate binary" /\ Unchanged(binary, binState)
          /\ TrustedIfSystem(binary)
          /\ UNCHANGED toolVars
      BY <2>1
      DEF ToolStep, Identify, CheckBusy, ResolveBinary,
         SnapshotBinary, ValidateRoot, ValidateBinary, Probe, AfterProbe,
         Command, Finish
    <3>2. binary \in Paths
      BY <3>1, <1>1 DEF Settled, Working
    <3>3. binary \in Ancestry(binary)
      <4>1. binary.names \in Seq(STRING)
            /\ binary = [from |-> binary.from, names |-> binary.names]
        BY <3>2 DEF Paths
      <4>2. SubSeq(binary.names, 1, Len(binary.names)) = binary.names
        BY <4>1
      <4>3. Len(binary.names) \in 0..Len(binary.names)
        BY <4>1
      <4> QED BY <4>1, <4>3 DEF Ancestry
    <3>4. Owner[Resolve(binary)] = 0 /\ Resolve(binary) \notin loose
      BY <2>1, <3>1, <3>3 DEF TrustedIfSystem, Trusted
    <3> QED BY <3>1, <3>4 DEF Unchanged, Snapshot, toolVars
  <2> QED BY <2>1 DEF asked
<1> QED BY <1>5, <1>6, <1>7, <1>8, <1>9 DEF Settled

\* After the probe the root is found unchanged before the binary is.
LEMMA ToolRechecked ==
  ASSUME IndInv, ToolStep, UNCHANGED asked, RememberChecks
  PROVE  Rechecked'
<1>1. UNCHANGED <<entry, over, loose, root, sel>> /\ Rechecked
      /\ round \in {1, 2}
  BY DEF ToolStep, IndInv, TypeOK, fsVars, task
<1>2. /\ again' \subseteq again \cup {"root", "binary"}
      /\ round' = 2 => again \subseteq again'
                       /\ (Unchanged(root, sel)' => "root" \in again')
                       /\ (Unchanged(binary, binState)' => "binary" \in again')
  BY DEF RememberChecks
<1>3. CASE ValidateRoot
  <2>1. pc' = "validate binary" => Unchanged(root, sel)'
    <3>1. Unchanged(root, sel)' = Unchanged(root, sel)
      BY <1>1 DEF Unchanged, Snapshot, Resolve, Step, Lookup
    <3> QED BY <1>3, <3>1 DEF ValidateRoot, Finish
  <2>2. pc' \in {"validate binary", "done"} /\ round' = round
    BY <1>3 DEF ValidateRoot, Finish, toolVars
  <2> QED BY <1>1, <1>2, <2>1, <2>2 DEF Rechecked
<1>4. CASE ValidateBinary
  <2>1. pc' = "command" => Unchanged(binary, binState)'
    <3>1. UNCHANGED <<binary, binState>>
      BY <1>4 DEF ValidateBinary, Finish, toolVars
    <3>2. Unchanged(binary, binState)' = Unchanged(binary, binState)
      BY <3>1, <1>1 DEF Unchanged, Snapshot, Resolve, Step, Lookup
    <3> QED BY <1>4, <3>2 DEF ValidateBinary, Finish
  <2>2. pc' \in {"probe", "command", "done"} /\ round' = round
        /\ pc = "validate binary"
        /\ (pc' = "command" => round # 1)
    BY <1>4 DEF ValidateBinary, Finish, toolVars
  <2>3. pc' = "command" => round = 2
    BY <2>2, <1>1
  <2>4. pc' = "command" => "root" \in again' /\ "binary" \in again'
    BY <2>1, <2>2, <2>3, <1>1, <1>2 DEF Rechecked
  <2> QED BY <1>1, <1>2, <2>2, <2>3, <2>4 DEF Rechecked
<1>5. CASE ~ValidateRoot /\ ~ValidateBinary
  <2>1. pc' \notin {"validate binary", "command"}
    BY <1>5
    DEF ToolStep, Identify, CheckBusy, ResolveBinary, SnapshotBinary,
       Probe, AfterProbe, Command, Finish
  <2> QED BY <1>1, <1>2, <2>1 DEF Rechecked
<1> QED BY <1>3, <1>4, <1>5

\* Who works for whom does not change; neither does what has been opened.
LEMMA ToolKeep ==
  ASSUME IndInv, ToolStep, UNCHANGED asked, Remember, RememberChecks
  PROVE  IndInv'
<1>1. /\ UNCHANGED <<fsVars, acts, task, descent, sel, settings, got, refused,
                     asked>>
      /\ who = "tool" /\ ~refused /\ pc \in ToolOnly \cup {"ready"}
  BY DEF ToolStep, IndInv, Actor, TypeOK, ToolOnly, Identify, CheckBusy,
     ResolveBinary, SnapshotBinary, ValidateRoot, ValidateBinary, Probe,
     Command
<1>2. /\ UNCHANGED <<claimed, named>> /\ within \subseteq within'
  BY <1>1 DEF Remember, fsVars
<1>3. /\ pc' \in {"stat", "done"} \cup (Working \ {"ready"}) /\ pc # "snapshot"
      /\ pc' = "stat" => pc = "identity"
      /\ pc' \in Working => pc \in Working
  BY DEF ToolStep, Identify, CheckBusy, ResolveBinary, SnapshotBinary,
     ValidateRoot, ValidateBinary, Probe, Command, AfterProbe, Finish,
     Working
<1>4. TypeOK'
  <2>1. pc' = "stat" => rest # <<>>
    BY <1>3, Shape, Names DEF Walking
  <2>2. pc' = "command" /\ dry => profile.nativeDryRun
    BY <1>3, <1>1
    DEF ToolStep, ValidateBinary, Identify, CheckBusy, ResolveBinary,
       SnapshotBinary, ValidateRoot, Probe, Command, AfterProbe, Finish,
       IndInv, Settled, Unsupported, Working
  <2>3. tried' \in 0..Len(SearchPaths[profile.system]) /\ round' \in 1..2
    <3>1. Len(SearchPaths[profile.system]) \in Nat
      BY Bounds
    <3>2. tried \in 0..Len(SearchPaths[profile.system]) /\ round \in 1..2
      BY DEF IndInv, TypeOK
    <3>3. \/ tried' = tried
          \/ tried # Len(SearchPaths[profile.system]) /\ tried' = tried + 1
      BY DEF ToolStep, Identify, CheckBusy, ResolveBinary, SnapshotBinary,
         ValidateRoot, ValidateBinary, Probe, Command, Finish, toolVars
    <3>4. round' \in {round, 2}
      BY DEF ToolStep, Identify, CheckBusy, ResolveBinary, SnapshotBinary,
         ValidateRoot, ValidateBinary, Probe, Command, Finish, toolVars
    <3> QED BY <3>2, <3>3, <3>4
  <2>5. /\ acts' \in Nat /\ who' \in Callers /\ uid' \in Nat
        /\ cur' \in Dirs /\ base' \in Dirs /\ seen' \in Nodes \cup {None}
        /\ got' \in Dirs \cup Files \cup {None}
        /\ settings' \in Dirs \cup {None}
        /\ ~refused' /\ Len(rest') <= 2
    BY <1>1 DEF IndInv, TypeOK, task, descent
  <2>6. pc' \in {"stat", "mount", "open"} => rest' # <<>>
    BY <1>1, <1>3, <2>1 DEF Working, descent
  <2>7. (pc = "command" /\ dry => profile.nativeDryRun)'
    BY <2>2 DEF asked
  <2>8. tried' \in 0..Len(SearchPaths[profile'.system])
    BY <2>3 DEF asked
  <2>4. /\ entry' \in [Places -> Nodes \cup {None}]
        /\ over' \in [Dirs -> Foreign \cup {None}] /\ loose' \subseteq Nodes
    BY <1>1 DEF IndInv, TypeOK, fsVars
  <2> QED BY <2>3, <2>4, <2>5, <2>6, <2>7, <2>8 DEF TypeOK
<1>5. Asked'
  BY <1>1 DEF IndInv, Asked, task, asked
<1>6. Actor'
  <2>1. pc' = "stat" => stage = "root" /\ got = None
    BY <1>1, <1>3 DEF IndInv, Actor, Walking, Working
  <2>2. pc' \in {"stat", "done", "resolve", "binary", "validate root",
                 "validate binary", "probe",
                 "command"}
    BY <1>3 DEF Working
  <2>3. who' = "tool" /\ stage' = stage /\ got' = got
    BY <1>1 DEF task, descent
  <2> QED BY <2>1, <2>2, <2>3 DEF Actor, Walking, Working, ToolOnly
<1>7. \A x : (cur' = x => (Near(x) => Near(cur)'))
             /\ (root'.from = x => (Far(x) => Far(root.from)'))
  <2>1. \A x : cur' = x => (Near(x) => Near(cur)')
    BY <1>1, <1>2 DEF Near, Below, Content, fsVars
  <2>2. \A x : root'.from = x => (Far(x) => Far(root.from)')
    BY <1>1, <1>2 DEF Far, Below, Content, fsVars
  <2> QED BY <2>1, <2>2
<1>8. Descent'
  <2>1. UNCHANGED <<descent, root, claimed>> /\ Descent
    BY <1>1, <1>2 DEF IndInv, task
  <2>2. Far(root.from)' /\ (Near(cur) => Near(cur)')
    BY <2>1, <1>7 DEF Descent, descent
  <2>3. pc' \in Walking => pc \in Walking
    BY <1>3 DEF Walking, Working
  <2>4. pc' \notin {"leaf", "file", "filemount", "select", "selmount",
                    "openleaf", "settings"}
    BY <1>3 DEF Working
  <2>5. who' = "tool" /\ who = "tool"
    BY <1>1 DEF task
  <2> QED BY <2>1, <2>2, <2>3, <2>4, <2>5 DEF Descent, descent
<1>9. Chosen' /\ BesideSettings'
  <2>1. Resolve(root)' = Resolve(root)
    BY <1>1 DEF Resolve, Step, Lookup, fsVars, task
  <2> QED BY <1>1, <1>2, <1>3, <2>1
          DEF IndInv, Chosen, BesideSettings, Working, task
<1>10. NoRedirect' /\ AsSelected'
  BY <1>1, <1>2 DEF IndInv, NoRedirect, AsSelected, Opened, task
<1>11. Settled'
  BY ToolSettled
<1>12. Rechecked'
  BY ToolRechecked
<1> QED BY <1>4, <1>5, <1>6, <1>8, <1>9, <1>10, <1>11, <1>12 DEF IndInv

----------------------------------------------------------------------------
(***************************************************************************)
(* The theorems.                                                           *)
(***************************************************************************)
\* Stuttering changes nothing.
LEMMA StutterKeeps ==
  ASSUME IndInv, UNCHANGED vars
  PROVE  IndInv'
<1>1. UNCHANGED <<fsVars, acts, task, rootVars, history, asked, toolVars,
                  again>>
  BY DEF vars
<1>2. Resolve(root)' = Resolve(root)
  BY <1>1 DEF Resolve, Step, Lookup, fsVars, task
<1>3. (Near(cur)' <=> Near(cur)) /\ (Far(root.from)' <=> Far(root.from))
  <2>1. Near(cur)' <=> Near(cur)
    BY <1>1 DEF Near, Below, Content, fsVars, rootVars, descent, history
  <2>2. Far(root.from)' <=> Far(root.from)
    BY <1>1 DEF Far, Below, Content, fsVars, task, history
  <2> QED BY <2>1, <2>2
<1>4. \A d, n : Lookup(d, n)' = Lookup(d, n)
  BY <1>1 DEF Lookup, fsVars
<1>5. TypeOK'
  BY <1>1
  DEF IndInv, TypeOK, fsVars, task, rootVars, descent, asked, toolVars
<1>6. Asked' /\ Actor'
  BY <1>1 DEF IndInv, Asked, Actor, task, rootVars, descent, asked
<1>7. Descent' /\ Chosen'
  BY <1>1, <1>2, <1>3
  DEF IndInv, Descent, Chosen, Suitable, task, rootVars, descent, history
<1>8. BesideSettings'
  BY <1>1, <1>4 DEF IndInv, BesideSettings, task, rootVars, descent, history
<1>9. NoRedirect' /\ AsSelected'
  BY <1>1
  DEF IndInv, NoRedirect, AsSelected, Opened, Suitable, task, rootVars,
     history
<1>10. Settled'
  <2>1. Settled /\ UNCHANGED <<who, pc, identity, situation, run, profile, dry,
                               binary, sel,
                               binState>>
    BY <1>1 DEF IndInv, task, rootVars, toolVars, asked
  <2> QED BY <2>1 DEF Settled, Unsupported
<1>11. Rechecked'
  BY <1>1 DEF IndInv, Rechecked, rootVars, toolVars
<1> QED BY <1>5, <1>6, <1>7, <1>8, <1>9, <1>10, <1>11 DEF IndInv

\* No step of anybody breaks the inductive invariant.
LEMMA Inductive == IndInv /\ [Next]_vars => IndInv'
BY RootsKeep, ToolKeep, OthersKeep, StutterKeeps DEF Next

\* The inductive invariant holds in every state: while other processes change
\* the file system, the tool works on what it holds open (IndInv).
THEOREM Invariance == Spec => []IndInv
<1>1. Init => IndInv
  BY Initial
<1>2. IndInv /\ [Next]_vars => IndInv'
  BY Inductive
<1> QED BY <1>1, <1>2, PTL DEF Spec

\* Every variable keeps its type: a root is refused or opened, never both, and
\* a tool without a dry run is not run for one (TypeOK).
THEOREM TypeCorrect == Spec => []TypeOK
BY Invariance, PTL DEF IndInv

\* Whatever others rename, link or mount between any two of its system calls,
\* an executor never works on a directory that was not once in the tree its
\* descent started in, or in one taken out of it (NoRedirect).
THEOREM NeverRedirected == Spec => []NoRedirect
BY Invariance, PTL DEF IndInv

\* The root an executor works on is the one it has selected and checked
\* (AsSelected).
THEOREM WorksOnTheSelected == Spec => []AsSelected
BY Invariance, PTL DEF IndInv

\* A tool runs only if, since it was probed, both its root and its binary have
\* been found as they were when they were checked (StillAsChecked).
THEOREM CheckedAfterProbe == Spec => []StillAsChecked
<1>1. IndInv => StillAsChecked
  BY DEF IndInv, Rechecked, StillAsChecked
<1> QED BY <1>1, Invariance, PTL

\* An identity has the number, the group and the home of its account, and no
\* group that the account does not have.
LEMMA IdentityFields ==
  \A a, id :
    id = [uid |-> a.uid, gid |-> a.gid, groups |-> a.groups \ {a.gid},
          home |-> a.home] =>
      /\ id.uid = a.uid /\ id.gid = a.gid /\ id.home = a.home
      /\ 0 \notin a.groups => 0 \notin id.groups
OBVIOUS

\* With the sudo variables as they are, or as --user sets them, the account
\* --all cleans for is the one named there.
LEMMA ScopeIsInvokers ==
  ASSUME NEW s \in Situations, NEW id,
         id = IdentityFor(s, DetermineScope(s), FALSE), id # NoIdentity
  PROVE  /\ id.uid # 0 /\ id.uid = DetermineScope(s).uid
         /\ id.uid = (IF s.proc.uid # 0 THEN s.proc.uid ELSE Sudo(s).uid)
         /\ s.homes[id.home].owner = id.uid
         /\ id.gid # 0 /\ 0 \notin id.groups
<1> DEFINE scope == DetermineScope(s)
           a == LookupId(s, scope.uid)
<1>1. /\ scope.home # Unknown /\ scope.uid # 0 /\ PlainUser(s, a, scope.home)
      /\ s.proc.uid # 0 => scope.uid = s.proc.uid
      /\ id = [uid |-> a.uid, gid |-> a.gid, groups |-> a.groups \ {a.gid},
               home |-> a.home]
  BY DEF IdentityFor
<1>2. a # Unknown /\ a.uid = scope.uid
  <2>1. a # Unknown
    BY <1>1 DEF PlainUser
  <2> QED BY <2>1, AccountFound
<1>3. s.proc.uid = 0 => scope.uid = Sudo(s).uid
  BY <1>1 DEF DetermineScope, Refusal
<1>4. /\ a.gid # 0 /\ 0 \notin a.groups
      /\ s.homes[a.home].owner = a.uid
  BY <1>1 DEF PlainUser
<1> HIDE DEF a, scope
<1>5. /\ id.uid = scope.uid /\ id.home = a.home /\ id.gid # 0
      /\ 0 \notin id.groups
  BY <1>1, <1>2, <1>4, IdentityFields
<1>6. id.uid = (IF s.proc.uid # 0 THEN s.proc.uid ELSE Sudo(s).uid)
  BY <1>1, <1>3, <1>5
<1> QED BY <1>1, <1>2, <1>4, <1>5, <1>6 DEF scope

\* README 94: no hidden escalation, and sudo cannot point at the wrong home.
\* Root's rights are for profiles of the system, which root has started, and
\* for a root and a binary only root can change; every other tool runs as the
\* invoking user, in his own home, with none of root's groups (Privilege).
THEOREM NoEscalation == Spec => []Privilege
<1>1. IndInv => Privilege
  <2> SUFFICES ASSUME IndInv, pc \in {"probe", "command"}
               PROVE  Privilege
    BY DEF Privilege
  <2> DEFINE rights == Rights(situation, identity)
  <2>1. /\ identity = IdentityFor(situation, run, profile.system)
        /\ identity # NoIdentity
        /\ run = DetermineScope(situation) /\ situation \in Situations
        /\ Owner[sel.node] = IdentityFor(situation, run, profile.system).uid
        /\ profile.system \in BOOLEAN
    BY Bounds DEF IndInv, Settled, Asked, Chosen, Actor, Working, ToolOnly
  <2>2. CASE profile.system
    <3>1. situation.proc.uid = 0 /\ identity = RootIdentity
      BY <2>1, <2>2 DEF IdentityFor
    <3>2. rights.uid = 0
      BY <3>1 DEF Rights, ExecutionIdentity, RootIdentity
    <3>3. Owner[sel.node] = 0 /\ ~sel.loose /\ Owner[binState.node] = 0
          /\ ~binState.loose
      BY <2>2 DEF IndInv, Settled
    <3> QED BY <2>2, <3>1, <3>2, <3>3 DEF Privilege
  <2>3. CASE ~profile.system
    <3>1. identity = IdentityFor(situation, DetermineScope(situation), FALSE)
      BY <2>1, <2>3
    <3>2. /\ identity.uid # 0 /\ identity.uid = Invoker
          /\ situation.homes[identity.home].owner = identity.uid
          /\ identity.gid # 0 /\ 0 \notin identity.groups
      BY <2>1, <3>1, ScopeIsInvokers DEF Invoker
    <3>3. CASE situation.proc.uid # 0
      <4>1. rights = situation.proc
        BY <3>3 DEF Rights, ExecutionIdentity
      <4>2. Invoker = situation.proc.uid
        BY <3>3 DEF Invoker
      <4> QED BY <2>1, <2>3, <3>2, <4>1, <4>2 DEF Privilege
    <3>4. CASE situation.proc.uid = 0
      <4>1. rights = [uid |-> identity.uid, gid |-> identity.gid,
                      groups |-> identity.groups]
        BY <2>1, <3>4 DEF Rights, ExecutionIdentity
      <4>2. rights.uid = identity.uid /\ rights.gid = identity.gid
            /\ rights.groups = identity.groups
        BY <4>1
      <4> QED BY <2>1, <2>3, <3>2, <4>2 DEF Privilege
    <3> QED BY <3>3, <3>4
  <2> QED BY <2>2, <2>3
<1> QED BY <1>1, Invariance, PTL
==============================================================================
