------------------------------- MODULE Target --------------------------------
(***************************************************************************)
(* Whose caches a run cleans and as whom its tools run: determineScope of  *)
(* src/internal/cli/clean.go, SudoUserResolver of                          *)
(* src/internal/sysinfo/user.go, tool_identity.go, and the helper that     *)
(* takes on the identity before it executes a command.                     *)
(*                                                                         *)
(* A situation is what the program finds: the process, its environment and *)
(* flags, the accounts and the homes.  The executor for tools always has a *)
(* target (clean.go:159), so the branches of identityFor for an executor   *)
(* without one are left out.                                               *)
(***************************************************************************)
EXTENDS Naturals, SequencesExt

CONSTANTS
  Unknown,      \* an unset variable, a missing account or file
  Situations    \* [proc, sudo, home, flags, accounts, homes]

Accounts ==
  [uid : Nat, gid : Nat, groups : SUBSET Nat, name : STRING, home : STRING]

\* proc: [uid, gid, groups] of beav, which is not set-user-id.
\* sudo: [uid, user], SUDO_UID and SUDO_USER; home: HOME.
\* flags: [system, all, rootHome, user].
\* accounts: the account database in order; homes[h]: [kind, owner].
ASSUME TargetAssumption ==
  \A s \in Situations :
    /\ s.proc.uid \in Nat /\ s.proc.gid \in Nat /\ s.proc.groups \subseteq Nat
    /\ s.sudo.uid \in Nat \cup {Unknown}
    /\ s.flags.system \in BOOLEAN /\ s.flags.all \in BOOLEAN /\ s.flags.rootHome \in BOOLEAN
    /\ s.accounts \in Seq(Accounts)

\* The first account that fits, as getpwuid and getpwnam answer.
LookupId(s, uid) ==
  LET i == SelectInSeq(s.accounts, LAMBDA a : a.uid = uid)
  IN IF i = 0 THEN Unknown ELSE s.accounts[i]

LookupName(s, name) ==
  LET i == SelectInSeq(s.accounts, LAMBDA a : a.name = name)
  IN IF i = 0 THEN Unknown ELSE s.accounts[i]

----------------------------------------------------------------------------
\* SudoUserResolver.Resolve: number, name and home have to agree, and the home
\* belongs to the account.
Agrees(s, sudo) ==
  /\ Unknown \notin {sudo.uid, sudo.user} /\ sudo.uid # 0
  /\ LET byId == LookupId(s, sudo.uid)
         byName == LookupName(s, sudo.user)
     IN /\ Unknown \notin {byId, byName}
        /\ byId.name = sudo.user /\ byName.uid = sudo.uid /\ byId.home = byName.home
        /\ s.homes[byId.home].kind \notin {"link", "absent"}
        /\ s.homes[byId.home].owner = sudo.uid

\* --user replaces both variables of sudo.
Sudo(s) ==
  IF s.flags.user = Unknown THEN s.sudo
  ELSE LET a == LookupName(s, s.flags.user)
       IN [uid |-> IF a = Unknown THEN Unknown ELSE a.uid, user |-> s.flags.user]

Refusal == [scope |-> "refused", home |-> Unknown, uid |-> 0]

\* determineScope
DetermineScope(s) ==
  LET f == s.flags
      root == s.proc.uid = 0
      sudo == Sudo(s)
  IN IF f.system /\ f.all THEN Refusal
     ELSE IF ~f.system /\ ~f.all
       THEN IF root /\ ~f.rootHome THEN Refusal
            ELSE [scope |-> "user", home |-> s.home, uid |-> s.proc.uid]
     ELSE IF ~root THEN Refusal
     ELSE IF f.system THEN [scope |-> "system", home |-> Unknown, uid |-> 0]
     ELSE IF ~Agrees(s, sudo) THEN Refusal
     ELSE [scope |-> "all", home |-> LookupId(s, sudo.uid).home, uid |-> sudo.uid]

----------------------------------------------------------------------------
NoIdentity == [uid |-> 0, gid |-> 0, groups |-> {}, home |-> Unknown]
RootIdentity == [uid |-> 0, gid |-> 0, groups |-> {}, home |-> "/root"]

\* lookupIdentity with verifyTargetHome: what the account database says of the
\* uid, provided that it is nobody's but a plain user's.
PlainUser(s, a, home) ==
  /\ a # Unknown
  /\ a.gid # 0 /\ 0 \notin a.groups
  /\ a.home = home
  /\ s.homes[a.home].kind = "dir" /\ s.homes[a.home].owner = a.uid

\* identityFor: whose rights a tool is to have; NoIdentity if it must not run.
IdentityFor(s, run, system) ==
  IF system
  THEN IF s.proc.uid = 0 THEN RootIdentity ELSE NoIdentity
  ELSE LET a == LookupId(s, run.uid)
       IN IF /\ run.home # Unknown /\ run.uid # 0
             /\ s.proc.uid # 0 => run.uid = s.proc.uid
             /\ PlainUser(s, a, run.home)
          THEN [uid |-> a.uid, gid |-> a.gid, groups |-> a.groups \ {a.gid}, home |-> a.home]
          ELSE NoIdentity

\* Mutant: the identity is only taken on when it is root's.
ExecutionIdentityRoot(s, identity) ==
  IF s.proc.uid # 0 \/ identity.uid # 0 THEN NoIdentity ELSE identity

\* executionIdentity: only root can take on another one.
ExecutionIdentity(s, identity) == IF s.proc.uid # 0 THEN NoIdentity ELSE identity

\* applyCommandIdentity in the helper: the rights the command has in the end.
Rights(s, identity) ==
  LET taken == ExecutionIdentity(s, identity)
  IN IF taken = NoIdentity
     THEN s.proc
     ELSE [uid |-> taken.uid, gid |-> taken.gid, groups |-> taken.groups]
=============================================================================
