----------------------------- MODULE Registry -----------------------------
(***************************************************************************)
(* The registry of `beav clean`: the documents of built-in and user        *)
(* cleaners, their merge by id, the effective configuration and the checks *)
(* before a run (src/internal/cleaner/registry, src/internal/config and    *)
(* runClean of src/internal/cli/clean.go).                                 *)
(*                                                                         *)
(* Abstractions.  A document is a record.  A field that may be absent is a *)
(* set of at most one value, an absent name is "".  kind is the type of    *)
(* the cleaner (types treated alike are one kind), profile that of its     *)
(* closed profile block, and a path is the place it lies in.  The blocks   *)
(* of container, package-cache and journal cleaners are complete.          *)
(***************************************************************************)
EXTENDS Integers, SequencesExt

Kinds == {"paths", "debris", "units", "commands", "tool"}
Scopes == {"user", "system"}
Reserved == "lang-cargo"

Documents ==
  [id : STRING, kind : STRING, scope : STRING, tags : Seq(STRING),
   prefixes : SUBSET STRING, impact : STRING, profile : STRING,
   enabled : SUBSET BOOLEAN, age : SUBSET Int, noAge : BOOLEAN,
   paths : SUBSET STRING]

\* Profiles a kind may name.
KnownProfiles(kind) ==
  CASE kind = "tool" -> {"safe", "heavy"}
    [] kind = "debris" -> {"safe"}
    [] kind = "units" -> {"heavy"}
    [] OTHER -> {}

\* The impact declared, or the one the profile demands.
Heavy(c) ==
  c.impact = "heavy" \/ (c.kind \in {"tool", "units"} /\ c.profile = "heavy")

----------------------------------------------------------------------------
(***************************************************************************)
(* Validate and normalizeAndValidate.                                      *)
(***************************************************************************)
Valid(c) ==
  /\ c.kind \in Kinds /\ c.scope \in Scopes
  /\ c.kind = "paths" => c.paths # {}
  /\ c.kind \in {"tool", "debris", "units"} => c.profile \in KnownProfiles(c.kind)
  /\ c.kind = "units" => ~c.noAge

\* A document without a type is only an overlay and is not yet complete.
Loads(doc) == IF doc.kind = "" THEN doc.profile # "unknown" ELSE Valid(doc)

BuiltinLoads(builtin) == \A i \in DOMAIN builtin : Loads(builtin[i])
UserLoads(user) ==
  \A i \in DOMAIN user : Loads(user[i]) /\ user[i].id # Reserved

----------------------------------------------------------------------------
(***************************************************************************)
(* MergeByID.                                                              *)
(***************************************************************************)
IndexOf(list, id) == {i \in DOMAIN list : list[i].id = id}

\* The last built-in document of an id counts.
PutBuiltin(list, doc) ==
  IF IndexOf(list, doc.id) = {} THEN Append(list, doc)
  ELSE [i \in DOMAIN list |-> IF list[i].id = doc.id THEN doc ELSE list[i]]

Fits(base, doc) ==
  doc.kind \in {"", base.kind} /\ doc.scope \in {"", base.scope}

Latest(old, new) == IF new = {} THEN old ELSE new

\* Mutant: the impact is taken over as well.
OverlaidWithImpact(base, doc) ==
  [base EXCEPT !.enabled = Latest(base.enabled, doc.enabled),
               !.age = Latest(base.age, doc.age),
               !.noAge = base.noAge \/ doc.noAge,
               !.paths = base.paths \cup doc.paths,
               !.tags = base.tags \o doc.tags,
               !.impact = doc.impact]

Overlaid(base, doc) ==
  [base EXCEPT !.enabled = Latest(base.enabled, doc.enabled),
               !.age = Latest(base.age, doc.age),
               !.noAge = base.noAge \/ doc.noAge,
               !.paths = base.paths \cup doc.paths,
               !.tags = base.tags \o doc.tags]

PutUser(list, doc) ==
  IF IndexOf(list, doc.id) = {} THEN Append(list, doc)
  ELSE [i \in DOMAIN list |->
          IF list[i].id = doc.id THEN Overlaid(list[i], doc) ELSE list[i]]

MergeByID(builtin, user) ==
  FoldLeft(PutUser, FoldLeft(PutBuiltin, <<>>, builtin), user)

\* No overlay changes a type or a scope.  The first document of an id that is
\* not built in is no overlay.
Merges(builtin, user) ==
  LET merged == MergeByID(builtin, user)
  IN /\ \A i \in DOMAIN merged : Valid(merged[i])
     /\ \A i \in DOMAIN merged, j \in DOMAIN user :
          user[j].id = merged[i].id => Fits(merged[i], user[j])

----------------------------------------------------------------------------
(***************************************************************************)
(* applyEffectiveConfig.  flags.tagAge maps selectors of --min-age to      *)
(* days, flags.age is its global value; config.enabled and config.age are  *)
(* the overrides by id, config.default is defaults.min_age_days.           *)
(***************************************************************************)
OverrideOf(table, id) == IF id \in DOMAIN table THEN {table[id]} ELSE {}

\* The first of the cleaner's id and tags that --min-age names.
TagAge(c, flags) ==
  LET selectors == <<c.id>> \o c.tags
      named == {i \in DOMAIN selectors : selectors[i] \in DOMAIN flags.tagAge}
  IN IF named = {} THEN {}
     ELSE {flags.tagAge[selectors[CHOOSE i \in named : \A j \in named : i <= j]]}

\* -1 stands for absent.
Given(age) == age \ {-1}

EffectiveAge(c, config, flags) ==
  LET sources == <<TagAge(c, flags), flags.age, Given(OverrideOf(config.age, c.id)),
                   Given(c.age), {config.default}>>
      used == {i \in DOMAIN sources : sources[i] # {}}
  IN sources[CHOOSE i \in used : \A j \in used : i <= j]

\* Mutant: --force-no-age is not asked for.
NoAgeAllowedAlways(flags) == flags.force \in BOOLEAN
NoAgeAllowed(flags) == flags.force

Configured(c, config, flags) ==
  LET enabled == Latest(c.enabled, OverrideOf(config.enabled, c.id))
  IN IF c.noAge
     THEN [c EXCEPT !.enabled = IF NoAgeAllowed(flags) THEN enabled ELSE {FALSE}]
     ELSE [c EXCEPT !.enabled = enabled, !.age = EffectiveAge(c, config, flags)]

Effective(merged, config, flags) ==
  [i \in DOMAIN merged |-> Configured(merged[i], config, flags)]

----------------------------------------------------------------------------
\* ValidatePaths: every path, of an overlay too, lies in an allowed place.  The
\* home of the user is none for a cleaner of the system.
PathsAllowed(c) ==
  c.kind = "paths" =>
    c.paths \subseteq IF c.scope = "system" THEN {"system"} ELSE {"system", "home"}
============================================================================
