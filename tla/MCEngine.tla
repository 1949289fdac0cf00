------------------------------ MODULE MCEngine ------------------------------
(***************************************************************************)
(* A registry with a cleaner of every kind, two of them heavy, overlays    *)
(* and cleaners of the user, files that are refused, and command lines     *)
(* that select by id, tag, prefix and scope.                               *)
(***************************************************************************)
EXTENDS Engine

Doc(id, kind, scope, tags) ==
  [id |-> id, kind |-> kind, scope |-> scope, tags |-> tags, prefixes |-> {},
   impact |-> "safe", profile |-> "safe", enabled |-> {}, age |-> {},
   noAge |-> FALSE, paths |-> IF kind = "paths" THEN {"home"} ELSE {}]

Overlay(id) == [Doc(id, "", "", <<>>) EXCEPT !.profile = ""]

Npm == [Doc("lang-npm", "tool", "user", <<"cache", "slow">>) EXCEPT
          !.prefixes = {"lang"}]
Off == [Doc("off", "paths", "user", <<"desk">>) EXCEPT !.enabled = {FALSE}]
Docker == [Doc("docker", "commands", "system", <<"cache">>) EXCEPT !.age = {7}]
Partials == Doc("partials", "debris", "user", <<"desk">>)
Rust == [Doc("lang-rust", "units", "user", <<"cache">>) EXCEPT
           !.prefixes = {"lang"}, !.profile = "heavy", !.age = {30}]
Trash == Doc("trash", "paths", "user", <<"desk", "slow">>)
BuiltIn == <<Npm, Off, Docker, Partials, Rust, Trash>>

NoConfig == [enabled |-> <<>>, age |-> <<>>, default |-> 14]
Plain == [builtin |-> BuiltIn, user |-> <<>>, config |-> NoConfig]

\* A cleaner of the user's own, declared heavy, and a second file that adds to it.
Mine == [Doc("mine", "paths", "user", <<"desk">>) EXCEPT
           !.impact = "heavy", !.prefixes = {"lang"}]
More == [Overlay("mine") EXCEPT !.tags = <<"slow">>, !.paths = {"system"}]
Own == [builtin |-> <<Off, Rust>>,
        user |-> <<Mine, More, [Overlay("off") EXCEPT !.enabled = {TRUE}, !.noAge = TRUE]>>,
        config |-> [enabled |-> [i \in {"lang-rust"} |-> FALSE],
                    age |-> [i \in {"mine"} |-> 3], default |-> 14]]

\* Files that are refused, the last one only with "trash" selected.
Refused == {
  [Plain EXCEPT !.user = <<[Overlay("docker") EXCEPT !.kind = "paths"]>>],
  [Plain EXCEPT !.user = <<[Overlay("docker") EXCEPT !.scope = "user"]>>],
  [Plain EXCEPT !.user = <<[Overlay("lang-rust") EXCEPT !.noAge = TRUE]>>],
  [Plain EXCEPT !.user = <<Doc("lang-cargo", "paths", "user", <<>>)>>],
  [Plain EXCEPT !.user = <<Overlay("lang-go")>>],
  [Plain EXCEPT !.user = <<[Overlay("lang-npm") EXCEPT !.profile = "unknown"]>>],
  [Plain EXCEPT !.user = <<[Overlay("trash") EXCEPT !.paths = {"outside"}]>>]}

Found == {Plain, Own} \cup Refused

Line(scope, only, skip, heavy, dry) ==
  [scope |-> scope, only |-> only, skip |-> skip, heavy |-> heavy,
   dry |-> dry, tagAge |-> <<>>, age |-> {}, force |-> FALSE]

CommandLines == {
  Line("all", {"cache"}, {}, FALSE, FALSE),
  [Line("user", {"lang", "desk"}, {"slow"}, FALSE, FALSE) EXCEPT
     !.age = {60}, !.tagAge = [t \in {"desk"} |-> 90]],
  [Line("user", {"desk", "lang"}, {"trash"}, TRUE, FALSE) EXCEPT !.force = TRUE],
  Line("all", {"lang-npm", "slow"}, {}, FALSE, FALSE),
  Line("user", {"off", "lang"}, {}, FALSE, FALSE),
  Line("all", {}, {"slow", "desk"}, TRUE, TRUE)}
============================================================================
