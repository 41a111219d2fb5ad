---------------------------- MODULE AtomicBundle ----------------------------
(***************************************************************************)
(* What the installer promises of the skills in one root: the skills of a  *)
(* bundle appear, are replaced and disappear all at once, whatever fails   *)
(* and wherever an operation stops; besides, only the user changes them.   *)
(***************************************************************************)
CONSTANTS Skills, Versions, SkillsOf, None, Edited

VARIABLE skills   \* what each skill is: a version, the user's, or nothing

\* A version is published; the user may already have changed what is new.
Put(v) ==
  /\ \A s \in SkillsOf[v] : skills'[s] \in {v, Edited}
  /\ \A s \in Skills \ SkillsOf[v] : skills'[s] = skills[s]

Remove(v) == skills' = [s \in Skills |-> IF s \in SkillsOf[v] THEN None ELSE skills[s]]

Edit(s) == skills[s] \in Versions /\ skills' = [skills EXCEPT ![s] = Edited]

Next ==
  \/ \E v \in Versions : Put(v) \/ Remove(v)
  \/ \E s \in Skills : Edit(s)

Spec == [][Next]_skills
=============================================================================
