------------------------ MODULE MCSkillRegistration ------------------------
(* TLC instances of SkillRegistration. *)
EXTENDS SkillRegistration, TLC

CONSTANTS r1, r2

TwoRegistries == {r1, r2}
=============================================================================
