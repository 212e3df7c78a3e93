-------------------------- MODULE MCCorePolicy --------------------------
(* TLC instances of CorePolicy. *)
EXTENDS CorePolicy, TLC

CONSTANTS h1, h2, a, own, didA, k1

MCHandlers == {h1, h2}
MCPeers    == {a, own}
MCSkills   == {k1}
MCDidOf    == [p \in MCPeers |-> IF p = a THEN didA ELSE own]

\* The DID of a may not use k1 and the daemon may send nothing else; then peers may do
\* anything, an anonymous source only k1.
MCRules == << [source |-> {didA}, skill |-> {k1}, allow |-> FALSE],
              [source |-> {own}, skill |-> {NoSkill}, allow |-> FALSE],
              [source |-> {a, own}, skill |-> {k1, NoSkill}, allow |-> TRUE],
              [source |-> {a, own, Anonymous}, skill |-> {k1}, allow |-> TRUE] >>

Symmetry == Permutations({h1, h2})
=============================================================================
