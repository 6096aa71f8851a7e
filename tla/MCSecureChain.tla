---------------------------- MODULE MCSecureChain ----------------------------
(***************************************************************************)
(* Instance for TLC: a shipping line and two parties, two chains one after *)
(* the other for one container, two tokens.                                *)
(***************************************************************************)
EXTENDS SecureChain

CONSTANTS line, agent, haulier, c1, c2, n1, n2, nobody

MCOrgs == {line, agent, haulier}
MCLines == {line}
MCChains == {c1, c2}
MCNonces == {n1, n2}

Symmetry ==
    Permutations(MCChains) \union Permutations(MCNonces) \union Permutations({agent, haulier})
=============================================================================
