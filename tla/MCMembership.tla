---------------------------- MODULE MCMembership ----------------------------
(* Instances of Membership for TLC.                                          *)
EXTENDS Membership, TLC
CONSTANTS h1, h2, ann, bob, cyd, t1, mail

TwoHandlers == {h1, h2}
ThreeUsers  == {ann, bob, cyd}
OneToken    == {t1}
OneEmail    == {mail}

Symmetry == Permutations(Handlers) \cup Permutations(Users \ {Founder})
=============================================================================
