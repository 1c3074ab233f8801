---------------------------- MODULE MCOAuthFlow ----------------------------
(* Instances of OAuthFlow for TLC.                                         *)
EXTENDS OAuthFlow, TLC

CONSTANTS ann, bob, a1, l1, l2

MCUsers == {ann, bob}
MCAccounts == {a1}
MCLinks == {l1, l2}
MCSymmetry == Permutations(MCUsers) \cup Permutations(MCLinks)
=============================================================================
