------------------------- MODULE MCPluginLifecycle -------------------------
(* Instances of PluginLifecycle for TLC. The nodes are interchangeable,    *)
(* and so are the secrets.                                                 *)
EXTENDS PluginLifecycle, TLC

CONSTANTS n1, n2, good, bad, s1, s2

MCNodes == {n1, n2}
MCApps == {good, bad}
MCConnectable == {good}
MCChecked == {good}
MCSecrets == {s1, s2}
MCSymmetry == Permutations(MCNodes) \cup Permutations(MCSecrets)
=============================================================================
