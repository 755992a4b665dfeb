---------------------------- MODULE MCRulesFile ----------------------------
(* One or two goroutines that save two rules and one filtered host.        *)
EXTENDS RulesFile, TLC

CONSTANTS s1, s2, r1, r2, h1

MCOne    == {s1}
MCTwo    == {s1, s2}
MCRules  == {r1, r2}
MCHosts  == {h1}
MCAll    == {"set", "filter", "add", "import"}
MCSet    == {"set"}
Symmetric == Permutations({r1, r2})
=============================================================================
