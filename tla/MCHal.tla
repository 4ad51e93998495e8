------------------------------- MODULE MCHal -------------------------------
(* Small instances of the request/reply engine.                            *)
EXTENDS Hal, TLC

CONSTANTS c1, c2

MCClients == {c1, c2}
MCOneClient == {c1}
Symmetry == Permutations(MCClients)

=============================================================================
