---------------------------- MODULE MCRateLimit ----------------------------
(* Small instances of RateLimit for TLC.                                   *)
EXTENDS RateLimit, TLC

CONSTANTS alice, a, b

\* Two requests of one client through different processes.
OneClient == {[id |-> 1, client |-> alice, proc |-> a],
              [id |-> 2, client |-> alice, proc |-> b]}

NonceSymmetry == Permutations(Nonces)
============================================================================
