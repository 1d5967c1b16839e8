--------------------------- MODULE MCRootContract ---------------------------
(* Two intermediate contracts with two possible roots each, a 3-bit u64    *)
(* (times 0..7) and epochs of two time units, so that up to three epochs   *)
(* fit before the clock runs out and the subtraction can wrap.             *)
EXTENDS RootContract

CONSTANTS a1, a2, r1, r2

MCAddresses == {a1, a2}
MCRoots == {r1, r2}
=============================================================================
