----------------------------- MODULE MCInstall -----------------------------
(* Small instances of Install.                                             *)
EXTENDS Install, TLC

CONSTANTS i1, i2, g1

\* Two installs and `shr config`, which does what other commands do and more.
Kinds == [c \in Cmd |-> IF c = g1 THEN "config" ELSE "install"]
Alike == Permutations({i1, i2} \cap Cmd)
JustCrash == {"crash"}
============================================================================
