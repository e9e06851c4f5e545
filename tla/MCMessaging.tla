---------------------------- MODULE MCMessaging ----------------------------
(* A small instance of Messaging.                                          *)
EXTENDS Messaging, TLC

CONSTANTS n1, n2, m1, m2, m3

\* Two messages to the same node, and one that this node sends to itself.
From == [m \in Msg |-> IF m = m3 THEN n1 ELSE n2]
To   == [m \in Msg |-> n1]

\* The two messages of n2 are interchangeable.
Alike == Permutations({m1, m2})

AllFaults == FaultKinds
============================================================================
