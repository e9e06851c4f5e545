------------------------------ MODULE MCPeers ------------------------------
(* Small instances of Peers.                                               *)
EXTENDS Peers

\* With "net" every ping may fail, so hosts need not go away.
RaceInputs   == InputKinds \ {"host"}
\* No "busy" and no "net": the beacon gets through in the end.
BeaconInputs == {"ping", "announce", "discover", "remove", "beacon", "host"}
============================================================================
