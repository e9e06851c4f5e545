---------------------------- MODULE FrameChannel ----------------------------
(***************************************************************************)
(* What a packet connection promises its two ends: the packets that are    *)
(* delivered are the packets that were sent, in that order, without loss,  *)
(* repetition or change, up to the moment the connection ends.             *)
(***************************************************************************)
EXTENDS Naturals, Sequences

CONSTANT Packet

VARIABLES
    sent,       \* packets sent
    got,        \* packets delivered
    open        \* does the receiving end still read?

Init ==
    /\ sent = <<>>
    /\ got = <<>>
    /\ open = TRUE

Send(p) ==
    /\ sent' = Append(sent, p)
    /\ UNCHANGED <<got, open>>

Deliver ==
    /\ open
    /\ Len(got) < Len(sent)
    /\ got' = Append(got, sent[Len(got) + 1])
    /\ UNCHANGED <<sent, open>>

Close ==
    /\ open' = FALSE
    /\ UNCHANGED <<sent, got>>

Next ==
    \/ \E p \in Packet : Send(p)
    \/ Deliver
    \/ Close

Spec == Init /\ [][Next]_<<sent, got, open>>
=============================================================================
