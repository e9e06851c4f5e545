------------------------------ MODULE Delivery ------------------------------
(***************************************************************************)
(* What a file transfer promises, whatever happens on the way: a file is   *)
(* accepted only as the file whose hash the sender has announced, it stays *)
(* that file as long as it counts as accepted, and a transfer that its     *)
(* sender was told has failed is never accepted. Threads, frames, chunks   *)
(* and tables do not appear. The hash of a file that cannot be read is     *)
(* NoHash, and it matches a file that is not there.                        *)
(***************************************************************************)
EXTENDS FiniteSets

CONSTANTS
    Xfer,           \* transfers
    Name,           \* file names
    FileName,       \* the name each transfer saves its file under
    NoHash          \* the hash of no file

VARIABLES
    outcome,        \* what the sender has been told: "open", "failed", "over"
    promise,        \* the hash announced for each transfer
    disk,           \* the hash of what is stored under each name
    accepted        \* the transfers that count as complete

vars == <<outcome, promise, disk, accepted>>

\* Two transfers under one name overwrite each other's file.
Sole(x) == \A y \in Xfer \ {x} : FileName[y] # FileName[x]

Init ==
    /\ outcome = [x \in Xfer |-> "open"]
    /\ promise = [x \in Xfer |-> NoHash]
    /\ disk = [n \in Name |-> NoHash]
    /\ accepted = {}

\* The hash is announced, once. Any hash will do, NoHash too.
Announce(x) ==
    /\ outcome[x] = "open"
    /\ promise[x] = NoHash
    /\ promise' = [promise EXCEPT ![x] = promise'[x]]
    /\ UNCHANGED <<outcome, disk, accepted>>

\* Something is written to a file. Anything may be, but not over a file that
\* has been accepted.
Store(n) ==
    /\ \A x \in accepted : FileName[x] = n => ~Sole(x)
    /\ disk' = [disk EXCEPT ![n] = disk'[n]]
    /\ UNCHANGED <<outcome, promise, accepted>>

Accept(x) ==
    /\ outcome[x] # "failed"
    /\ Sole(x) => disk[FileName[x]] = promise[x]
    /\ accepted' = accepted \cup {x}
    /\ UNCHANGED <<outcome, promise, disk>>

\* The record of a transfer is cancelled or cleaned up.
Forget(old) ==
    /\ accepted' = accepted \ old
    /\ UNCHANGED <<outcome, promise, disk>>

\* The sender gives up. The file has not been accepted.
Fail(x) ==
    /\ outcome[x] = "open"
    /\ x \notin accepted
    /\ outcome' = [outcome EXCEPT ![x] = "failed"]
    /\ UNCHANGED <<promise, disk, accepted>>

\* The senders have done all they can do, or have died.
End(senders) ==
    /\ \A x \in senders : outcome[x] = "open"
    /\ outcome' = [x \in Xfer |-> IF x \in senders THEN "over" ELSE outcome[x]]
    /\ UNCHANGED <<promise, disk, accepted>>

Next ==
    \/ \E x \in Xfer : Announce(x) \/ Accept(x) \/ Fail(x)
    \/ \E n \in Name : Store(n)
    \/ \E some \in SUBSET Xfer : Forget(some) \/ End(some)

Spec == Init /\ [][Next]_vars
=============================================================================
