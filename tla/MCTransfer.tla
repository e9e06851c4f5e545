----------------------------- MODULE MCTransfer -----------------------------
(* Small instances of Transfer.                                            *)
EXTENDS Status

CONSTANTS x1, x2, f1, f2, a, b, p1

OneFile   == [x \in Xfer |-> f1]
TwoFiles  == [x \in Xfer |-> IF x = x1 THEN f1 ELSE f2]
OneProc   == [x \in Xfer |-> p1]

\* An empty file, one chunk, two different chunks and two equal ones.
Files      == {<<>>, <<a>>, <<a, b>>, <<a, a>>}
LongFiles  == Files \cup {<<a, b, a>>}
ShortFiles == {<<a>>, <<a, b>>}
TwoChunks  == {<<a, b>>}

NoFaults   == {}
\* What makes rows and files differ, and the commands that touch the rows of
\* other processes.
RowFaults  == {"edit", "cancel", "clean", "busy", "slow", "disk", "crashR",
               "corrupt"}
\* Everything that can go wrong while the receiver lives, its disk works and
\* the source file is left alone.
LineFaults == {"refuse", "connect", "open", "reset", "slow", "stall",
               "corrupt", "busy", "crashS"}
\* No "slow" here: a thread gives up only when no answer can come.
LiveFaults == {"connect", "open", "reset", "stall", "corrupt", "edit",
               "disk", "crashS", "crashR"}
JustSlow   == {"slow"}
=============================================================================
