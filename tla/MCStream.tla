------------------------------ MODULE MCStream ------------------------------
(* A small instance of Stream.                                             *)
EXTENDS Stream

\* Two chunks, which are sent again, and FileComplete, which is not.
Sizes == <<2, 1, 1>>
Tries == <<3, 2, 1>>
=============================================================================
