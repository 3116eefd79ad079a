----------------------------- MODULE MCFileCopy -----------------------------
(* FileCopy with two uploads: one of nothing, one chunk or one chunk too     *)
(* many, and one that fills the limit exactly.                               *)
EXTENDS FileCopy

MCSources == {[u \in Upload |-> IF u = "any" THEN n ELSE MaxChunks] : n \in {0, 1, MaxChunks + 1}}
=============================================================================
