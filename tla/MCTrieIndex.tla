----------------------------- MODULE MCTrieIndex -----------------------------
(* Tries of two levels with four digits, for TLC.                          *)
EXTENDS TrieIndex

MCRanges == {<<2, 6>>}
MCJunkPositions == {[i \in 1 .. Base |-> i % Base]}
MCJunkValues == {3}
=============================================================================
