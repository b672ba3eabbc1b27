---------------------------- MODULE MCArenaAlloc -----------------------------
\* Four tensors, so that blocks that may overlap each other surround a gap;
\* sizes below, at and above one aligned unit; ranges that touch at one
\* operator, nest and are apart, one of them a graph input's (from -1).
EXTENDS ArenaAlloc

MCRanges == {[first |-> -1, last |-> 0], [first |-> 0, last |-> 1],
             [first |-> 1, last |-> 1], [first |-> 1, last |-> 2]}
=============================================================================
