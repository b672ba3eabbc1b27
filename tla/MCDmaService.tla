---------------------------- MODULE MCDmaService -----------------------------
\* Two channels, three jobs (a submit can find both channels busy and
\* a channel is used again), sizes on both sides of a beat boundary and zero.
EXTENDS DmaService

CONSTANTS j1, j2, j3, none

MCJobs  == {j1, j2, j3}
MCBytes == {0, 16, 33}
MCSteps == {1, 2}
=============================================================================
