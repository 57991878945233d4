----------------------------- MODULE MCExt2Disk -----------------------------
EXTENDS Ext2Disk, TLC
\* Three free blocks in the first group, then as many as the largest file of the runs takes.
MCFreshBits == 0 :> {3, 5, 40} @@ 1 :> 2 .. 12
=============================================================================
