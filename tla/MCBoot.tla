------------------------------- MODULE MCBoot -------------------------------
(* Modes a monitor may give; framebuffers whose last page of 2 MB has room   *)
(* for the end of the buffer (up to the last byte), and one whose has not.   *)
EXTENDS Boot
MCDisplays == {<<1920, 1080>>, <<0, 0>>}
MCFbBases == {1000 * MB, 1000 * MB + 94208}
MCFbFar == {1000 * MB + 114688}
=============================================================================
