----------------------------- MODULE MCBroadcast -----------------------------
(* Small instances of Broadcast for TLC: the admin taps Send once.          *)
EXTENDS Broadcast, TLC

CONSTANT s1

OneTap == {s1}
=============================================================================
