--------------------------- MODULE MCMusicRelease ---------------------------
(* A small instance of MusicRelease for TLC: one release of two tracks     *)
(* wanted by two users at once.                                            *)
EXTENDS MusicRelease, TLC

CONSTANTS u1, u2, q1, q2, k1

TwoUsers == {u1, u2}
TwoRequests == {q1, q2}
TwoOfTwo == q1 :> u1 @@ q2 :> u2
OneRelease == {k1}
SameRelease == [q \in Requests |-> k1]
TwoTracks == [k \in Releases |-> 2]
\* The admin sends the second link.
AdminSecond == {q2}
=============================================================================
