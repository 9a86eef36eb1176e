----------------------------- MODULE MCCommunity -----------------------------
(* Instances of Community for TLC. *)
EXTENDS Community, TLC

CONSTANTS u1, u2

Symmetry == Permutations(Reviewers) \cup Permutations(Syncs)

\* u1 is an ordinary user; u2 leads the community or is a super admin.
TwoRoles == {[u \in {u1, u2} |-> IF u = u1 THEN "member" ELSE other] :
               other \in {"leader", "admin"}}

Tx(with, old) == [with |-> with, old |-> old]

\* u1 has paid u2 now and long ago, and strangers in between; u2 has paid a
\* stranger.
ShortLedgers == [u \in {u1, u2} |->
  IF u = u1 THEN <<Tx(u2, FALSE), Tx(NoUser, FALSE), Tx(NoUser, FALSE), Tx(u2, TRUE)>>
            ELSE <<Tx(NoUser, FALSE)>>]
=============================================================================
