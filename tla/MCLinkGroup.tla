---------------------------- MODULE MCLinkGroup ---------------------------
(* Instances of LinkGroup for TLC: receivers a..d.  `new` and `other` want *)
(* the same follower c; `old`, which may exist already, has b, which `new` *)
(* wants too, and is led by the leader of `other`.                         *)
EXTENDS LinkGroup, TLC

CONSTANTS a, b, c, d, old, new, other, dis

MCLeader == (old :> d) @@ (new :> a) @@ (other :> d)

MCFollowers == (old :> <<b>>) @@ (new :> <<b, c>>) @@ (other :> <<c>>)

MCTarget == (dis :> d)

\* No dissolve runs.
NoTarget == <<>>

=============================================================================
