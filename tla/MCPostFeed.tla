----------------------------- MODULE MCPostFeed -----------------------------
(***************************************************************************)
(* Instances of PostFeed for TLC.                                          *)
(***************************************************************************)
EXTENDS PostFeed, TLC

CONSTANTS a, r, s  \* posts: a is the user's, r and s are those of others

(* One commit in each second. *)
EverySecond == [n \in Commits |-> n]

(* Commits 1 and 2 in one second, 3 and 4 in the next. *)
TwoPerSecond == [n \in Commits |-> (n + 1) \div 2]
=============================================================================
