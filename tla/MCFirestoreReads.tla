-------------------------- MODULE MCFirestoreReads --------------------------
(* Small instances of FirestoreReads for TLC. *)
EXTENDS FirestoreReads

(* Two refreshes of the feed overlap, while the favourites are read once. *)
FeedQueryOf == [g \in Get |-> IF g = "favourites" THEN "favourites" ELSE "posts"]
=============================================================================
