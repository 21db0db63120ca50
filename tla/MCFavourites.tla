---------------------------- MODULE MCFavourites ----------------------------
(***************************************************************************)
(* Instances of Favourites for TLC.                                        *)
(***************************************************************************)
EXTENDS Favourites

CONSTANTS
  ann, bob,  \* accounts; bob's is made by registering
  post       \* a post of ann's

AuthorOf == [p \in Post |-> ann]
=============================================================================
