-------------------------- MODULE MCFriendRequests --------------------------
(* Two cores that may ask each other.                                       *)
EXTENDS FriendRequests, TLC

CONSTANTS alice, bob, id1, id2

MCBothAsk == {<<alice, bob>>, <<bob, alice>>}
MCSymmetry == Permutations({alice, bob}) \cup Permutations({id1, id2})
=============================================================================
