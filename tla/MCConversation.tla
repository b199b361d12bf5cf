---------------------------- MODULE MCConversation ----------------------------
(* Conversation for TLC: the things are interchangeable.                   *)
EXTENDS Conversation, TLC

Symmetry == Permutations(Thing)
=============================================================================
