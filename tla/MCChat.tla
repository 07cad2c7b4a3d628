------------------------------- MODULE MCChat -------------------------------
(* Chat for TLC: connections are interchangeable in the safety runs. *)
EXTENDS Chat, TLC

ClientSymmetry == Permutations(Client)
=============================================================================
