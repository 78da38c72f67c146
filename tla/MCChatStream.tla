---------------------------- MODULE MCChatStream ----------------------------
(* A small chat for TLC: every constant is given in the .cfg.              *)
EXTENDS ChatStream, TLC

\* Ids are interchangeable; liveness is checked without this.
Symmetry == Permutations(Requests) \cup Permutations(Messages) \cup Permutations(Users)
=============================================================================
