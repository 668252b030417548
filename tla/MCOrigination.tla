---------------------------- MODULE MCOrigination ----------------------------
(* An instance of Origination for TLC.                                     *)
EXTENDS Origination, TLC

\* Borrowers are alike, and so are sessions, requests and rates.
OriginationSymmetry ==
  Permutations(Borrower) \cup Permutations(Session) \cup Permutations(Request)
    \cup Permutations(Rate)
=============================================================================
