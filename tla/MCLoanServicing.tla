--------------------------- MODULE MCLoanServicing ---------------------------
(***************************************************************************)
(* Values of LoanServicing's constants for TLC.                            *)
(***************************************************************************)
EXTENDS LoanProperties, TLC

\* The principal of every loan, in centavos.
MCPrincipal == [l \in Loan |-> 3]

\* Due dates on days 1 and 3, then daily: gaps differ, as half months do.
MCDueDate == [l \in Loan |-> [i \in 1 .. MaxDay + 1 |-> IF i = 1 THEN 1 ELSE i + 1]]

\* Sessions are interchangeable.
SessionSymmetry == Permutations(Session)
=============================================================================
