--------------------------- MODULE MCConversation ---------------------------
(* The instance: two rows of one municipality, and another one to switch to. *)
EXTENDS Conversation

CONSTANTS r1, r2, A, B

AllOfA == [r \in Rows |-> A]

\* The panel is opened in the municipality of the rows.
MCInit == Init /\ town = A

MCSpec == MCInit /\ [][Next]_vars /\ Fairness
=============================================================================
