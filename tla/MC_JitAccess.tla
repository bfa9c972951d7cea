----------------------------- MODULE MC_JitAccess -----------------------------
(* JitAccess for TLC: the timer, an operator, and grants to one or two emails. *)
EXTENDS JitAccess

CONSTANTS g1, g2, timer, operator, e1, e2

MCGrants == {g1, g2}
MCEmails == {e1, e2}

\* Two tickets for the same user, and for two users.
MCSameEmail == [g \in MCGrants |-> e1]
MCTwoEmails == [g \in MCGrants |-> IF g = g1 THEN e1 ELSE e2]
=============================================================================
