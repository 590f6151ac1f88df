-------------------------- MODULE MCOverlayWriters --------------------------
(* Values for the constants of OverlayWriters that a .cfg cannot write. *)
EXTENDS OverlayWriters, TLC

CONSTANTS p, c, m, u1, u2, d1   \* ids (parent, child, minted) and actors

ChildOfP == [i \in Id |-> IF i = p THEN {c} \cap Id ELSE {}]
ZeroBody == [i \in Id |-> [f \in Field |-> 0]]
OneBody == [f \in Field |-> 1]
OnlyOne == {OneBody}
OnlyZero == {[f \in Field |-> 0]}
WholeBody == {Field}
NoneOrAll == {{}, Field}
WholeTenant == {Id}

ClientSymmetry == Permutations(Client)
=============================================================================
