------------------------------ MODULE MCHandler ------------------------------
(* Handler for TLC: p1 sends every message but those in FromP2 and FromP3. *)
EXTENDS Handler, TLC

CONSTANTS p1, p2, p3, FromP2, FromP3

MCSender ==
    [m \in Messages |-> IF m \in FromP2 THEN p2 ELSE IF m \in FromP3 THEN p3 ELSE p1]

\* Messages of one phone and kind are interchangeable.
MCKind(p, a) == {m \in Messages : Sender[m] = p /\ (m \in Audio) = a}
MCSymmetry == UNION {Permutations(MCKind(p, a)) : p \in Phones, a \in BOOLEAN}
=============================================================================
