---------------------------- MODULE Conversation ----------------------------
(***************************************************************************)
(* What the bot promises one phone, apart from how a row, a ring and a     *)
(* container keep the promise:                                             *)
(*   - a message is taken up at most once within any Window successive     *)
(*     new messages;                                                       *)
(*   - at most one voice note awaits context, and a note that was replaced *)
(*     or answered never awaits context again.                             *)
(***************************************************************************)
EXTENDS Naturals, Sequences

CONSTANTS Phones, Messages, Notes, None, Window

VARIABLES
    note,       \* phone -> the note that awaits context, or None
    staged,     \* the notes that have awaited context
    accepted    \* phone -> the messages taken up, in order

cvars == <<note, staged, accepted>>

Init ==
    /\ note = [p \in Phones |-> None]
    /\ staged = {}
    /\ accepted = [p \in Phones |-> << >>]

\* m is not among the Window messages last taken up.
Fresh(p, m) ==
    \A i \in DOMAIN accepted[p] :
        accepted[p][i] = m => Len(accepted[p]) + 1 - i > Window

Accept(p, m) ==
    /\ Fresh(p, m)
    /\ accepted' = [accepted EXCEPT ![p] = Append(@, m)]
    /\ UNCHANGED <<note, staged>>

Stage(p, n) ==
    /\ n \notin staged
    /\ note' = [note EXCEPT ![p] = n]
    /\ staged' = staged \cup {n}
    /\ UNCHANGED accepted

Release(p) ==
    /\ note[p] # None
    /\ note' = [note EXCEPT ![p] = None]
    /\ UNCHANGED <<staged, accepted>>

Next ==
    \E p \in Phones :
        \/ \E m \in Messages : Accept(p, m)
        \/ \E n \in Notes : Stage(p, n)
        \/ Release(p)

Spec == Init /\ [][Next]_cvars
=============================================================================
