------------------------------- MODULE Answer --------------------------------
(***************************************************************************)
(* What a user who asked about a staged note may see on the phone: the     *)
(* answer's messages in order, none skipped, each at most Limit times in a *)
(* row, possibly broken off; or the apology, again at most Limit times;    *)
(* never both.                                                             *)
(***************************************************************************)
EXTENDS Parts

CONSTANT Limit

VARIABLES
    answer,   \* the sizes of the results, or None while there are none
    seen,     \* the message received last, or None
    copies    \* how often it was received

avars == <<answer, seen, copies>>

Init == answer = None /\ seen = None /\ copies = 0

Decide ==
    /\ answer = None /\ seen = None
    /\ answer' \in Sizes
    /\ UNCHANGED <<seen, copies>>

Receive(part) == seen' = part /\ copies' = 1 /\ UNCHANGED answer

Begin == answer # None /\ seen = None /\ Receive(First)

Advance ==
    /\ answer # None /\ seen # None
    /\ Following(answer, seen) # None
    /\ Receive(Following(answer, seen))

Repeat ==
    /\ seen # None /\ copies < Limit
    /\ copies' = copies + 1
    /\ UNCHANGED <<answer, seen>>

Apologise == answer = None /\ seen = None /\ Receive(Sorry)

Next == Decide \/ Begin \/ Advance \/ Repeat \/ Apologise

Spec == Init /\ [][Next]_avars
=============================================================================
