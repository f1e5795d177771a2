------------------------------ MODULE MCChunker ------------------------------
(* Chunker for TLC: every body of at most MaxLength characters, and long    *)
(* ones that repeat a short pattern.                                        *)
EXTENDS Chunker

CONSTANTS
    MaxLength,   \* bound: length of the bodies taken all
    Period,      \* bound: length of the repeated patterns
    LongLength   \* length of the repeating bodies

MCShort == BoundedSeq(Chars, MaxLength)
MCLong ==
    {[i \in 1 .. LongLength |-> p[((i - 1) % Len(p)) + 1]] :
        p \in BoundedSeq(Chars, Period) \ {<< >>}}
MCBodies == {b \in MCShort \cup MCLong : b # << >> /\ b[1] \notin Blanks}
=============================================================================
