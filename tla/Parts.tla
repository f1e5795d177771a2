-------------------------------- MODULE Parts --------------------------------
(***************************************************************************)
(* The messages an answer is sent as: three results, each in one or more   *)
(* chunks, in the order _handle_awaiting_text and _send_chunked send them. *)
(***************************************************************************)
EXTENDS Naturals

CONSTANTS
    MaxChunks,   \* bound: chunks of one result
    None,
    Sorry        \* settings.msg_llm_error

Results == 1 .. 3    \* transcript, summary, suggested reply
Part == Results \X (1 .. MaxChunks)

ASSUME PartsAssumption ==
    /\ MaxChunks \in Nat \ {0}
    /\ None \notin Part \cup [Results -> 1 .. MaxChunks]
    /\ Sorry \notin Part \cup {None}

\* The number of chunks of each result; _chunk_message returns at least one.
Sizes == [Results -> 1 .. MaxChunks]

First == <<1, 1>>

\* The message sent after p, or None.
Following(sizes, p) ==
    IF p[2] < sizes[p[1]] THEN <<p[1], p[2] + 1>>
    ELSE IF p[1] < 3 THEN <<p[1] + 1, 1>>
    ELSE None

Last(sizes) == <<3, sizes[3]>>
=============================================================================
