------------------------------- MODULE Chunker -------------------------------
(***************************************************************************)
(* _chunk_message of handlers.py, one turn of its loop at a time, and the  *)
(* markers _send_chunked puts before the chunks.  A body is a sequence of  *)
(* kinds of character: what splits, what strip() removes, and the rest.    *)
(* Python counts characters from 0 and rfind returns -1 for none; here     *)
(* positions count from 1 and LastOf returns 0.                            *)
(***************************************************************************)
EXTENDS Naturals, SequencesExt

CONSTANTS
    Bodies,   \* the bodies: sequences of Chars
    Limits    \* values of settings.whatsapp_max_chars_per_message

Letter == "letter"
Stop == "stop"         \* any of . ? !
Space == "space"
Newline == "newline"
Tab == "tab"           \* stripped as a blank, but no place to split

Blanks == {Space, Newline, Tab}
Chars == {Letter, Stop} \cup Blanks
Reserve == 16          \* _CHUNK_MARKER_RESERVE

\* Every body starts with a label, and no label starts with a blank.
ASSUME BodiesAssumption ==
    /\ Bodies \subseteq Seq(Chars)
    /\ \A b \in Bodies : b # << >> /\ b[1] \notin Blanks
ASSUME LimitsAssumption == Limits \subseteq Nat \ {0}

VARIABLES
    body, max_chars,   \* the arguments
    remaining, chunks,
    returned,
    starts             \* history: where in the body each chunk begins

vars == <<body, max_chars, remaining, chunks, returned, starts>>

\* Where in the body the remaining text begins.
Position == Len(body) - Len(remaining) + 1

------------------------------------------------------------------------------
(* Strings *)

\* Variant: the marker is not allowed for.
BudgetUnreserved(limit) == limit

Budget(limit) == IF limit <= Reserve THEN limit ELSE limit - Reserve

\* rfind: where the last occurrence of t in s starts.
LastOf(s, t) ==
    Max({0} \cup {i \in DOMAIN s : i + Len(t) - 1 <= Len(s)
                                   /\ SubSeq(s, i, i + Len(t) - 1) = t})

IsBlank(c) == c \in Blanks
NotBlank(c) == ~IsBlank(c)
RStrip(s) == SubSeq(s, 1, SelectLastInSeq(s, NotBlank))

\* Variant: nothing is stripped.
LStripNothing(s) == s

LStrip(s) ==
    LET first == SelectInSeq(s, NotBlank)
    IN  IF first = 0 THEN << >> ELSE SubSeq(s, first, Len(s))

Separators == {<<Newline, Newline>>, <<Newline>>, <<Stop, Space>>, <<Space>>}

\* Variant: no hard cut of text without separators.
CutSoftly(window) ==
    LET last == Max({LastOf(window, t) : t \in Separators})
    IN  IF last = 0 THEN 0 ELSE last - 1

\* Variant: spaces are no place to split.
CutInWords(window) ==
    LET last == Max({LastOf(window, t) : t \in Separators \ {<<Space>>}})
    IN  IF last <= 1 THEN Len(window) ELSE last - 1

\* How many characters of the window the next chunk takes.
Cut(window) ==
    LET last == Max({LastOf(window, t) : t \in Separators})
    IN  IF last <= 1 THEN Len(window) ELSE last - 1

------------------------------------------------------------------------------
(* The loop *)

Init ==
    /\ body \in Bodies /\ max_chars \in Limits
    /\ remaining = body /\ chunks = << >>
    /\ returned = FALSE /\ starts = << >>

ReturnWhole ==
    /\ ~returned /\ chunks = << >>
    /\ Len(body) <= Budget(max_chars)
    /\ chunks' = <<body>> /\ returned' = TRUE /\ starts' = <<1>>
    /\ UNCHANGED <<body, max_chars, remaining>>

CutChunk ==
    /\ ~returned
    /\ Len(remaining) > Budget(max_chars)
    /\ LET cut == Cut(SubSeq(remaining, 1, Budget(max_chars)))
       IN  /\ chunks' = Append(chunks, RStrip(SubSeq(remaining, 1, cut)))
           /\ remaining' = LStrip(SubSeq(remaining, cut + 1, Len(remaining)))
    /\ starts' = Append(starts, Position)
    /\ UNCHANGED <<body, max_chars, returned>>

\* Variant: what is left after the loop is forgotten.
ReturnChunksOnly ==
    /\ ~returned /\ chunks # << >>
    /\ Len(remaining) <= Budget(max_chars)
    /\ remaining' = << >> /\ returned' = TRUE
    /\ UNCHANGED <<body, max_chars, chunks, starts>>

ReturnChunks ==
    /\ ~returned /\ chunks # << >>
    /\ Len(remaining) <= Budget(max_chars)
    /\ IF remaining = << >>
       THEN UNCHANGED <<chunks, starts>>
       ELSE chunks' = Append(chunks, remaining) /\ starts' = Append(starts, Position)
    /\ remaining' = << >> /\ returned' = TRUE
    /\ UNCHANGED <<body, max_chars>>

Next ==
    \/ ReturnWhole \/ CutChunk \/ ReturnChunks
    \/ returned /\ UNCHANGED vars

Spec == Init /\ [][Next]_vars

------------------------------------------------------------------------------
(* _send_chunked *)

Powers == <<10, 100, 1000, 10000, 100000, 1000000>>

\* Decimal digits of n, which is less than a million.
Digits(n) ==
    CHOOSE d \in DOMAIN Powers : n < Powers[d] /\ \A k \in 1 .. d - 1 : n >= Powers[k]

\* The length of "(i/N) ", which a single chunk does without.
MarkerLength(i) ==
    IF Len(chunks) = 1 THEN 0 ELSE 4 + Digits(i) + Digits(Len(chunks))

------------------------------------------------------------------------------
(* Correctness *)

Splits(c) == c \in {Space, Newline}

\* This text is what the body has from position p on.
IsAt(text, p) ==
    /\ p + Len(text) - 1 <= Len(body)
    /\ \A k \in DOMAIN text : text[k] = body[p + k - 1]

\* The position after the i-th chunk.
After(i) == starts[i] + Len(chunks[i])

(* Twilio takes every message: with its marker it is no longer than the     *)
(* limit, as long as the limit is above the reserve.                        *)
MessagesFit ==
    returned /\ max_chars > Reserve =>
        \A i \in DOMAIN chunks : MarkerLength(i) + Len(chunks[i]) <= max_chars

(* However the loop has cut, stripped and dropped so far, the chunks are     *)
(* pieces of the body, in order and without overlap, and every printing      *)
(* character of the body is in one of them or in what remains.               *)
NothingLost ==
    /\ Len(starts) = Len(chunks) /\ IsAt(remaining, Position)
    /\ \A i \in DOMAIN chunks : IsAt(chunks[i], starts[i])
    /\ \A i, j \in DOMAIN chunks : i < j => After(i) <= starts[j]
    /\ \A k \in DOMAIN body :
          NotBlank(body[k]) =>
              \/ \E i \in DOMAIN chunks : k \in starts[i] .. After(i) - 1
              \/ ~returned /\ k >= Position

\* The i-th chunk begins with a word that is too long for it.
StartsTooLong(i) ==
    /\ starts[i] + Budget(max_chars) <= Len(body)
    /\ \A k \in starts[i] .. starts[i] + Budget(max_chars) : ~Splits(body[k])

\* A space or newline is between the i-th chunk and position p.
Spaced(i, p) == \E k \in After(i) .. p - 1 : Splits(body[k])

(* A word that fits a chunk is never broken in two, whatever words are      *)
(* around it: between two chunks the body has a space or newline, or the    *)
(* break is within a word too long for the chunk it begins.                 *)
WordsKept ==
    \A i \in 1 .. Len(chunks) - 1 : Spaced(i, starts[i + 1]) \/ StartsTooLong(i)

(* Twilio refuses an empty body, and the request with it: no chunk has      *)
(* nothing to show, and there is at least one.                              *)
NoEmptyChunk ==
    /\ returned => chunks # << >>
    /\ \A i \in DOMAIN chunks : \E k \in DOMAIN chunks[i] : NotBlank(chunks[i][k])

(* Whatever the text and the limit, each turn of the loop leaves less to    *)
(* do: it ends, and with it the stretch in which no other request runs.     *)
LoopShrinks == [][returned' \/ Len(remaining') < Len(remaining)]_vars

(* _chunk_message's docstring: "Preference order for split boundaries: 1.   *)
(* Double newline (paragraph break) 2. Single newline (line break)".        *)
ParagraphsFirst ==
    [][ Len(chunks') = Len(chunks) + 1 /\ ~returned' =>
          LET window == SubSeq(remaining, 1, Budget(max_chars))
              break == LastOf(window, <<Newline, Newline>>)
          IN  break > 1 => Last(chunks') = RStrip(SubSeq(window, 1, break - 1)) ]_vars
=============================================================================
