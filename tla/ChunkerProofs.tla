---------------------------- MODULE ChunkerProofs ----------------------------
(* The loop of _chunk_message makes progress, its chunks are short enough    *)
(* and never blank, and between them they keep the text and its words, for   *)
(* any bodies and any limits.                                                *)
EXTENDS Chunker, SequenceTheorems, WellFoundedInduction, NaturalsInduction, TLAPS

------------------------------------------------------------------------------
(* Sets of numbers and the functions on strings *)

LEMMA Least ==
    ASSUME NEW T, T \subseteq Nat, T # {}
    PROVE  Min(T) \in T /\ \A y \in T : Min(T) <= y
  <1>1. IsWellFoundedOn(OpToRel(<, Nat), Nat)
    BY NatLessThanWellFounded, Zenon
  <1>2. PICK x \in T : \A y \in T : <<y, x>> \notin OpToRel(<, Nat)
    BY <1>1, WFMin, Zenon
  <1>3. ASSUME NEW y \in T PROVE x <= y
    <2>1. x \in Nat /\ y \in Nat /\ <<y, x>> \in Nat \X Nat
      OBVIOUS
    <2>2. ~ y < x
      BY <1>2, <2>1 DEF OpToRel
    <2> QED BY <2>1, <2>2
  <1> QED BY <1>3 DEF Min

LEMMA Greatest ==
    ASSUME NEW n \in Nat, NEW T, T \subseteq 0 .. n, T # {}
    PROVE  Max(T) \in T /\ \A y \in T : Max(T) >= y
  <1> DEFINE D == {n - x : x \in T}
  <1>1. D \subseteq Nat /\ D # {}
    <2>1. \A x \in T : x \in 0 .. n /\ n - x \in Nat
      OBVIOUS
    <2> QED BY <2>1
  <1>2. PICK d \in D : \A y \in D : d <= y
    <2> HIDE DEF D
    <2> QED BY <1>1, Least
  <1>3. PICK x \in T : d = n - x
    BY <1>2
  <1>4. \A y \in T : x >= y
    <2> SUFFICES ASSUME NEW y \in T PROVE x >= y
      OBVIOUS
    <2>1. n - x <= n - y
      BY <1>2, <1>3
    <2>2. x \in 0 .. n /\ y \in 0 .. n
      OBVIOUS
    <2> HIDE DEF D
    <2> QED BY <2>1, <2>2
  <1> QED BY <1>4 DEF Max

(* Where the last occurrence of a separator starts.                         *)
LEMMA LastOfFacts ==
    ASSUME NEW w \in Seq(Chars), NEW t
    PROVE  /\ LastOf(w, t) \in 0 .. Len(w)
           /\ LastOf(w, t) # 0 =>
                LET i == LastOf(w, t)
                IN  i + Len(t) - 1 <= Len(w) /\ SubSeq(w, i, i + Len(t) - 1) = t
           /\ \A i \in 1 .. Len(w) :
                i + Len(t) - 1 <= Len(w) /\ SubSeq(w, i, i + Len(t) - 1) = t
                  => i <= LastOf(w, t)
  <1> DEFINE Occurs(i) == i + Len(t) - 1 <= Len(w) /\ SubSeq(w, i, i + Len(t) - 1) = t
             T == {0} \cup {i \in DOMAIN w : Occurs(i)}
  <1>1. Len(w) \in Nat /\ DOMAIN w = 1 .. Len(w)
    BY LenProperties
  <1>2. LastOf(w, t) = Max(T)
    BY DEF LastOf
  <1>3. T \subseteq 0 .. Len(w) /\ T # {}
    BY <1>1
  <1>4. Max(T) \in T /\ \A y \in T : Max(T) >= y
    <2> HIDE DEF T
    <2> QED BY <1>1, <1>3, Greatest
  <1>5. \A i \in 1 .. Len(w) : Occurs(i) => i <= Max(T)
    <2> HIDE DEF Occurs
    <2> SUFFICES ASSUME NEW i \in 1 .. Len(w), Occurs(i) PROVE i <= Max(T)
      OBVIOUS
    <2>1. i \in T /\ Max(T) \in 0 .. Len(w)
      BY <1>1, <1>3, <1>4
    <2>2. Max(T) >= i
      BY <1>4, <2>1
    <2> HIDE DEF T
    <2> QED BY <1>1, <2>1, <2>2
  <1>6. Max(T) # 0 => Occurs(Max(T))
    <2> HIDE DEF Occurs
    <2> QED BY <1>4
  <1>7. Max(T) \in 0 .. Len(w)
    BY <1>3, <1>4
  <1> QED BY <1>2, <1>5, <1>6, <1>7

(* The last occurrence of one character.                                    *)
LEMMA LastOfOne ==
    ASSUME NEW w \in Seq(Chars), NEW c
    PROVE  /\ LastOf(w, <<c>>) # 0 => w[LastOf(w, <<c>>)] = c
           /\ \A i \in 1 .. Len(w) : w[i] = c => i <= LastOf(w, <<c>>)
  <1>1. Len(w) \in Nat /\ \A i \in 1 .. Len(w) : w[i] \in Chars
    BY LenProperties, ElementOfSeq
  <1>2. Len(<<c>>) = 1
    OBVIOUS
  <1>3. ASSUME NEW i \in 1 .. Len(w)
        PROVE  i + Len(<<c>>) - 1 = i /\ (SubSeq(w, i, i) = <<c>> <=> w[i] = c)
    <2>1. i \in Int /\ \A k \in i .. i : w[k] \in Chars
      BY <1>1
    <2>2. Len(SubSeq(w, i, i)) = 1 /\ SubSeq(w, i, i) \in Seq(Chars)
      BY <2>1, SubSeqProperties
    <2>3. \A k \in 1 .. i - i + 1 : SubSeq(w, i, i)[k] = w[i + k - 1]
      BY <2>1, SubSeqProperties
    <2>4. SubSeq(w, i, i)[1] = w[i]
      BY <2>1, <2>3
    <2>5. SubSeq(w, i, i) = <<w[i]>>
      <3>1. w[i] \in Chars
        BY <1>1
      <3>2. <<w[i]>> \in Seq(Chars) /\ Len(<<w[i]>>) = 1 /\ <<w[i]>>[1] = w[i]
        BY <3>1
      <3>3. \A k \in 1 .. Len(SubSeq(w, i, i)) : SubSeq(w, i, i)[k] = <<w[i]>>[k]
        BY <2>2, <2>4, <3>2
      <3>4. Len(SubSeq(w, i, i)) = Len(<<w[i]>>)
        BY <2>2, <3>2
      <3> QED BY <2>2, <3>2, <3>3, <3>4, SeqEqual
    <2>6. <<w[i]>> = <<c>> <=> w[i] = c
      OBVIOUS
    <2> QED BY <1>2, <2>1, <2>5, <2>6
  <1> DEFINE l == LastOf(w, <<c>>)
  <1>4. l \in 0 .. Len(w)
    BY LastOfFacts
  <1>5. l # 0 => SubSeq(w, l, l + Len(<<c>>) - 1) = <<c>>
    BY LastOfFacts
  <1>6. \A i \in 1 .. Len(w) :
          i + Len(<<c>>) - 1 <= Len(w) /\ SubSeq(w, i, i + Len(<<c>>) - 1) = <<c>> => i <= l
    BY LastOfFacts
  <1> HIDE DEF l
  <1>7. l # 0 => w[l] = c
    BY <1>1, <1>3, <1>4, <1>5
  <1>8. ASSUME NEW i \in 1 .. Len(w), w[i] = c PROVE i <= l
    <2>1. i + Len(<<c>>) - 1 = i /\ SubSeq(w, i, i) = <<c>> /\ i <= Len(w)
      BY <1>1, <1>3, <1>8
    <2> QED BY <1>6, <2>1
  <1> QED BY <1>7, <1>8 DEF l

(* A cut takes at least one character and no more than the window has, and  *)
(* it is either before a space or newline or there was none to cut at.      *)
LEMMA CutFacts ==
    ASSUME NEW w \in Seq(Chars), w # << >>, NotBlank(w[1])
    PROVE  /\ Cut(w) \in 1 .. Len(w)
           /\ \/ Cut(w) < Len(w) /\ Splits(w[Cut(w) + 1])
              \/ Cut(w) = Len(w) /\ \A i \in 1 .. Len(w) : ~Splits(w[i])
  <1> DEFINE L == {LastOf(w, t) : t \in Separators}
             last == Max(L)
             space == LastOf(w, <<Space>>)
             newline == LastOf(w, <<Newline>>)
  <1>1. Len(w) \in Nat /\ Len(w) >= 1 /\ \A i \in 1 .. Len(w) : w[i] \in Chars
    BY EmptySeq, LenProperties, ElementOfSeq
  <1>2. last \in L /\ last \in 0 .. Len(w) /\ space <= last /\ newline <= last
    <2>1. L \subseteq 0 .. Len(w) /\ L # {} /\ space \in L /\ newline \in L
      BY LastOfFacts DEF Separators
    <2>2. last \in L /\ \A y \in L : last >= y
      <3> HIDE DEF L
      <3> QED BY <1>1, <2>1, Greatest
    <2>3. last >= space /\ last >= newline
      BY <2>1, <2>2
    <2>4. last \in 0 .. Len(w) /\ space \in 0 .. Len(w) /\ newline \in 0 .. Len(w)
      BY <2>1, <2>2
    <2> HIDE DEF last, space, newline, L
    <2> QED BY <1>1, <2>2, <2>3, <2>4
  <1>3. last # 0 => Splits(w[last])
    <2> SUFFICES ASSUME last # 0 PROVE Splits(w[last])
      OBVIOUS
    <2>1. PICK t \in Separators : last = LastOf(w, t)
      BY <1>2
    <2>2. CASE t \in {<<Space>>, <<Newline>>}
      BY <2>1, <2>2, LastOfOne DEF Splits
    <2>3. CASE Len(t) = 2 /\ t[1] \in {Newline, Stop} /\ t[2] \in {Newline, Space}
      <3>1. last + 1 <= Len(w) /\ SubSeq(w, last, last + 1) = t
        <4>1. last + Len(t) - 1 <= Len(w) /\ SubSeq(w, last, last + Len(t) - 1) = t
          BY <2>1, LastOfFacts
        <4>2. last + Len(t) - 1 = last + 1
          <5> HIDE DEF last
          <5> QED BY <1>1, <1>2, <2>3
        <4> QED BY <4>1, <4>2
      <3> HIDE DEF last, space, newline
      <3>2. w[last + 1] = t[2]
        <4>1. last \in Int /\ last + 1 \in Int /\ \A i \in last .. last + 1 : w[i] \in Chars
          BY <1>1, <1>2, <3>1
        <4>2. \A i \in 1 .. last + 1 - last + 1 : SubSeq(w, last, last + 1)[i] = w[last + i - 1]
          BY <4>1, SubSeqProperties
        <4>3. 2 \in 1 .. last + 1 - last + 1 /\ last + 2 - 1 = last + 1
          BY <1>2
        <4> QED BY <3>1, <4>2, <4>3
      <3>3. last + 1 \in 1 .. Len(w) /\ last + 1 > space /\ last + 1 > newline
        <4>1. space \in 0 .. Len(w) /\ newline \in 0 .. Len(w)
          BY LastOfFacts DEF space, newline
        <4> QED BY <1>1, <1>2, <3>1, <4>1
      <3>4. w[last + 1] # Space /\ w[last + 1] # Newline
        <4>1. \A i \in 1 .. Len(w) : w[i] = Space => i <= space
          BY LastOfOne DEF space
        <4>2. \A i \in 1 .. Len(w) : w[i] = Newline => i <= newline
          BY LastOfOne DEF newline
        <4>3. space \in 0 .. Len(w) /\ newline \in 0 .. Len(w)
          BY LastOfFacts DEF space, newline
        <4> QED BY <1>2, <3>3, <4>1, <4>2, <4>3
      <3> QED BY <2>3, <3>2, <3>4
    <2>4. /\ t \in {<<Newline, Newline>>, <<Newline>>, <<Stop, Space>>, <<Space>>}
          /\ Len(<<Newline, Newline>>) = 2 /\ Len(<<Stop, Space>>) = 2
      BY <2>1 DEF Separators
    <2> QED BY <2>2, <2>3, <2>4
  <1>4. last # 1
    BY <1>3 DEF Splits, NotBlank, IsBlank, Blanks
  <1>5. last = 0 => \A i \in 1 .. Len(w) : ~Splits(w[i])
    <2> SUFFICES ASSUME last = 0, NEW i \in 1 .. Len(w), Splits(w[i]) PROVE FALSE
      OBVIOUS
    <2>1. w[i] = Space => i <= space
      BY LastOfOne
    <2>2. w[i] = Newline => i <= newline
      BY LastOfOne
    <2>3. space \in 0 .. Len(w) /\ newline \in 0 .. Len(w)
      BY LastOfFacts
    <2> HIDE DEF last, space, newline
    <2> QED BY <1>1, <1>2, <2>1, <2>2, <2>3 DEF Splits
  <1>6. Cut(w) = IF last <= 1 THEN Len(w) ELSE last - 1
    BY DEF Cut
  <1> HIDE DEF last
  <1>7. CASE last = 0
    BY <1>1, <1>5, <1>6, <1>7
  <1>8. CASE last # 0
    <2>1. Cut(w) = last - 1 /\ Cut(w) \in 1 .. Len(w) /\ Cut(w) < Len(w)
      BY <1>1, <1>2, <1>4, <1>6, <1>8
    <2>2. Cut(w) + 1 = last
      BY <1>2, <2>1
    <2> QED BY <1>3, <1>8, <2>1, <2>2
  <1> QED BY <1>7, <1>8

(* What lstrip removes is blank, and it keeps all the rest.                 *)
LEMMA LStripFacts ==
    ASSUME NEW s \in Seq(Chars)
    PROVE  /\ LStrip(s) \in Seq(Chars)
           /\ LStrip(s) # << >> => NotBlank(LStrip(s)[1])
           /\ \E k \in 0 .. Len(s) :
                /\ Len(LStrip(s)) = Len(s) - k
                /\ \A i \in 1 .. k : IsBlank(s[i])
                /\ \A i \in 1 .. Len(s) - k : LStrip(s)[i] = s[k + i]
  <1> DEFINE I == {i \in 1 .. Len(s) : NotBlank(s[i])}
             first == SelectInSeq(s, NotBlank)
  <1>1. Len(s) \in Nat /\ \A i \in 1 .. Len(s) : s[i] \in Chars
    BY LenProperties, ElementOfSeq
  <1>2. first = IF I # {} THEN Min(I) ELSE 0
    BY DEF SelectInSeq
  <1>3. LStrip(s) = IF first = 0 THEN << >> ELSE SubSeq(s, first, Len(s))
    BY DEF LStrip
  <1> HIDE DEF first
  <1>4. CASE I = {}
    <2>1. LStrip(s) = << >> /\ Len(LStrip(s)) = Len(s) - Len(s)
      BY <1>1, <1>2, <1>3, <1>4, EmptySeq
    <2>2. \A i \in 1 .. Len(s) : IsBlank(s[i])
      BY <1>4 DEF NotBlank
    <2>3. Len(s) \in 0 .. Len(s) /\ 1 .. Len(s) - Len(s) = {}
      BY <1>1
    <2> QED BY <2>1, <2>2, <2>3, EmptySeq
  <1>5. CASE I # {}
    <2>1. first \in I /\ \A y \in I : first <= y
      <3>1. I \subseteq Nat
        OBVIOUS
      <3> HIDE DEF I
      <3> QED BY <1>2, <1>5, <3>1, Least
    <2>2. first \in 1 .. Len(s) /\ NotBlank(s[first])
      BY <2>1
    <2>3. LStrip(s) = SubSeq(s, first, Len(s))
      BY <1>3, <2>2
    <2>4. /\ LStrip(s) \in Seq(Chars)
          /\ Len(LStrip(s)) = Len(s) - first + 1
          /\ \A i \in 1 .. Len(s) - first + 1 : LStrip(s)[i] = s[first + i - 1]
      <3>1. first \in Int /\ Len(s) \in Int /\ \A i \in first .. Len(s) : s[i] \in Chars
        BY <1>1, <2>2
      <3> QED BY <2>2, <2>3, <3>1, SubSeqProperties
    <2>5. LStrip(s)[1] = s[first]
      <3>1. 1 \in 1 .. Len(s) - first + 1 /\ first + 1 - 1 = first
        BY <1>1, <2>2
      <3> QED BY <2>4, <3>1
    <2>6. \A i \in 1 .. first - 1 : IsBlank(s[i])
      <3> SUFFICES ASSUME NEW i \in 1 .. first - 1 PROVE IsBlank(s[i])
        OBVIOUS
      <3>1. i \in 1 .. Len(s) /\ ~(first <= i)
        BY <1>1, <2>2
      <3> QED BY <2>1, <3>1 DEF NotBlank
    <2>7. /\ first - 1 \in 0 .. Len(s) /\ Len(s) - first + 1 = Len(s) - (first - 1)
          /\ \A i \in 1 .. Len(s) - (first - 1) : first + i - 1 = first - 1 + i
      BY <1>1, <2>2
    <2>8. \A i \in 1 .. Len(s) - (first - 1) : LStrip(s)[i] = s[first - 1 + i]
      BY <2>4, <2>7
    <2> QED BY <2>2, <2>4, <2>5, <2>6, <2>7, <2>8
  <1> QED BY <1>4, <1>5

(* What rstrip removes of a text that starts with something to show is      *)
(* blank, and it keeps all before it.                                       *)
LEMMA RStripFacts ==
    ASSUME NEW s \in Seq(Chars), s # << >>, NotBlank(s[1])
    PROVE  /\ RStrip(s) \in Seq(Chars) /\ Len(RStrip(s)) \in 1 .. Len(s)
           /\ \A i \in 1 .. Len(RStrip(s)) : RStrip(s)[i] = s[i]
           /\ \A i \in Len(RStrip(s)) + 1 .. Len(s) : IsBlank(s[i])
  <1> DEFINE I == {i \in 1 .. Len(s) : NotBlank(s[i])}
             last == SelectLastInSeq(s, NotBlank)
  <1>1. /\ Len(s) \in Nat /\ Len(s) >= 1
        /\ \A i \in 1 .. Len(s) : s[i] \in Chars
    BY EmptySeq, LenProperties, ElementOfSeq
  <1>2. 1 \in I
    BY <1>1
  <1>3. last = IF I # {} THEN Max(I) ELSE 0
    BY DEF SelectLastInSeq
  <1>4. RStrip(s) = SubSeq(s, 1, last)
    BY DEF RStrip
  <1>5. last \in 1 .. Len(s) /\ \A i \in I : last >= i
    <2>1. I \subseteq 0 .. Len(s) /\ I \subseteq 1 .. Len(s)
      OBVIOUS
    <2> HIDE DEF I, last
    <2> QED BY <1>1, <1>2, <1>3, <2>1, Greatest
  <1> HIDE DEF last
  <1>6. /\ SubSeq(s, 1, last) \in Seq(Chars)
        /\ Len(SubSeq(s, 1, last)) = last
        /\ \A i \in 1 .. last : SubSeq(s, 1, last)[i] = s[i]
    <2>1. last \in Int /\ 1 \in Int /\ \A i \in 1 .. last : s[i] \in Chars
      BY <1>1, <1>5
    <2>2. /\ SubSeq(s, 1, last) \in Seq(Chars)
          /\ Len(SubSeq(s, 1, last)) = IF 1 <= last THEN last - 1 + 1 ELSE 0
          /\ \A i \in 1 .. last - 1 + 1 : SubSeq(s, 1, last)[i] = s[1 + i - 1]
      BY <2>1, SubSeqProperties
    <2>3. last - 1 + 1 = last /\ \A i \in 1 .. last : 1 + i - 1 = i
      BY <1>5
    <2> QED BY <1>5, <2>2, <2>3
  <1>7. \A i \in last + 1 .. Len(s) : IsBlank(s[i])
    <2> SUFFICES ASSUME NEW i \in last + 1 .. Len(s) PROVE IsBlank(s[i])
      OBVIOUS
    <2>1. i \in 1 .. Len(s) /\ ~(last >= i)
      BY <1>1, <1>5
    <2> QED BY <1>5, <2>1 DEF NotBlank
  <1> QED BY <1>4, <1>5, <1>6, <1>7

------------------------------------------------------------------------------
(* The inductive invariant *)

\* What may be sent: not too long, and it starts with something to show.
Sendable(chunk) ==
    /\ chunk \in Seq(Chars) /\ Len(chunk) \in 1 .. Budget(max_chars)
    /\ NotBlank(chunk[1])

ChunkerInv ==
    /\ body \in Bodies /\ max_chars \in Limits /\ returned \in BOOLEAN
    /\ remaining \in Seq(Chars)
    /\ remaining # << >> => NotBlank(remaining[1])
    /\ chunks \in Seq(Seq(Chars))
    /\ \A i \in DOMAIN chunks : Sendable(chunks[i])
    /\ IF returned THEN Len(chunks) \in 1 .. Len(body)
       ELSE Len(chunks) + Len(remaining) <= Len(body)

LEMMA Arguments ==
    ASSUME body \in Bodies, max_chars \in Limits
    PROVE  /\ body \in Seq(Chars) /\ Len(body) \in Nat \ {0} /\ NotBlank(body[1])
           /\ max_chars \in Nat \ {0} /\ Budget(max_chars) \in Nat \ {0}
           /\ max_chars > Reserve => Budget(max_chars) = max_chars - Reserve
  <1>1. body \in Seq(Chars) /\ body # << >> /\ NotBlank(body[1])
    BY BodiesAssumption DEF NotBlank, IsBlank
  <1>2. Len(body) \in Nat \ {0}
    BY <1>1, EmptySeq, LenProperties
  <1>3. max_chars \in Nat \ {0}
    BY LimitsAssumption
  <1> QED BY <1>1, <1>2, <1>3 DEF Budget, Reserve

(* A list of sendable chunks takes one more.                                *)
LEMMA Appended ==
    ASSUME chunks \in Seq(Seq(Chars)), \A i \in DOMAIN chunks : Sendable(chunks[i]),
           NEW chunk, Sendable(chunk), chunks' = Append(chunks, chunk),
           UNCHANGED max_chars
    PROVE  /\ chunks' \in Seq(Seq(Chars)) /\ Len(chunks') = Len(chunks) + 1
           /\ \A i \in DOMAIN chunks' : Sendable(chunks[i])'
  <1>1. chunk \in Seq(Chars)
    BY DEF Sendable
  <1>2. /\ chunks' \in Seq(Seq(Chars)) /\ Len(chunks') = Len(chunks) + 1
        /\ \A i \in 1 .. Len(chunks) : chunks'[i] = chunks[i]
        /\ chunks'[Len(chunks) + 1] = chunk
    BY <1>1, AppendProperties
  <1>3. /\ DOMAIN chunks = 1 .. Len(chunks) /\ Len(chunks) \in Nat
        /\ DOMAIN chunks' = 1 .. Len(chunks) + 1
    BY <1>2, LenProperties
  <1>4. ASSUME NEW i \in DOMAIN chunks' PROVE Sendable(chunks[i])'
    <2>1. CASE i = Len(chunks) + 1
      BY <1>2, <2>1 DEF Sendable
    <2>2. CASE i # Len(chunks) + 1
      <3>1. i \in DOMAIN chunks /\ chunks'[i] = chunks[i]
        BY <1>2, <1>3, <2>2
      <3> QED BY <3>1 DEF Sendable
    <2> QED BY <2>1, <2>2
  <1> QED BY <1>2, <1>4

(* One turn of the loop, seen from the body: a chunk is appended, what      *)
(* remains starts later, and what is between the two is blank; some of it   *)
(* is a place to split, unless the text begins with a word too long.        *)
Turn(chunk, p, q) ==
    /\ chunks' = Append(chunks, chunk) /\ starts' = Append(starts, p)
    /\ Sendable(chunk) /\ p + Len(chunk) <= q
    /\ \A i \in 1 .. Len(chunk) : chunk[i] = remaining[i]
    /\ \A i \in Len(chunk) + 1 .. q - p : IsBlank(remaining[i])
    /\ \/ \E i \in Len(chunk) + 1 .. q - p : Splits(remaining[i])
       \/ /\ Budget(max_chars) < Len(remaining)
          /\ \A j \in 1 .. Budget(max_chars) + 1 : ~Splits(remaining[j])
    /\ remaining' \in Seq(Chars) /\ Len(remaining') = Len(remaining) - (q - p)
    /\ remaining' # << >> => NotBlank(remaining'[1])
    /\ \A i \in 1 .. Len(remaining') : remaining'[i] = remaining[q - p + i]

LEMMA CutIsTurn ==
    ASSUME ChunkerInv, CutChunk
    PROVE  \E q \in Position .. Len(body) + 1, chunk \in Seq(Chars) : Turn(chunk, Position, q)
  <1> DEFINE p == Position
             b == Budget(max_chars)
             window == SubSeq(remaining, 1, b)
             cut == Cut(window)
             head == SubSeq(remaining, 1, cut)
             rest == SubSeq(remaining, cut + 1, Len(remaining))
             chunk == RStrip(head)
  <1>1. /\ chunks' = Append(chunks, chunk) /\ remaining' = LStrip(rest)
        /\ starts' = Append(starts, p) /\ Len(remaining) > b
    BY DEF CutChunk
  <1>2. /\ b \in Nat \ {0} /\ Len(remaining) \in Nat
        /\ \A i \in 1 .. Len(remaining) : remaining[i] \in Chars
        /\ remaining # << >> /\ NotBlank(remaining[1]) /\ remaining \in Seq(Chars)
    <2>1. b \in Nat \ {0} /\ remaining \in Seq(Chars)
      BY Arguments DEF ChunkerInv
    <2>2. /\ Len(remaining) \in Nat
          /\ \A i \in 1 .. Len(remaining) : remaining[i] \in Chars
      BY <2>1, LenProperties, ElementOfSeq
    <2>3. remaining # << >>
      BY <1>1, <2>1, <2>2, EmptySeq
    <2> QED BY <2>1, <2>2, <2>3 DEF ChunkerInv
  <1>3. /\ Len(body) \in Nat /\ p = Len(body) - Len(remaining) + 1
        /\ Len(remaining) <= Len(body)
    <2>1. Len(body) \in Nat /\ Len(chunks) \in Nat
      BY LenProperties, Arguments DEF ChunkerInv
    <2>2. Len(chunks) + Len(remaining) <= Len(body)
      BY DEF ChunkerInv, CutChunk
    <2> QED BY <1>2, <2>1, <2>2 DEF Position
  <1> HIDE DEF b, p
  <1>4. /\ window \in Seq(Chars) /\ Len(window) = b /\ window # << >>
        /\ \A i \in 1 .. b : window[i] = remaining[i]
    <2>1. 1 \in Int /\ b \in Int /\ 1 <= b /\ \A i \in 1 .. b : remaining[i] \in Chars
      BY <1>1, <1>2
    <2>2. window \in Seq(Chars) /\ Len(window) = b
      BY <2>1, SubSeqProperties
    <2>3. \A i \in 1 .. b - 1 + 1 : window[i] = remaining[1 + i - 1]
      BY <2>1, SubSeqProperties
    <2>4. b - 1 + 1 = b /\ \A i \in 1 .. b : 1 + i - 1 = i
      BY <2>1
    <2>5. window # << >>
      BY <1>2, <2>2, EmptySeq
    <2> HIDE DEF window
    <2> QED BY <2>2, <2>3, <2>4, <2>5
  <1> HIDE DEF window
  <1>5. /\ cut \in 1 .. b
        /\ \/ cut < b /\ Splits(remaining[cut + 1])
           \/ cut = b /\ \A i \in 1 .. b : ~Splits(remaining[i])
    <2>1. window[1] = remaining[1]
      BY <1>2, <1>4
    <2>2. /\ cut \in 1 .. b
          /\ \/ cut < b /\ Splits(window[cut + 1])
             \/ cut = b /\ \A i \in 1 .. b : ~Splits(window[i])
      BY <1>2, <1>4, <2>1, CutFacts
    <2>3. cut < b => cut + 1 \in 1 .. b
      BY <1>2, <2>2
    <2> HIDE DEF cut
    <2> QED BY <1>4, <2>2, <2>3
  <1> HIDE DEF cut
  <1>6. /\ head \in Seq(Chars) /\ Len(head) = cut /\ head # << >>
        /\ \A i \in 1 .. cut : head[i] = remaining[i]
    <2>1. 1 \in Int /\ cut \in Int /\ 1 <= cut
          /\ \A i \in 1 .. cut : remaining[i] \in Chars
      BY <1>1, <1>2, <1>5
    <2>2. \A i \in 1 .. cut - 1 + 1 : head[i] = remaining[1 + i - 1]
      BY <2>1, SubSeqProperties
    <2>3. cut - 1 + 1 = cut /\ \A i \in 1 .. cut : 1 + i - 1 = i
      BY <2>1
    <2>4. head \in Seq(Chars) /\ Len(head) = cut
      BY <2>1, SubSeqProperties
    <2> HIDE DEF head
    <2>5. head # << >>
      BY <2>1, <2>4, EmptySeq
    <2> QED BY <2>2, <2>3, <2>4, <2>5
  <1>7. /\ rest \in Seq(Chars) /\ Len(rest) = Len(remaining) - cut
        /\ \A i \in 1 .. Len(remaining) - cut : rest[i] = remaining[cut + i]
    <2>1. cut + 1 \in Int /\ Len(remaining) \in Int /\ cut + 1 <= Len(remaining)
          /\ \A i \in cut + 1 .. Len(remaining) : remaining[i] \in Chars
      BY <1>1, <1>2, <1>5
    <2>2. /\ rest \in Seq(Chars) /\ Len(rest) = Len(remaining) - (cut + 1) + 1
          /\ \A i \in 1 .. Len(remaining) - (cut + 1) + 1 : rest[i] = remaining[cut + 1 + i - 1]
      BY <2>1, SubSeqProperties
    <2>3. /\ Len(remaining) - (cut + 1) + 1 = Len(remaining) - cut
          /\ \A i \in 1 .. Len(remaining) - cut : cut + 1 + i - 1 = cut + i
      BY <1>2, <1>5
    <2> HIDE DEF rest
    <2> QED BY <2>2, <2>3
  <1> HIDE DEF head, rest
  <1>8. /\ Sendable(chunk) /\ Len(chunk) \in 1 .. cut /\ chunk \in Seq(Chars)
        /\ \A i \in 1 .. Len(chunk) : chunk[i] = remaining[i]
        /\ \A i \in Len(chunk) + 1 .. cut : IsBlank(remaining[i])
    <2>1. NotBlank(head[1])
      BY <1>2, <1>5, <1>6
    <2>2. /\ chunk \in Seq(Chars) /\ Len(chunk) \in 1 .. cut
          /\ \A i \in 1 .. Len(chunk) : chunk[i] = head[i]
          /\ \A i \in Len(chunk) + 1 .. cut : IsBlank(head[i])
      BY <1>6, <2>1, RStripFacts
    <2> HIDE DEF chunk
    <2>3. /\ \A i \in 1 .. Len(chunk) : chunk[i] = remaining[i]
          /\ \A i \in Len(chunk) + 1 .. cut : IsBlank(remaining[i])
      BY <1>5, <1>6, <2>2
    <2>4. Len(chunk) \in 1 .. b /\ chunk[1] = remaining[1]
      BY <1>2, <1>5, <2>2, <2>3
    <2>5. Sendable(chunk)
      BY <1>2, <2>2, <2>4 DEF Sendable, b
    <2> QED BY <2>2, <2>3, <2>5
  <1> HIDE DEF chunk
  <1>9. PICK k \in 0 .. Len(remaining) - cut :
          /\ Len(remaining') = Len(remaining) - cut - k
          /\ \A i \in 1 .. k : IsBlank(remaining[cut + i])
          /\ \A i \in 1 .. Len(remaining) - cut - k : remaining'[i] = remaining[cut + k + i]
    <2>1. PICK k \in 0 .. Len(rest) :
            /\ Len(LStrip(rest)) = Len(rest) - k
            /\ \A i \in 1 .. k : IsBlank(rest[i])
            /\ \A i \in 1 .. Len(rest) - k : LStrip(rest)[i] = rest[k + i]
      BY <1>7, LStripFacts
    <2>2. \A i \in 1 .. k : i \in 1 .. Len(remaining) - cut
      BY <1>2, <1>5, <1>7, <2>1
    <2>3. \A i \in 1 .. Len(remaining) - cut - k :
            k + i \in 1 .. Len(remaining) - cut /\ cut + (k + i) = cut + k + i
      BY <1>2, <1>5, <1>7, <2>1
    <2>4. k \in 0 .. Len(remaining) - cut /\ Len(remaining') = Len(remaining) - cut - k
      BY <1>1, <1>7, <2>1
    <2>5. \A i \in 1 .. k : IsBlank(remaining[cut + i])
      BY <1>7, <2>1, <2>2
    <2>6. \A i \in 1 .. Len(remaining) - cut - k : remaining'[i] = remaining[cut + k + i]
      <3>1. \A i \in 1 .. Len(remaining) - cut - k : remaining'[i] = rest[k + i]
        BY <1>1, <1>7, <2>1
      <3> QED BY <1>7, <2>3, <3>1
    <2> QED BY <2>4, <2>5, <2>6
  <1>10. /\ remaining' \in Seq(Chars)
         /\ remaining' # << >> => NotBlank(remaining'[1])
    BY <1>1, <1>7, LStripFacts
  <1> DEFINE q == p + cut + k
  <1>11. /\ q \in p .. Len(body) + 1 /\ q - p = cut + k /\ p + Len(chunk) <= q
         /\ Len(remaining') = Len(remaining) - (q - p)
    BY <1>1, <1>2, <1>3, <1>5, <1>8, <1>9
  <1>12. \A i \in Len(chunk) + 1 .. q - p : IsBlank(remaining[i])
    <2> SUFFICES ASSUME NEW i \in Len(chunk) + 1 .. cut + k PROVE IsBlank(remaining[i])
      BY <1>11
    <2>1. CASE i <= cut
      BY <1>5, <1>8, <2>1
    <2>2. CASE i > cut
      <3>1. i - cut \in 1 .. k /\ cut + (i - cut) = i
        BY <1>5, <1>8, <1>9, <2>2
      <3> QED BY <1>9, <3>1
    <2> QED BY <1>5, <1>8, <2>1, <2>2
  <1>13. \A i \in 1 .. Len(remaining') : remaining'[i] = remaining[q - p + i]
    BY <1>9, <1>11
  <1>14. \/ \E i \in Len(chunk) + 1 .. q - p : Splits(remaining[i])
         \/ b < Len(remaining) /\ \A j \in 1 .. b + 1 : ~Splits(remaining[j])
    <2>1. Len(remaining) - cut >= 1 /\ cut + 1 \in 1 .. Len(remaining)
      BY <1>1, <1>2, <1>5
    <2>2. CASE Splits(remaining[cut + 1])
      <3>1. k # 0
        <4> SUFFICES ASSUME k = 0 PROVE FALSE
          OBVIOUS
        <4>1. Len(remaining') = Len(remaining) - cut
          BY <1>2, <1>5, <1>9
        <4>2. remaining'[1] = remaining[cut + 1]
          <5>1. 1 \in 1 .. Len(remaining) - cut - k /\ cut + k + 1 = cut + 1
            BY <1>2, <1>5, <1>9, <2>1
          <5> QED BY <1>9, <5>1
        <4>3. remaining' # << >>
          BY <2>1, <4>1, EmptySeq
        <4> QED BY <1>10, <2>2, <4>2, <4>3 DEF Splits, NotBlank, IsBlank, Blanks
      <3>2. cut + 1 \in Len(chunk) + 1 .. q - p
        BY <1>5, <1>8, <1>9, <1>11, <3>1
      <3> QED BY <2>2, <3>2
    <2>3. CASE ~Splits(remaining[cut + 1])
      <3>1. cut = b /\ \A i \in 1 .. b : ~Splits(remaining[i])
        BY <1>5, <2>3
      <3>2. \A j \in 1 .. b + 1 : ~Splits(remaining[j])
        <4> SUFFICES ASSUME NEW j \in 1 .. b + 1 PROVE ~Splits(remaining[j])
          OBVIOUS
        <4>1. j = cut + 1 \/ j \in 1 .. b
          BY <1>2, <3>1
        <4> QED BY <2>3, <3>1, <4>1
      <3> QED BY <1>1, <1>2, <3>2
    <2> QED BY <2>2, <2>3
  <1>15. Turn(chunk, p, q)
    <2> HIDE DEF q
    <2> QED BY <1>1, <1>8, <1>10, <1>11, <1>12, <1>13, <1>14 DEF Turn, b
  <1> QED BY <1>8, <1>11, <1>15 DEF p

(* One turn of the loop: a sendable chunk more, and less to do.             *)
LEMMA CutStep ==
    ASSUME ChunkerInv, CutChunk
    PROVE  ChunkerInv' /\ Len(remaining') < Len(remaining)
  <1>1. ~returned /\ UNCHANGED <<body, max_chars, returned>>
    BY DEF CutChunk
  <1>2. PICK q \in Position .. Len(body) + 1, chunk \in Seq(Chars) : Turn(chunk, Position, q)
    BY CutIsTurn
  <1> DEFINE p == Position
  <1>3. /\ Len(remaining) \in Nat /\ Len(chunks) \in Nat /\ Len(body) \in Nat
        /\ p \in Int /\ Len(chunks) + Len(remaining) <= Len(body)
    BY <1>1, LenProperties, Arguments DEF ChunkerInv, Position
  <1> HIDE DEF p
  <1>4. /\ chunks' = Append(chunks, chunk) /\ Sendable(chunk) /\ p + Len(chunk) <= q
        /\ remaining' \in Seq(Chars) /\ Len(remaining') = Len(remaining) - (q - p)
        /\ remaining' # << >> => NotBlank(remaining'[1])
    BY <1>2 DEF Turn, p
  <1>5. Len(chunk) \in Nat \ {0} /\ Len(remaining') \in Nat
    BY <1>4, LenProperties, Arguments DEF Sendable, ChunkerInv
  <1>6. Len(remaining') < Len(remaining)
    BY <1>2, <1>3, <1>4, <1>5
  <1>7. /\ chunks' \in Seq(Seq(Chars)) /\ Len(chunks') = Len(chunks) + 1
        /\ \A i \in DOMAIN chunks' : Sendable(chunks[i])'
    BY <1>1, <1>4, Appended DEF ChunkerInv
  <1>8. Len(chunks') + Len(remaining') <= Len(body')
    BY <1>1, <1>3, <1>5, <1>6, <1>7
  <1> QED BY <1>1, <1>4, <1>6, <1>7, <1>8 DEF ChunkerInv

LEMMA ReturnWholeStep == ASSUME ChunkerInv, ReturnWhole PROVE ChunkerInv'
  <1>1. /\ chunks' = Append(chunks, body) /\ chunks = << >> /\ returned'
        /\ UNCHANGED <<body, max_chars, remaining>>
        /\ Len(body) <= Budget(max_chars)
    BY DEF ReturnWhole
  <1>2. Sendable(body) /\ Len(body) \in Nat \ {0}
    BY <1>1, Arguments DEF ChunkerInv, Sendable
  <1>3. /\ chunks' \in Seq(Seq(Chars)) /\ Len(chunks') = Len(chunks) + 1
        /\ \A i \in DOMAIN chunks' : Sendable(chunks[i])'
    BY <1>1, <1>2, Appended DEF ChunkerInv
  <1>4. Len(chunks') \in 1 .. Len(body)
    BY <1>1, <1>2, <1>3
  <1>5. returned' = TRUE
    BY DEF ReturnWhole
  <1> QED BY <1>1, <1>3, <1>4, <1>5 DEF ChunkerInv

LEMMA ReturnChunksStep == ASSUME ChunkerInv, ReturnChunks PROVE ChunkerInv'
  <1>1. /\ ~returned /\ returned' = TRUE /\ remaining' = << >> /\ chunks # << >>
        /\ UNCHANGED <<body, max_chars>> /\ Len(remaining) <= Budget(max_chars)
    BY DEF ReturnChunks
  <1>2. /\ Len(chunks) \in Nat \ {0} /\ Len(remaining) \in Nat /\ Len(body) \in Nat
        /\ Len(chunks) + Len(remaining) <= Len(body)
        /\ Budget(max_chars) \in Nat \ {0}
    BY <1>1, EmptySeq, LenProperties, Arguments DEF ChunkerInv
  <1>3. /\ chunks' \in Seq(Seq(Chars)) /\ Len(chunks') \in 1 .. Len(body)
        /\ \A i \in DOMAIN chunks' : Sendable(chunks[i])'
    <2>1. CASE remaining = << >>
      <3>1. UNCHANGED chunks
        BY <2>1 DEF ReturnChunks
      <3> QED BY <1>1, <1>2, <3>1 DEF ChunkerInv, Sendable
    <2>2. CASE remaining # << >>
      <3>1. Len(remaining) # 0
        BY <2>2, EmptySeq DEF ChunkerInv
      <3>2. Sendable(remaining)
        BY <1>1, <1>2, <2>2, <3>1 DEF ChunkerInv, Sendable
      <3>3. chunks' = Append(chunks, remaining)
        BY <2>2 DEF ReturnChunks
      <3>4. /\ chunks' \in Seq(Seq(Chars)) /\ Len(chunks') = Len(chunks) + 1
            /\ \A i \in DOMAIN chunks' : Sendable(chunks[i])'
        BY <1>1, <3>2, <3>3, Appended DEF ChunkerInv
      <3> QED BY <1>2, <3>1, <3>4
    <2> QED BY <2>1, <2>2
  <1> QED BY <1>1, <1>3 DEF ChunkerInv

LEMMA ChunkerInvariant == Spec => []ChunkerInv
  <1>1. Init => ChunkerInv
    <2> SUFFICES ASSUME Init PROVE ChunkerInv
      OBVIOUS
    <2>1. /\ body \in Bodies /\ max_chars \in Limits /\ remaining = body
          /\ chunks = << >> /\ returned = FALSE
      BY DEF Init
    <2>2. chunks \in Seq(Seq(Chars)) /\ Len(chunks) = 0 /\ DOMAIN chunks = {}
      BY <2>1, EmptySeq
    <2>3. /\ remaining \in Seq(Chars) /\ NotBlank(remaining[1])
          /\ Len(remaining) = Len(body) /\ Len(body) \in Nat
      BY <2>1, Arguments
    <2>4. Len(chunks) + Len(remaining) <= Len(body)
      BY <2>2, <2>3
    <2>5. \A i \in DOMAIN chunks : Sendable(chunks[i])
      BY <2>2
    <2> QED BY <2>1, <2>2, <2>3, <2>4, <2>5 DEF ChunkerInv
  <1>2. ChunkerInv /\ [Next]_vars => ChunkerInv'
    <2>1. ASSUME ChunkerInv, UNCHANGED vars PROVE ChunkerInv'
      BY <2>1 DEF ChunkerInv, Sendable, vars
    <2> QED BY <2>1, CutStep, ReturnWholeStep, ReturnChunksStep DEF Next
  <1> QED BY <1>1, <1>2, PTL DEF Spec

------------------------------------------------------------------------------
(* The properties *)

(* Each turn of the loop leaves less of the text: for no text and no limit  *)
(* does it go on for ever.                                                  *)
THEOREM LoopEnds == Spec => LoopShrinks
  <1>1. ChunkerInv /\ [Next]_vars =>
          [returned' \/ Len(remaining') < Len(remaining)]_vars
    BY CutStep DEF Next, ReturnWhole, ReturnChunks, vars
  <1> QED BY <1>1, ChunkerInvariant, PTL DEF Spec, LoopShrinks

(* No message is without something to show, whatever is cut and stripped.   *)
THEOREM ChunksShowSomething == Spec => []NoEmptyChunk
  <1>1. ChunkerInv => NoEmptyChunk
    <2> SUFFICES ASSUME ChunkerInv PROVE NoEmptyChunk
      OBVIOUS
    <2>1. returned => chunks # << >>
      BY EmptySeq DEF ChunkerInv
    <2>2. ASSUME NEW i \in DOMAIN chunks
          PROVE  \E k \in DOMAIN chunks[i] : NotBlank(chunks[i][k])
      <3>1. Sendable(chunks[i])
        BY DEF ChunkerInv
      <3>2. 1 \in DOMAIN chunks[i]
        BY <3>1, LenProperties DEF Sendable
      <3> QED BY <3>1, <3>2 DEF Sendable
    <2> QED BY <2>1, <2>2 DEF NoEmptyChunk
  <1> QED BY <1>1, ChunkerInvariant, PTL

------------------------------------------------------------------------------
(* Where the chunks are *)

\* Each chunk is where it was cut, and none overlaps the next.
InPlace ==
    /\ starts \in Seq(Nat \ {0}) /\ Len(starts) = Len(chunks)
    /\ \A i \in DOMAIN chunks : IsAt(chunks[i], starts[i])
    /\ \A i, j \in DOMAIN chunks : i < j => After(i) <= starts[j]
    /\ ~returned => \A i \in DOMAIN chunks : After(i) <= Position
    /\ IsAt(remaining, Position)

\* A printing character of the body is in a chunk or yet to come.
InkKept ==
    \A k \in DOMAIN body :
        NotBlank(body[k]) =>
            \/ \E i \in DOMAIN chunks : k \in starts[i] .. After(i) - 1
            \/ ~returned /\ k >= Position

\* The break after each chunk, the last one too, is no break of a word that fits.
WordsInv ==
    /\ WordsKept
    /\ ~returned /\ chunks # << >> =>
          Spaced(Len(chunks), Position) \/ StartsTooLong(Len(chunks))

PlacesInv == ChunkerInv /\ InPlace /\ InkKept /\ WordsInv

(* A chunk more, taken where the remaining text began: the others keep their *)
(* places.                                                                   *)
LEMMA Placed ==
    ASSUME ChunkerInv, InPlace, ~returned, UNCHANGED body, NEW n, n = Len(chunks),
           NEW chunk \in Seq(Chars), IsAt(chunk, Position),
           chunks' = Append(chunks, chunk), starts' = Append(starts, Position)
    PROVE  /\ Position \in Nat \ {0} /\ n \in Nat /\ Len(chunk) \in Nat
           /\ starts' \in Seq(Nat \ {0}) /\ Len(starts') = Len(chunks')
           /\ DOMAIN chunks' = 1 .. n + 1 /\ Len(chunks') = n + 1
           /\ DOMAIN chunks = 1 .. n
           /\ \A i \in DOMAIN chunks :
                /\ i \in DOMAIN chunks' /\ starts'[i] = starts[i] /\ After(i)' = After(i)
                /\ starts[i] \in Nat /\ After(i) \in Nat
           /\ starts'[n + 1] = Position
           /\ After(n + 1)' = Position + Len(chunk)
           /\ \A i \in DOMAIN chunks' : IsAt(chunks[i], starts[i])'
           /\ \A i, j \in DOMAIN chunks' : i < j => (After(i) <= starts[j])'
  <1> DEFINE p == Position
  <1>1. p \in Nat \ {0} /\ n \in Nat /\ Len(chunk) \in Nat
    <2>1. /\ Len(body) \in Nat /\ Len(remaining) \in Nat /\ n \in Nat
          /\ n + Len(remaining) <= Len(body) /\ Len(chunk) \in Nat
      BY LenProperties, Arguments DEF ChunkerInv
    <2> QED BY <2>1 DEF Position
  <1>2. /\ chunks \in Seq(Seq(Chars)) /\ starts \in Seq(Nat \ {0}) /\ Len(starts) = n
        /\ \A i \in DOMAIN chunks : IsAt(chunks[i], starts[i])
        /\ \A i, j \in DOMAIN chunks : i < j => After(i) <= starts[j]
        /\ \A i \in DOMAIN chunks : After(i) <= p
    BY DEF ChunkerInv, InPlace
  <1>3. starts' = Append(starts, p) /\ IsAt(chunk, p)
    OBVIOUS
  <1> HIDE DEF p
  <1>4. /\ chunks' \in Seq(Seq(Chars)) /\ Len(chunks') = n + 1
        /\ \A i \in 1 .. n : chunks'[i] = chunks[i]
        /\ chunks'[n + 1] = chunk
    BY <1>2, AppendProperties
  <1>5. /\ starts' \in Seq(Nat \ {0}) /\ Len(starts') = n + 1
        /\ \A i \in 1 .. n : starts'[i] = starts[i]
        /\ starts'[n + 1] = p
    BY <1>1, <1>2, <1>3, AppendProperties
  <1>6. DOMAIN chunks = 1 .. n /\ DOMAIN chunks' = 1 .. n + 1
    BY <1>2, <1>4, LenProperties
  <1>7. ASSUME NEW i \in DOMAIN chunks
        PROVE  /\ i \in DOMAIN chunks' /\ starts'[i] = starts[i] /\ After(i)' = After(i)
               /\ starts[i] \in Nat /\ After(i) \in Nat
    <2>1. i \in 1 .. n /\ i \in 1 .. n + 1
      BY <1>1, <1>6
    <2>2. starts[i] \in Nat \ {0} /\ chunks[i] \in Seq(Chars)
      BY <1>2, <2>1, ElementOfSeq
    <2>3. Len(chunks[i]) \in Nat
      BY <2>2, LenProperties
    <2> QED BY <1>4, <1>5, <1>6, <2>1, <2>2, <2>3 DEF After
  <1>8. After(n + 1)' = p + Len(chunk)
    BY <1>4, <1>5 DEF After
  <1>9. ASSUME NEW i \in DOMAIN chunks' PROVE IsAt(chunks[i], starts[i])'
    <2>1. CASE i = n + 1
      BY <1>3, <1>4, <1>5, <2>1 DEF IsAt
    <2>2. CASE i # n + 1
      <3>1. i \in 1 .. n
        BY <1>1, <1>6, <2>2
      <3> QED BY <1>2, <1>4, <1>5, <1>6, <3>1 DEF IsAt
    <2> QED BY <2>1, <2>2
  <1>10. ASSUME NEW i \in DOMAIN chunks', NEW j \in DOMAIN chunks', i < j
         PROVE  (After(i) <= starts[j])'
    <2>1. i \in 1 .. n /\ j \in 1 .. n + 1
      BY <1>1, <1>6, <1>10
    <2>2. After(i)' = After(i)
      BY <1>6, <1>7, <2>1
    <2>3. CASE j = n + 1
      BY <1>2, <1>5, <1>6, <2>1, <2>2, <2>3
    <2>4. CASE j # n + 1
      <3>1. j \in 1 .. n
        BY <1>1, <2>1, <2>4
      <3> QED BY <1>2, <1>5, <1>6, <1>10, <2>1, <2>2, <3>1
    <2> QED BY <2>3, <2>4
  <1> QED BY <1>1, <1>4, <1>5, <1>6, <1>7, <1>8, <1>9, <1>10 DEF p

(* Appending a chunk leaves the breaks between the chunks as they were.     *)
LEMMA PlacedAfterWords ==
    ASSUME ChunkerInv, InPlace, WordsInv, ~returned, UNCHANGED <<body, max_chars>>,
           NEW chunk \in Seq(Chars), IsAt(chunk, Position),
           chunks' = Append(chunks, chunk), starts' = Append(starts, Position)
    PROVE  WordsKept'
  <1> SUFFICES ASSUME NEW n, n = Len(chunks), NEW p, p = Position,
                      NEW i \in 1 .. Len(chunks') - 1
               PROVE  Spaced(i, starts[i + 1])' \/ StartsTooLong(i)'
    BY DEF WordsKept
  <1>1. /\ \A j \in 1 .. n - 1 : Spaced(j, starts[j + 1]) \/ StartsTooLong(j)
        /\ chunks # << >> => Spaced(n, p) \/ StartsTooLong(n)
    BY DEF WordsInv, WordsKept
  <1>2. /\ n \in Nat /\ DOMAIN chunks = 1 .. n /\ Len(chunks') = n + 1
        /\ \A j \in DOMAIN chunks : starts'[j] = starts[j] /\ After(j)' = After(j)
        /\ starts'[n + 1] = p
    BY Placed
  <1>3. n # 0 => chunks # << >>
    BY EmptySeq
  <1>4. i \in 1 .. n
    BY <1>2
  <1>5. After(i)' = After(i) /\ (StartsTooLong(i)' <=> StartsTooLong(i))
    BY <1>2, <1>4 DEF StartsTooLong
  <1>6. CASE i = n
    <2>1. n # 0
      BY <1>4, <1>6
    <2>2. chunks # << >> /\ starts'[i + 1] = p
      BY <1>2, <1>3, <1>6, <2>1
    <2> QED BY <1>1, <1>5, <1>6, <2>2 DEF Spaced
  <1>7. CASE i # n
    <2>1. i \in 1 .. n - 1 /\ i + 1 \in DOMAIN chunks
      BY <1>2, <1>4, <1>7
    <2>2. starts'[i + 1] = starts[i + 1]
      BY <1>2, <2>1
    <2> QED BY <1>1, <1>5, <2>1, <2>2 DEF Spaced
  <1> QED BY <1>6, <1>7

(* A place of the body, counted from where the remaining text begins.        *)
LEMMA Offset ==
    ASSUME NEW from \in Nat, NEW to \in Nat, NEW size \in Nat, NEW at \in Nat,
           from <= at, at < to, to - from <= size
    PROVE  /\ at - from + 1 \in 1 .. to - from /\ at - from + 1 \in 1 .. size
           /\ from + (at - from + 1) - 1 = at
  OBVIOUS

LEMMA Within ==
    ASSUME NEW from \in Nat, NEW length \in Nat, NEW size \in Nat, length < size,
           NEW at \in from .. from + length
    PROVE  /\ at - from + 1 \in 1 .. length + 1 /\ at - from + 1 \in 1 .. size
           /\ from + (at - from + 1) - 1 = at
  OBVIOUS

LEMMA CutPlaces == ASSUME PlacesInv, CutChunk PROVE PlacesInv'
  <1> SUFFICES ASSUME NEW p, p = Position, NEW n, n = Len(chunks),
                      NEW r, r = Len(remaining), NEW b, b = Budget(max_chars)
               PROVE  PlacesInv'
    OBVIOUS
  <1>1. /\ ChunkerInv /\ InPlace /\ InkKept /\ WordsInv /\ ~returned /\ ~returned'
        /\ UNCHANGED <<body, max_chars>>
    BY DEF PlacesInv, CutChunk
  <1>2. PICK q \in p .. Len(body) + 1, chunk \in Seq(Chars) : Turn(chunk, p, q)
    BY <1>1, CutIsTurn
  <1>3. /\ chunks' = Append(chunks, chunk) /\ starts' = Append(starts, p)
        /\ p + Len(chunk) <= q
        /\ \A i \in 1 .. Len(chunk) : chunk[i] = remaining[i]
        /\ \A i \in Len(chunk) + 1 .. q - p : IsBlank(remaining[i])
        /\ \/ \E i \in Len(chunk) + 1 .. q - p : Splits(remaining[i])
           \/ b < r /\ \A j \in 1 .. b + 1 : ~Splits(remaining[j])
        /\ remaining' \in Seq(Chars) /\ Len(remaining') = r - (q - p)
        /\ \A i \in 1 .. Len(remaining') : remaining'[i] = remaining[q - p + i]
    BY <1>2 DEF Turn
  <1>4. /\ Len(body) \in Nat /\ r \in Nat /\ Len(chunk) \in Nat /\ Len(remaining') \in Nat
        /\ p = Len(body) - r + 1 /\ p \in Nat \ {0} /\ b \in Nat /\ n \in Nat
    <2>1. /\ Len(body) \in Nat /\ r \in Nat /\ n \in Nat /\ n + r <= Len(body)
          /\ Len(remaining') \in Nat /\ Len(chunk) \in Nat /\ b \in Nat
      BY <1>1, <1>3, LenProperties, Arguments DEF ChunkerInv
    <2> QED BY <2>1 DEF Position
  <1>5. \A i \in 1 .. r : remaining[i] = body[p + i - 1]
    <2>1. DOMAIN remaining = 1 .. r
      BY <1>1, LenProperties DEF ChunkerInv
    <2> QED BY <1>1, <2>1 DEF InPlace, IsAt
  <1>6. Position' = q /\ q \in Nat /\ q - p <= r /\ q >= p
    <2>1. Position' = Len(body) - Len(remaining') + 1
      BY <1>1 DEF Position
    <2>2. q \in Int /\ Len(remaining') = r - (q - p)
      BY <1>3, <1>4
    <2>3. Len(body) - (r - (q - p)) + 1 = q /\ q \in Nat /\ q - p <= r /\ q >= p
      BY <1>2, <1>4, <2>2
    <2> QED BY <2>1, <2>2, <2>3
  <1>13. /\ p + Len(chunk) <= q /\ Len(chunk) <= r
         /\ p + Len(chunk) - 1 <= Len(body)
         /\ Len(remaining') = r - (q - p) /\ q + Len(remaining') - 1 <= Len(body)
    <2>1. p + Len(chunk) <= q /\ Len(remaining') = r - (q - p)
      BY <1>3
    <2> QED BY <1>4, <1>6, <2>1
  <1>7. IsAt(chunk, p)
    <2>1. DOMAIN chunk = 1 .. Len(chunk)
      BY LenProperties
    <2>2. p + Len(chunk) - 1 <= Len(body) /\ Len(chunk) <= r
      BY <1>13
    <2>3. \A i \in 1 .. Len(chunk) : chunk[i] = body[p + i - 1]
      <3>1. \A i \in 1 .. Len(chunk) : i \in 1 .. r
        BY <1>4, <2>2
      <3> QED BY <1>3, <1>5, <3>1
    <2> QED BY <2>1, <2>2, <2>3 DEF IsAt
  <1>8. /\ starts' \in Seq(Nat \ {0}) /\ Len(starts') = Len(chunks')
        /\ DOMAIN chunks' = 1 .. n + 1 /\ Len(chunks') = n + 1 /\ DOMAIN chunks = 1 .. n
        /\ \A i \in DOMAIN chunks :
              /\ i \in DOMAIN chunks' /\ starts'[i] = starts[i] /\ After(i)' = After(i)
              /\ starts[i] \in Nat /\ After(i) \in Nat
        /\ starts'[n + 1] = p /\ After(n + 1)' = p + Len(chunk)
        /\ \A i \in DOMAIN chunks' : IsAt(chunks[i], starts[i])'
        /\ \A i, j \in DOMAIN chunks' : i < j => (After(i) <= starts[j])'
    BY <1>1, <1>3, <1>7, Placed
  <1>9. InPlace'
    <2>1. \A i \in DOMAIN chunks' : After(i)' <= q
      <3> SUFFICES ASSUME NEW i \in DOMAIN chunks' PROVE After(i)' <= q
        OBVIOUS
      <3>1. CASE i \in DOMAIN chunks
        <4>1. After(i) <= p /\ After(i) \in Nat /\ After(i)' = After(i)
          BY <1>1, <1>8, <3>1 DEF InPlace
        <4> QED BY <1>4, <1>6, <4>1
      <3>2. CASE i = n + 1
        <4>1. After(i)' = p + Len(chunk)
          BY <1>8, <3>2
        <4> QED BY <1>13, <4>1
      <3>3. i \in 1 .. n + 1 /\ DOMAIN chunks = 1 .. n
        BY <1>8
      <3>4. i \in 1 .. n \/ i = n + 1
        BY <1>4, <3>3
      <3> QED BY <3>1, <3>2, <3>3, <3>4
    <2>2. IsAt(remaining, Position)'
      <3>1. DOMAIN remaining' = 1 .. Len(remaining')
        BY <1>3, LenProperties
      <3>2. q + Len(remaining') - 1 <= Len(body)
        BY <1>13
      <3>3. \A i \in 1 .. Len(remaining') : remaining'[i] = body[q + i - 1]
        <4> SUFFICES ASSUME NEW i \in 1 .. Len(remaining')
                     PROVE  remaining'[i] = body[q + i - 1]
          OBVIOUS
        <4>1. q - p + i \in 1 .. r /\ p + (q - p + i) - 1 = q + i - 1
          BY <1>4, <1>6, <1>13
        <4>2. /\ remaining'[i] = remaining[q - p + i]
              /\ remaining[q - p + i] = body[p + (q - p + i) - 1]
          BY <1>3, <1>5, <4>1
        <4> QED BY <4>1, <4>2
      <3> QED BY <1>1, <1>6, <3>1, <3>2, <3>3 DEF IsAt
    <2> QED BY <1>6, <1>8, <2>1, <2>2 DEF InPlace
  <1>10. InkKept'
    <2> SUFFICES ASSUME NEW k \in DOMAIN body, NotBlank(body[k]), k < q
                 PROVE  \E i \in DOMAIN chunks' : (k \in starts[i] .. After(i) - 1)'
      <3>1. DOMAIN body = 1 .. Len(body)
        BY <1>1, LenProperties, Arguments DEF ChunkerInv
      <3>2. \A k \in DOMAIN body : k < q \/ k >= q
        BY <1>6, <3>1
      <3> QED BY <1>1, <1>6, <3>2 DEF InkKept
    <2>1. k \in 1 .. Len(body)
      BY <1>1, LenProperties, Arguments DEF ChunkerInv
    <2>2. CASE \E i \in DOMAIN chunks : k \in starts[i] .. After(i) - 1
      BY <1>8, <2>2
    <2>3. CASE k >= p
      <3>1. k - p + 1 \in 1 .. q - p /\ p + (k - p + 1) - 1 = k /\ k - p + 1 \in 1 .. r
        <4>1. k \in Nat /\ p <= k /\ k < q /\ p \in Nat
          BY <1>4, <2>1, <2>3
        <4>2. q \in Nat /\ r \in Nat /\ q - p <= r
          BY <1>4, <1>6
        <4> QED BY <4>1, <4>2, Offset
      <3>2. k - p + 1 \notin Len(chunk) + 1 .. q - p
        BY <1>3, <1>5, <3>1 DEF NotBlank
      <3>3. k \in p .. p + Len(chunk) - 1
        <4>1. k - p + 1 <= Len(chunk)
          BY <1>4, <1>6, <3>1, <3>2
        <4> QED BY <1>4, <2>1, <2>3, <4>1
      <3>4. n + 1 \in DOMAIN chunks'
        BY <1>4, <1>8
      <3> QED BY <1>8, <3>3, <3>4, SMTT(30)
    <2> QED BY <1>1, <2>2, <2>3 DEF InkKept
  <1>11. WordsInv'
    <2>1. WordsKept'
      BY <1>1, <1>3, <1>7, PlacedAfterWords
    <2>2. ASSUME NEW i \in Len(chunk) + 1 .. q - p, Splits(remaining[i])
          PROVE  \E k \in p + Len(chunk) .. q - 1 : Splits(body[k])
      <3>1. i \in 1 .. r /\ p + i - 1 \in p + Len(chunk) .. q - 1
        <4>1. /\ i \in Nat /\ Len(chunk) + 1 <= i /\ i <= q - p
              /\ p \in Nat /\ q \in Nat /\ r \in Nat /\ Len(chunk) \in Nat
          BY <1>4, <1>6
        <4>2. q - p <= r
          BY <1>6
        <4> QED BY <4>1, <4>2
      <3> QED BY <1>5, <2>2, <3>1
    <2>3. ASSUME b < r, \A j \in 1 .. b + 1 : ~Splits(remaining[j])
          PROVE  /\ p + b <= Len(body)
                 /\ \A k \in p .. p + b : ~Splits(body[k])
      <3>1. p + b <= Len(body)
        BY <1>4, <2>3
      <3>2. ASSUME NEW k \in p .. p + b PROVE ~Splits(body[k])
        <4>1. k - p + 1 \in 1 .. b + 1 /\ k - p + 1 \in 1 .. r /\ p + (k - p + 1) - 1 = k
          BY <1>4, <2>3, Within
        <4> QED BY <1>5, <2>3, <4>1
      <3> QED BY <3>1, <3>2
    <2>4. Spaced(n + 1, q)' \/ StartsTooLong(n + 1)'
      <3>1. /\ starts'[n + 1] = p /\ After(n + 1)' = p + Len(chunk)
            /\ body' = body /\ Budget(max_chars)' = b
        BY <1>1, <1>8
      <3> QED BY <1>3, <2>2, <2>3, <3>1 DEF Spaced, StartsTooLong
    <2>5. Len(chunks') = n + 1
      BY <1>8
    <2> QED BY <1>6, <2>1, <2>4, <2>5 DEF WordsInv, Spaced, StartsTooLong, After
  <1>12. ChunkerInv'
    BY <1>1, CutStep
  <1> QED BY <1>9, <1>10, <1>11, <1>12 DEF PlacesInv

LEMMA ReturnWholePlaces == ASSUME PlacesInv, ReturnWhole PROVE PlacesInv'
  <1>1. /\ ChunkerInv /\ InPlace /\ returned' = TRUE
        /\ chunks' = <<body>> /\ starts' = <<1>>
        /\ UNCHANGED <<body, max_chars, remaining>>
    BY DEF PlacesInv, ReturnWhole
  <1>2. Len(body) \in Nat /\ DOMAIN body = 1 .. Len(body) /\ body \in Seq(Chars)
    BY <1>1, LenProperties, Arguments DEF ChunkerInv
  <1>3. /\ starts' \in Seq(Nat \ {0}) /\ Len(starts') = 1 /\ Len(chunks') = 1
        /\ DOMAIN chunks' = {1} /\ starts'[1] = 1 /\ chunks'[1] = body
    BY <1>1
  <1>4. InPlace'
    <2>1. IsAt(chunks[1], starts[1])'
      BY <1>1, <1>2, <1>3 DEF IsAt
    <2>2. IsAt(remaining, Position)'
      <3>1. IsAt(remaining, Position) /\ Position' = Position
        BY <1>1 DEF InPlace, Position
      <3> QED BY <1>1, <3>1 DEF IsAt
    <2>3. \A i, j \in DOMAIN chunks' : ~(i < j)
      BY <1>3
    <2> QED BY <1>1, <1>3, <2>1, <2>2, <2>3 DEF InPlace
  <1>5. InkKept'
    <2>1. After(1)' = 1 + Len(body)
      BY <1>3 DEF After
    <2>2. \A k \in DOMAIN body : k \in 1 .. After(1)' - 1
      BY <1>2, <2>1
    <2> QED BY <1>1, <1>3, <2>2 DEF InkKept
  <1>6. WordsInv'
    <2>1. 1 .. Len(chunks') - 1 = {}
      BY <1>3
    <2> QED BY <1>1, <2>1 DEF WordsInv, WordsKept
  <1> QED BY <1>1, <1>4, <1>5, <1>6, ReturnWholeStep DEF PlacesInv

LEMMA ReturnChunksPlaces == ASSUME PlacesInv, ReturnChunks PROVE PlacesInv'
  <1> SUFFICES ASSUME NEW p, p = Position, NEW n, n = Len(chunks),
                      NEW r, r = Len(remaining)
               PROVE  PlacesInv'
    OBVIOUS
  <1>1. /\ ChunkerInv /\ InPlace /\ InkKept /\ WordsInv /\ ~returned
        /\ returned' = TRUE /\ remaining' = << >> /\ UNCHANGED <<body, max_chars>>
        /\ remaining \in Seq(Chars) /\ IsAt(remaining, p)
    BY DEF PlacesInv, ReturnChunks, ChunkerInv, InPlace
  <1>2. /\ Len(body) \in Nat /\ DOMAIN body = 1 .. Len(body)
        /\ r \in Nat /\ p = Len(body) - r + 1
    BY <1>1, LenProperties, Arguments DEF ChunkerInv, Position
  <1>3. IsAt(remaining, Position)'
    <2>1. Len(remaining') = 0 /\ DOMAIN remaining' = {}
      BY <1>1
    <2>2. Position' = Len(body) + 1
      BY <1>1, <1>2, <2>1 DEF Position
    <2> QED BY <1>1, <1>2, <2>1, <2>2 DEF IsAt
  <1>4. ASSUME NEW k \in DOMAIN body, NotBlank(body[k])
        PROVE  k \in p .. p + r - 1 \/ \E i \in DOMAIN chunks : k \in starts[i] .. After(i) - 1
    <2>1. CASE k >= p
      BY <1>2, <2>1
    <2> QED BY <1>1, <1>4, <2>1 DEF InkKept
  <1>5. CASE remaining = << >>
    <2>1. UNCHANGED <<chunks, starts>>
      BY <1>5 DEF ReturnChunks
    <2>2. InPlace'
      BY <1>1, <1>3, <2>1 DEF InPlace, IsAt, After
    <2>3. p .. p + r - 1 = {}
      BY <1>2, <1>5
    <2>4. InkKept'
      BY <1>1, <1>4, <2>1, <2>3 DEF InkKept, After
    <2>5. WordsInv'
      BY <1>1, <2>1 DEF WordsInv, WordsKept, Spaced, StartsTooLong, After
    <2> QED BY <1>1, <2>2, <2>4, <2>5, ReturnChunksStep DEF PlacesInv
  <1>6. CASE remaining # << >>
    <2>1. chunks' = Append(chunks, remaining) /\ starts' = Append(starts, Position)
      BY <1>6 DEF ReturnChunks
    <2>2. /\ p \in Nat \ {0} /\ n \in Nat
          /\ starts' \in Seq(Nat \ {0}) /\ Len(starts') = Len(chunks')
          /\ DOMAIN chunks' = 1 .. n + 1 /\ DOMAIN chunks = 1 .. n
          /\ \A i \in DOMAIN chunks :
                /\ i \in DOMAIN chunks' /\ starts'[i] = starts[i] /\ After(i)' = After(i)
          /\ starts'[n + 1] = p /\ After(n + 1)' = p + r
          /\ \A i \in DOMAIN chunks' : IsAt(chunks[i], starts[i])'
          /\ \A i, j \in DOMAIN chunks' : i < j => (After(i) <= starts[j])'
      BY <1>1, <2>1, Placed
    <2>3. InPlace'
      BY <1>1, <1>3, <2>2 DEF InPlace
    <2>4. InkKept'
      <3> SUFFICES ASSUME NEW k \in DOMAIN body, NotBlank(body[k])
                   PROVE  \E i \in DOMAIN chunks' : (k \in starts[i] .. After(i) - 1)'
        BY <1>1 DEF InkKept
      <3>1. CASE k \in p .. p + r - 1
        <4>1. n + 1 \in DOMAIN chunks'
          BY <2>2
        <4> QED BY <2>2, <3>1, <4>1
      <3>2. CASE \E i \in DOMAIN chunks : k \in starts[i] .. After(i) - 1
        BY <2>2, <3>2
      <3> QED BY <1>4, <3>1, <3>2
    <2>5. WordsInv'
      BY <1>1, <2>1, PlacedAfterWords DEF WordsInv
    <2> QED BY <1>1, <2>3, <2>4, <2>5, ReturnChunksStep DEF PlacesInv
  <1> QED BY <1>5, <1>6

LEMMA PlacesInvariant == Spec => []PlacesInv
  <1>1. Init /\ ChunkerInv => PlacesInv
    <2> SUFFICES ASSUME Init, ChunkerInv PROVE PlacesInv
      OBVIOUS
    <2>1. remaining = body /\ chunks = << >> /\ returned = FALSE /\ starts = << >>
      BY DEF Init
    <2>2. /\ starts \in Seq(Nat \ {0}) /\ Len(starts) = Len(chunks) /\ DOMAIN chunks = {}
          /\ Len(chunks) = 0
      BY <2>1
    <2>3. Len(body) \in Nat /\ DOMAIN body = 1 .. Len(body)
      BY LenProperties, Arguments DEF ChunkerInv
    <2>4. Position = 1
      BY <2>1, <2>3 DEF Position
    <2>5. InPlace
      <3>1. IsAt(remaining, Position)
        BY <2>1, <2>3, <2>4 DEF IsAt
      <3> QED BY <2>2, <3>1 DEF InPlace
    <2>6. InkKept
      BY <2>1, <2>3, <2>4 DEF InkKept
    <2>7. WordsInv
      <3>1. 1 .. Len(chunks) - 1 = {}
        BY <2>2
      <3> QED BY <2>1, <3>1 DEF WordsInv, WordsKept
    <2> QED BY <2>5, <2>6, <2>7 DEF PlacesInv
  <1>2. PlacesInv /\ [Next]_vars => PlacesInv'
    <2>1. ASSUME PlacesInv, UNCHANGED vars PROVE PlacesInv'
      BY <2>1 DEF PlacesInv, ChunkerInv, Sendable, InPlace, InkKept, WordsInv,
                  WordsKept, Spaced, StartsTooLong, IsAt, After, Position, vars
    <2> QED BY <2>1, CutPlaces, ReturnWholePlaces, ReturnChunksPlaces DEF Next
  <1> QED BY <1>1, <1>2, ChunkerInvariant, PTL DEF Spec

(* The chunks are pieces of the text, in order, and nothing that prints is   *)
(* lost or sent twice, wherever the text is cut and whatever is stripped.    *)
THEOREM TextIsKept == Spec => []NothingLost
  <1>1. PlacesInv => NothingLost
    BY DEF PlacesInv, InPlace, InkKept, NothingLost
  <1> QED BY <1>1, PlacesInvariant, PTL

(* No word that fits a message is broken in two, for any limit and whatever  *)
(* words are around it.                                                      *)
THEOREM WordsAreKept == Spec => []WordsKept
  <1>1. PlacesInv => WordsKept
    BY DEF PlacesInv, WordsInv
  <1> QED BY <1>1, PlacesInvariant, PTL

------------------------------------------------------------------------------
(* The messages' lengths *)

(* A number below a million has at most six digits.                         *)
LEMMA DigitsBound ==
    ASSUME NEW n \in Nat, n < Powers[6]
    PROVE  Digits(n) \in 1 .. 6
  <1> DEFINE P(d) == n < Powers[d] /\ \A k \in 1 .. d - 1 : n >= Powers[k]
  <1>1. DOMAIN Powers = 1 .. 6 /\ \A k \in 1 .. 6 : Powers[k] \in Nat
    BY SMT DEF Powers
  <1>2. \E d \in 1 .. 6 : P(d)
    <2> DEFINE T == {d \in 1 .. 6 : n < Powers[d]}
    <2>1. T \subseteq Nat /\ T # {}
      BY <1>1
    <2>2. Min(T) \in T /\ \A y \in T : Min(T) <= y
      <3> HIDE DEF T
      <3> QED BY <2>1, Least
    <2>3. \A k \in 1 .. Min(T) - 1 : k \in 1 .. 6 /\ Powers[k] \in Nat /\ ~(n < Powers[k])
      <3> SUFFICES ASSUME NEW k \in 1 .. Min(T) - 1
                   PROVE  k \in 1 .. 6 /\ Powers[k] \in Nat /\ ~(n < Powers[k])
        OBVIOUS
      <3>1. Min(T) \in 1 .. 6
        BY <2>2
      <3>2. k \in 1 .. 6 /\ k < Min(T)
        BY <3>1
      <3>3. k \notin T
        BY <2>2, <3>1, <3>2
      <3>4. Powers[k] \in Nat
        BY <1>1, <3>2
      <3> QED BY <3>2, <3>3, <3>4
    <2>4. \A k \in 1 .. Min(T) - 1 : n >= Powers[k]
      BY <2>3
    <2> QED BY <2>2, <2>4
  <1>3. Digits(n) = CHOOSE d \in 1 .. 6 : P(d)
    BY <1>1 DEF Digits
  <1> HIDE DEF P
  <1> QED BY <1>2, <1>3

(* With its marker, every message is within the limit, as long as there are *)
(* fewer than a million of them: just as far as the reserve goes.           *)
THEOREM MessagesWithinLimit ==
    ASSUME \A s \in Bodies : Len(s) < Powers[6]
    PROVE  Spec => []MessagesFit
  <1>1. ChunkerInv => MessagesFit
    <2> SUFFICES ASSUME ChunkerInv, returned, max_chars > Reserve, NEW i \in DOMAIN chunks
                 PROVE  MarkerLength(i) + Len(chunks[i]) <= max_chars
      BY DEF MessagesFit
    <2>1. /\ Budget(max_chars) = max_chars - Reserve /\ max_chars \in Nat
          /\ Len(body) \in Nat /\ Len(body) < Powers[6]
      BY Arguments DEF ChunkerInv
    <2>2. Len(chunks[i]) \in Nat /\ Len(chunks[i]) <= max_chars - Reserve
      BY <2>1 DEF ChunkerInv, Sendable, Reserve
    <2>3. Len(chunks) \in Nat /\ Len(chunks) < Powers[6]
      <3>1. Powers[6] \in Nat
        BY SMT DEF Powers
      <3>2. Len(chunks) \in 1 .. Len(body)
        BY DEF ChunkerInv
      <3> QED BY <2>1, <3>1, <3>2
    <2>4. i \in Nat /\ i < Powers[6]
      <3>1. DOMAIN chunks = 1 .. Len(chunks) /\ Powers[6] \in Nat
        BY SMT, LenProperties DEF ChunkerInv, Powers
      <3> QED BY <2>3, <3>1
    <2>5. Digits(i) \in 1 .. 6 /\ Digits(Len(chunks)) \in 1 .. 6
      BY <2>3, <2>4, DigitsBound
    <2>6. MarkerLength(i) \in 0 .. 16
      BY <2>5 DEF MarkerLength
    <2> QED BY <2>1, <2>2, <2>6 DEF Reserve
  <1> QED BY <1>1, ChunkerInvariant, PTL
=============================================================================
