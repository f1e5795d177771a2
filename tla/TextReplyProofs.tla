--------------------------- MODULE TextReplyProofs ---------------------------
(* TextReply implements Answer, for any number of chunks and of retries.    *)
EXTENDS TextReply, TLAPS

(* What Following returns is a message of the answer, another than the one  *)
(* before it, and only the last message has none after it.                  *)
LEMMA FollowingFacts ==
    ASSUME NEW s \in Sizes, NEW p \in Part, p[2] <= s[p[1]]
    PROVE  \/ Following(s, p) = None /\ p = Last(s)
           \/ /\ Following(s, p) \in Part /\ Following(s, p) # p
              /\ Following(s, p)[2] <= s[Following(s, p)[1]]
  <1>1. /\ p[1] \in 1 .. 3 /\ p[2] \in 1 .. MaxChunks /\ p = <<p[1], p[2]>>
        /\ \A i \in 1 .. 3 : s[i] \in 1 .. MaxChunks
        /\ MaxChunks \in Nat \ {0}
    BY PartsAssumption DEF Part, Results, Sizes
  <1>2. CASE p[2] < s[p[1]]
    <2>1. Following(s, p) = <<p[1], p[2] + 1>>
      BY <1>2 DEF Following
    <2>2. p[2] + 1 \in 1 .. MaxChunks /\ p[2] + 1 # p[2] /\ p[2] + 1 <= s[p[1]]
      BY <1>1, <1>2
    <2> QED BY <1>1, <2>1, <2>2 DEF Part, Results
  <1>3. CASE ~(p[2] < s[p[1]]) /\ p[1] < 3
    <2>1. Following(s, p) = <<p[1] + 1, 1>>
      BY <1>3 DEF Following
    <2>2. p[1] + 1 \in 1 .. 3 /\ p[1] + 1 # p[1] /\ 1 <= s[p[1] + 1] /\ 1 \in 1 .. MaxChunks
      BY <1>1, <1>3
    <2> QED BY <1>1, <2>1, <2>2 DEF Part, Results
  <1>4. CASE ~(p[2] < s[p[1]]) /\ ~(p[1] < 3)
    <2>1. Following(s, p) = None
      BY <1>4 DEF Following
    <2>2. p[1] = 3 /\ p[2] = s[3]
      BY <1>1, <1>4
    <2> QED BY <1>1, <2>1, <2>2 DEF Last
  <1> QED BY <1>2, <1>3, <1>4

(* None, the apology and the messages of an answer are told apart.          *)
LEMMA Distinct ==
    /\ First \in Part
    /\ None \notin Part /\ None \notin Sizes
    /\ Sorry \notin Part /\ Sorry # None
    /\ \A s \in Sizes : First[2] <= s[First[1]]
  BY PartsAssumption DEF First, Part, Sizes, Results

------------------------------------------------------------------------------
(* The inductive invariant *)

\* Posts of the message at hand that are over.
Tried == IF pc = "backoff" THEN attempt + 1 ELSE attempt

SendingApology ==
    /\ part = Sorry /\ error = "aoai" /\ answer = None
    /\ \/ seen = None
       \/ seen = Sorry /\ copies <= Tried

SendingAnswer ==
    /\ error = None /\ answer \in Sizes
    /\ part \in Part /\ part[2] <= answer[part[1]]
    /\ \/ seen = None /\ part = First
       \/ seen = part /\ copies <= Tried
       \/ seen \in Part /\ seen # part /\ Following(answer, seen) = part

ReplyInv ==
    /\ TypeOK
    /\ pc \in {"download", "token", "model"} =>
          answer = None /\ seen = None /\ error = None
    /\ pc = "model" => calls \in 1 .. 2
    /\ pc = "backoff" => attempt < MaxRetries
    /\ pc \in {"send", "backoff"} => SendingApology \/ SendingAnswer
    /\ pc \in {"reset", "cleanup", "ended"} =>
          /\ error = None => answer # None /\ seen = Last(answer)
          /\ error = "aoai" => seen = Sorry

(* A post of the message at hand, received or not, is a step of Answer:     *)
(* the first message, the next one, or one more copy within the limit.      *)
LEMMA PostStep ==
    ASSUME ReplyInv, pc = "send", Received \/ UNCHANGED phone, UNCHANGED answer
    PROVE  /\ seen' \in Part \cup {Sorry, None}
           /\ copies' \in 0 .. MaxRetries + 1
           /\ Received => seen' = part /\ copies' <= attempt + 1
           /\ [Answer!Next]_Answer!avars
  <1>1. CASE UNCHANGED phone /\ ~Received
    BY <1>1 DEF phone, Answer!avars, ReplyInv, TypeOK
  <1>2. CASE Received
    <2>1. Tried = attempt /\ attempt \in 0 .. MaxRetries /\ copies \in 0 .. MaxRetries + 1
          /\ MaxRetries \in Nat /\ UNCHANGED answer
      BY RetriesAssumption DEF Tried, ReplyInv, TypeOK
    <2>2. SendingApology \/ SendingAnswer
      BY DEF ReplyInv
    <2>3. part \in Part \cup {Sorry} /\ part # None
      BY <2>2, Distinct DEF SendingApology, SendingAnswer
    <2>4. CASE seen = part
      <3>1. copies <= attempt
        BY <2>1, <2>2, <2>4, Distinct DEF SendingApology, SendingAnswer
      <3>2. seen' = part /\ copies' = copies + 1
        BY <1>2, <2>4 DEF Received
      <3>3. Answer!Repeat
        BY <2>1, <2>3, <2>4, <3>1, <3>2 DEF Answer!Repeat
      <3> QED BY <2>1, <2>3, <3>1, <3>2, <3>3 DEF Answer!Next
    <2>5. CASE seen # part
      <3>1. seen' = part /\ copies' = 1
        BY <1>2, <2>5 DEF Received
      <3>2. Answer!Receive(part)
        BY <2>1, <3>1 DEF Answer!Receive
      <3>3. Answer!Apologise \/ Answer!Begin \/ Answer!Advance
        <4>1. CASE SendingApology
          BY <2>5, <3>2, <4>1 DEF SendingApology, Answer!Apologise
        <4>2. CASE SendingAnswer /\ seen = None
          BY <2>5, <3>2, <4>2, Distinct
             DEF SendingAnswer, Answer!Begin, Answer!First, First
        <4>3. CASE SendingAnswer /\ seen # None
          BY <2>3, <2>5, <3>2, <4>3, Distinct
             DEF SendingAnswer, Answer!Advance, Answer!Following, Following
        <4> QED BY <2>2, <4>1, <4>2, <4>3
      <3> QED BY <2>1, <2>3, <3>1, <3>3 DEF Answer!Next
    <2> QED BY <2>4, <2>5
  <1> QED BY <1>1, <1>2

LEMMA InitReply == Init => ReplyInv /\ Answer!Init
  BY RetriesAssumption, Distinct
     DEF Init, ReplyInv, TypeOK, Answer!Init, Labels, Errors, Tried

(* The note, the token and the model: nothing is sent yet.                  *)
LEMMA ModelStep ==
    ASSUME ReplyInv,
           Download \/ Authorise \/ ModelAnswers \/ ModelMisformats
              \/ ModelRefuses \/ ModelFails
    PROVE  ReplyInv' /\ [Answer!Next]_Answer!avars
  <1> USE RetriesAssumption, ErrorsAssumption DEF phone, storage
  <1>1. CASE Download
    BY <1>1 DEF Download, Fail, ReplyInv, TypeOK, Labels, Errors, Ended, Answer!avars
  <1>2. CASE Authorise
    BY <1>2 DEF Authorise, Fail, ReplyInv, TypeOK, Labels, Errors, Ended, Answer!avars
  <1>3. CASE ModelAnswers
    <2>1. /\ pc' = "send" /\ answer' \in Sizes /\ part' = First /\ attempt' = 0
          /\ UNCHANGED <<calls, error, seen, copies, row, blob>>
          /\ answer = None /\ seen = None /\ error = None
      BY <1>3 DEF ModelAnswers, Transmit, ReplyInv
    <2>2. SendingAnswer'
      BY <2>1, Distinct DEF SendingAnswer
    <2>3. TypeOK'
      BY <2>1, Distinct DEF ReplyInv, TypeOK, Labels, Ended
    <2>4. Answer!Decide
      BY <2>1 DEF Answer!Decide, Answer!Sizes, Sizes, Answer!Results, Results
    <2> QED BY <2>1, <2>2, <2>3, <2>4 DEF ReplyInv, Answer!Next
  <1>4. CASE ModelMisformats \/ ModelRefuses
    <2>1. answer = None /\ seen = None /\ error = None /\ calls \in 1 .. 2
          /\ UNCHANGED <<answer, seen, copies, row, blob>>
      BY <1>4 DEF ModelMisformats, ModelRefuses, ReplyInv
    <2>2. \/ UNCHANGED <<pc, part, attempt, error>> /\ pc = "model" /\ calls' = 2
          \/ /\ pc' = "send" /\ error' = "aoai" /\ part' = Sorry /\ attempt' = 0
             /\ UNCHANGED calls
      BY <1>4 DEF ModelMisformats, ModelRefuses, Catch, Transmit
    <2>3. TypeOK'
      BY <2>1, <2>2 DEF ReplyInv, TypeOK, Labels, Errors, Ended
    <2> QED BY <2>1, <2>2, <2>3 DEF ReplyInv, SendingApology, Answer!avars
  <1>5. CASE ModelFails
    BY <1>5 DEF ModelFails, Fail, ReplyInv, TypeOK, Labels, Errors, Ended, Answer!avars
  <1> QED BY <1>1, <1>2, <1>3, <1>4, <1>5

(* The sends and their retries.                                             *)
LEMMA SendStep ==
    ASSUME ReplyInv, SendAccepted \/ SendFails \/ SendBusy \/ Backoff
    PROVE  ReplyInv' /\ [Answer!Next]_Answer!avars
  <1> USE RetriesAssumption, ErrorsAssumption
  <1>1. CASE SendAccepted
    <2>1. /\ pc = "send" /\ Received /\ UNCHANGED <<calls, answer, error, row, blob>>
          /\ \/ NextMessage = None /\ pc' = "reset" /\ UNCHANGED <<part, attempt>>
             \/ /\ NextMessage # None /\ part' = NextMessage
                /\ attempt' = 0 /\ pc' = "send"
      BY <1>1 DEF SendAccepted, Transmit, storage
    <2>2. /\ seen' = part /\ copies' \in 0 .. MaxRetries + 1
          /\ seen' \in Part \cup {Sorry, None}
          /\ [Answer!Next]_Answer!avars
      BY <2>1, PostStep
    <2>3. CASE SendingApology
      <3>1. NextMessage = None
        BY <2>3 DEF SendingApology, NextMessage
      <3>2. TypeOK'
        BY <2>1, <2>2, <3>1 DEF ReplyInv, TypeOK, Labels, Ended
      <3> QED BY <2>1, <2>2, <2>3, <3>1, <3>2 DEF ReplyInv, SendingApology, Errors
    <2>4. CASE SendingAnswer
      <3>1. NextMessage = Following(answer, part)
        BY <2>4, Distinct DEF SendingAnswer, NextMessage
      <3>2. \/ NextMessage = None /\ part = Last(answer)
            \/ /\ NextMessage \in Part /\ NextMessage # part
               /\ NextMessage[2] <= answer[NextMessage[1]]
        BY <2>4, <3>1, FollowingFacts DEF SendingAnswer
      <3>3. TypeOK'
        BY <2>1, <2>2, <3>2 DEF ReplyInv, TypeOK, Labels, Ended
      <3>4. CASE NextMessage = None
        BY <2>1, <2>2, <2>4, <3>2, <3>3, <3>4, Distinct DEF ReplyInv, SendingAnswer, Errors
      <3>5. CASE NextMessage # None
        <4>1. SendingAnswer'
          BY <2>1, <2>2, <2>4, <3>1, <3>2, <3>5 DEF SendingAnswer
        <4> QED BY <2>1, <2>2, <3>3, <3>5, <4>1 DEF ReplyInv
      <3> QED BY <3>4, <3>5
    <2> QED BY <2>1, <2>3, <2>4 DEF ReplyInv
  <1>2. CASE SendFails \/ SendBusy
    <2>1. /\ pc = "send" /\ (Received \/ UNCHANGED phone)
          /\ UNCHANGED <<calls, answer, part, attempt, row, blob>>
          /\ \/ error' = "other" /\ pc' = "reset"
             \/ attempt # MaxRetries /\ pc' = "backoff" /\ UNCHANGED error
      BY <1>2 DEF SendFails, SendBusy, Fail, storage
    <2>2. /\ seen' \in Part \cup {Sorry, None} /\ copies' \in 0 .. MaxRetries + 1
          /\ Received => seen' = part /\ copies' <= attempt + 1
          /\ [Answer!Next]_Answer!avars
      BY <2>1, PostStep
    <2>3. TypeOK'
      BY <2>1, <2>2 DEF ReplyInv, TypeOK, Labels, Errors, Ended
    <2>4. CASE pc' = "reset"
      BY <2>1, <2>2, <2>3, <2>4 DEF ReplyInv, Errors
    <2>5. CASE pc' = "backoff"
      <3>1. attempt < MaxRetries /\ Tried = attempt /\ Tried' = attempt + 1
        BY <2>1, <2>5 DEF ReplyInv, TypeOK, Tried
      <3>2. UNCHANGED error
        BY <2>1, <2>5
      <3>3. \/ seen' = part /\ copies' <= Tried'
            \/ UNCHANGED <<seen, copies>>
        BY <2>1, <2>2, <3>1 DEF phone
      <3>4. copies <= Tried => copies <= Tried'
        BY <3>1 DEF ReplyInv, TypeOK
      <3>5. CASE SendingApology
        <4>1. SendingApology'
          BY <2>1, <3>2, <3>3, <3>4, <3>5 DEF SendingApology
        <4> QED BY <2>1, <2>2, <2>3, <2>5, <3>1, <4>1 DEF ReplyInv
      <3>6. CASE SendingAnswer
        <4>1. SendingAnswer'
          BY <2>1, <3>2, <3>3, <3>4, <3>6 DEF SendingAnswer
        <4> QED BY <2>1, <2>2, <2>3, <2>5, <3>1, <4>1 DEF ReplyInv
      <3> QED BY <2>1, <3>5, <3>6 DEF ReplyInv
    <2> QED BY <2>1, <2>4, <2>5
  <1>3. CASE Backoff
    <2>1. /\ pc = "backoff" /\ pc' = "send" /\ attempt' = attempt + 1
          /\ UNCHANGED <<calls, answer, part, error, seen, copies, row, blob>>
      BY <1>3 DEF Backoff, phone, storage
    <2>2. Tried' = Tried
      BY <2>1 DEF Tried
    <2>3. TypeOK'
      BY <2>1 DEF ReplyInv, TypeOK, Labels, Ended
    <2>4. SendingApology' \/ SendingAnswer'
      BY <2>1, <2>2 DEF ReplyInv, SendingApology, SendingAnswer
    <2> QED BY <2>1, <2>3, <2>4 DEF ReplyInv, Answer!avars
  <1> QED BY <1>1, <1>2, <1>3

(* The finally block, a crash, and the end.                                 *)
LEMMA LastStep ==
    ASSUME ReplyInv, Reset \/ Cleanup \/ Crash \/ Finished
    PROVE  ReplyInv' /\ [Answer!Next]_Answer!avars
  <1> USE ErrorsAssumption DEF phone
  <1>1. CASE Reset
    BY <1>1 DEF Reset, GiveUp, ReplyInv, TypeOK, Labels, Errors, Ended, Answer!avars
  <1>2. CASE Cleanup
    BY <1>2 DEF Cleanup, GiveUp, ReplyInv, TypeOK, Labels, Errors, Ended, Answer!avars
  <1>3. CASE Crash
    BY <1>3 DEF Crash, storage, ReplyInv, TypeOK, Labels, Ended, Answer!avars
  <1>4. CASE Finished
    <2>1. UNCHANGED <<pc, calls, answer, part, attempt, error, seen, copies, row, blob>>
      BY <1>4 DEF Finished, vars, storage
    <2> QED BY <2>1 DEF ReplyInv, TypeOK, SendingApology, SendingAnswer, Tried, Answer!avars
  <1> QED BY <1>1, <1>2, <1>3, <1>4

(* Every step keeps the invariant and is one of Answer, or none.            *)
LEMMA NextReply == ReplyInv /\ [Next]_vars => ReplyInv' /\ [Answer!Next]_Answer!avars
  <1> SUFFICES ASSUME ReplyInv, [Next]_vars
               PROVE  ReplyInv' /\ [Answer!Next]_Answer!avars
    OBVIOUS
  <1>1. CASE Next
    BY <1>1, ModelStep, SendStep, LastStep DEF Next, Step
  <1>2. CASE UNCHANGED vars
    BY <1>2 DEF vars, phone, storage, ReplyInv, TypeOK,
                SendingApology, SendingAnswer, Tried, Answer!avars
  <1> QED BY <1>1, <1>2

------------------------------------------------------------------------------

(* The invariant of every reachable state of a text request.                *)
THEOREM ReplyInvariant == Spec => []ReplyInv
  <1>1. Init => ReplyInv
    BY InitReply
  <1>2. ReplyInv /\ [Next]_vars => ReplyInv'
    BY NextReply
  <1> QED BY <1>1, <1>2, PTL DEF Spec

(* Every variable of a text request keeps its type: among others, the model *)
(* is called at most twice, and no message is shown more often than posted. *)
THEOREM ReplyTypes == Spec => []TypeOK
  <1>1. ReplyInv => TypeOK
    BY DEF ReplyInv
  <1> QED BY <1>1, ReplyInvariant, PTL

(* For any number of chunks and retries, the user sees an answer in order,  *)
(* each message at most max_retries + 1 times, or the apology, never both.  *)
THEOREM ReplyImplementsAnswer == Spec => RefinesAnswer
  <1>1. Init => Answer!Init
    BY InitReply
  <1>2. ReplyInv /\ [Next]_vars => [Answer!Next]_Answer!avars
    BY NextReply
  <1> QED BY <1>1, <1>2, ReplyInvariant, PTL DEF Spec, RefinesAnswer, Answer!Spec

(* A request that ends without an exception has shown the whole answer.     *)
THEOREM CompleteAnswers == Spec => []AnswerComplete
  <1>1. ReplyInv => AnswerComplete
    BY DEF ReplyInv, AnswerComplete
  <1> QED BY <1>1, ReplyInvariant, PTL

(* A request that ends with the model's error has told the user.            *)
THEOREM ErrorsTold == Spec => []AoaiErrorIsTold
  <1>1. ReplyInv => AoaiErrorIsTold
    BY DEF ReplyInv, AoaiErrorIsTold
  <1> QED BY <1>1, ReplyInvariant, PTL
=============================================================================
