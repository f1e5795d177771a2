---------------------------- MODULE ServiceProofs ----------------------------
(* What one process of the service keeps to, for any number of webhooks and *)
(* of probes, each at any point of the process's life.                      *)
EXTENDS Service, SequenceTheorems, TLAPS

------------------------------------------------------------------------------
(* The inductive invariant *)

\* Who may be under way in which phase, and on what.
PhaseInv ==
    /\ phase \in Serving => \A s \in Sessions : session[s] = "open"
    /\ phase \notin Serving => \A r \in Requests : at[r] \in {"unsent"} \cup Ended
    /\ StopsClosed

WebhookInv(c) ==
    /\ at[c] \in {"unsent", "form", "handler"} \cup Ended
    /\ at[c] \notin Ended => handled[c] = "no"
    /\ at[c] = "answered" => (status[c] = 200 <=> handled[c] # "no")
    /\ at[c] = "handler" => Valid(c)
    /\ at[c] = "answered" => Valid(c) \/ handled[c] = "no"
    /\ at[c] = "answered" => ~Valid(c) \/ status[c] # 403

\* The pings a probe has behind it.
ProbeInv(p) ==
    /\ at[p] \in {"unsent", "token", "aoai", "table", "blob", "answered"}
    /\ at[p] \in {"unsent", "token", "aoai"} => report[p] = << >> /\ met[p] = << >>
    /\ at[p] = "table" => Len(met[p]) = 1
    /\ at[p] = "blob" => Len(met[p]) = 2
    /\ at[p] # "answered" => Truthful(p) /\ ~Strayed(p)
    /\ at[p] = "answered" /\ met[p] # << >> =>
          /\ status[p] = 200 <=> ~Strayed(p)
          /\ status[p] = 200 => Len(report[p]) = Len(Pings) /\ Truthful(p)

\* A process runs exactly while its call attends to it.
ProcessInv(c) ==
    /\ process[c] = "running" => call[c] = "communicate"
    /\ call[c] = "communicate" => process[c] # "none"
    /\ call[c] = "wait" => process[c] \in Gone

ServiceInv ==
    /\ TypeOK
    /\ PhaseInv
    /\ \A c \in Calls : WebhookInv(c) /\ ProcessInv(c)
    /\ \A p \in Probes : ProbeInv(p)

SeqUpTo3(S) == UNION {[1 .. n -> S] : n \in 0 .. 3}

(* A report of fewer than three pings takes one more.                       *)
LEMMA OneMore ==
    ASSUME NEW S, NEW s \in SeqUpTo3(S), NEW e \in S, Len(s) \in 0 .. 2
    PROVE  /\ Append(s, e) \in SeqUpTo3(S)
           /\ Append(s, e) # << >>
           /\ Len(Append(s, e)) = Len(s) + 1
           /\ DOMAIN Append(s, e) = 1 .. Len(s) + 1
           /\ \A i \in 1 .. Len(s) : i \in DOMAIN s /\ Append(s, e)[i] = s[i]
           /\ Append(s, e)[Len(s) + 1] = e
  <1>1. PICK n \in 0 .. 3 : s \in [1 .. n -> S]
    BY DEF SeqUpTo3
  <1>2. s \in Seq(S) /\ Len(s) = n
    BY <1>1
  <1>3. /\ Append(s, e) \in Seq(S)
        /\ Append(s, e) # << >>
        /\ Len(Append(s, e)) = n + 1
        /\ \A i \in 1 .. n : Append(s, e)[i] = s[i]
        /\ Append(s, e)[n + 1] = e
    BY <1>2, AppendProperties
  <1>4. Append(s, e) \in [1 .. n + 1 -> S]
    BY <1>3, LenProperties
  <1>5. n + 1 \in 0 .. 3
    BY <1>2
  <1> QED BY <1>1, <1>2, <1>3, <1>4, <1>5 DEF SeqUpTo3

(* Once all is built every session is open; before that, none is.           *)
LEMMA AllBuilt ==
    /\ BuiltAfter(Len(Build)) = [s \in Sessions |-> "open"]
    /\ \A n \in 0 .. Len(Build) :
          BuiltAfter(n) \in [Sessions -> {"absent", "open", "closed"}]
  <1> DEFINE All == SubSeq(Build, 1, 9)
             Parts == {Build[i] : i \in 1 .. 9}
  <1>1. /\ Len(Build) = 9
        /\ Build[3] = "credential" /\ Build[4] = "table"
        /\ Build[5] = "blob" /\ Build[9] = "media"
    BY DEF Build
  <1>2. \A i \in 1 .. 9 : Build[i] \in Parts
    OBVIOUS
  <1>3. /\ All \in Seq(Parts) /\ Len(All) = 9
        /\ \A i \in 1 .. 9 : All[i] = Build[i]
    <2> HIDE DEF Parts
    <2> QED BY <1>2, SubSeqProperties
  <1>4. DOMAIN All = 1 .. 9
    BY <1>3, LenProperties
  <1>5. \A s \in Sessions : s \in ToSet(All)
    <2> HIDE DEF All
    <2>1. /\ All[3] = "credential" /\ All[4] = "table"
          /\ All[5] = "blob" /\ All[9] = "media"
      BY <1>1, <1>3
    <2> QED BY <1>4, <2>1 DEF Sessions, ToSet
  <1> QED BY <1>1, <1>5 DEF BuiltAfter

(* Where the proxies announce what they changed, the app puts together the  *)
(* URL that Twilio signed.                                                  *)
LEMMA UrlRestored == ASSUME path \in AllPaths, Announced PROVE PublicUrl = path.public
  <1>1. /\ path.public = [scheme |-> path.public.scheme, host |-> path.public.host]
        /\ path.url = [scheme |-> path.url.scheme, host |-> path.url.host]
        /\ path.public.scheme # ""
    BY DEF AllPaths, Urls, Schemes, Hosts
  <1>2. CASE path.proto = ""
    BY <1>1, <1>2 DEF Announced, PublicUrl
  <1>3. CASE path.proto # ""
    <2>1. /\ path.proto = path.public.scheme
          /\ (IF path.host # "" THEN path.host ELSE path.url.host) = path.public.host
      BY <1>3 DEF Announced
    <2> QED BY <1>1, <1>3, <2>1 DEF PublicUrl
  <1> QED BY <1>2, <1>3

LEMMA InitService == Init => ServiceInv
  <1> SUFFICES ASSUME Init PROVE ServiceInv
    OBVIOUS
  <1>1. session \in [Sessions -> {"absent", "open", "closed"}]
    BY AllBuilt DEF Init, Build
  <1>2. << >> \in SeqUpTo3(BOOLEAN) /\ << >> \in SeqUpTo3(Encounters)
    BY DEF SeqUpTo3
  <1>3. TypeOK
    BY <1>1, <1>2 DEF Init, TypeOK, SeqUpTo3, Phases, Labels, Signatures, TInit,
          TranscoderTypeOK, CallLabels, Outputs
  <1>4. PhaseInv
    BY DEF Init, PhaseInv, Serving, StopsClosed
  <1>5. ASSUME NEW c \in Calls PROVE WebhookInv(c) /\ ProcessInv(c)
    BY DEF Init, WebhookInv, ProcessInv, Ended, TInit, Requests
  <1>6. ASSUME NEW p \in Probes PROVE ProbeInv(p)
    <2>1. report[p] = << >> /\ met[p] = << >> /\ at[p] = "unsent"
      BY DEF Init, Requests
    <2>2. Truthful(p) /\ ~Strayed(p)
      BY <2>1 DEF Truthful, Strayed
    <2> QED BY <2>1, <2>2 DEF ProbeInv
  <1> QED BY <1>3, <1>4, <1>5, <1>6 DEF ServiceInv

------------------------------------------------------------------------------
(* The steps *)

(* The verdict on a webhook depends on its signature and on the way only.   *)
LEMMA ValidStays ==
    ASSUME NEW c \in Calls, path' = path, signature'[c] = signature[c]
    PROVE  Valid(c)' <=> Valid(c)
  BY DEF Valid, PublicUrl

(* A step of the lifespan leaves every request where it is.                 *)
LEMMA LifespanStep ==
    ASSUME ServiceInv, Starts \/ StartFails \/ Terminated \/ Drained \/ Closes
    PROVE  ServiceInv'
  <1>1. UNCHANGED <<exchange, tvars, settings, path>>
    BY DEF Starts, StartFails, Terminated, Drained, Closes
  <1>2. /\ phase' \in Phases
        /\ session' \in [Sessions -> {"absent", "open", "closed"}]
        /\ PhaseInv'
    <2>1. CASE Starts
      BY <1>1, <2>1, AllBuilt
         DEF Starts, ServiceInv, PhaseInv, StopsClosed, Phases, Serving, exchange
    <2>2. CASE StartFails
      <3>1. \A n \in 0 .. Len(Build) - 1 :
               BuiltAfter(n) \in [Sessions -> {"absent", "open", "closed"}]
        BY AllBuilt DEF Build
      <3> QED BY <1>1, <2>2, <3>1
              DEF StartFails, ServiceInv, PhaseInv, StopsClosed, Phases, Over, Serving, exchange
    <2>3. CASE Terminated
      BY <1>1, <2>3
         DEF Terminated, ServiceInv, TypeOK, PhaseInv, StopsClosed, Phases, Serving, exchange
    <2>4. CASE Drained
      BY <1>1, <2>4
         DEF Drained, ServiceInv, TypeOK, PhaseInv, StopsClosed, Phases, Serving, exchange
    <2>5. CASE Closes
      <3>1. PICK i \in DOMAIN CloseOrder :
              /\ session[CloseOrder[i]] = "open"
              /\ \A j \in 1 .. i - 1 : session[CloseOrder[j]] = "closed"
              /\ \/ /\ session' = [session EXCEPT ![CloseOrder[i]] = "closed"]
                    /\ phase' = IF i = Len(CloseOrder) THEN "stopped" ELSE phase
                 \/ phase' = "broken" /\ UNCHANGED session
        BY <2>5 DEF Closes
      <3>2. /\ i \in 1 .. 4 /\ Len(CloseOrder) = 4
            /\ CloseOrder[1] = "media" /\ CloseOrder[2] = "table"
            /\ CloseOrder[3] = "blob" /\ CloseOrder[4] = "credential"
        BY DEF CloseOrder
      <3>3. phase = "closing" /\ phase' \in {"closing", "stopped", "broken"}
        BY <2>5, <3>1 DEF Closes
      <3>4. session' \in [Sessions -> {"absent", "open", "closed"}]
        BY <3>1 DEF ServiceInv, TypeOK
      <3>5. StopsClosed'
        <4>1. CASE i = 4
          BY <3>1, <3>2, <3>3, <4>1 DEF StopsClosed, Sessions, ServiceInv, TypeOK
        <4>2. CASE i # 4
          BY <3>1, <3>2, <3>3, <4>2 DEF StopsClosed
        <4> QED BY <4>1, <4>2
      <3> QED BY <1>1, <3>3, <3>4, <3>5
              DEF ServiceInv, PhaseInv, Phases, Over, Serving, exchange
    <2> QED BY <2>1, <2>2, <2>3, <2>4, <2>5
  <1>3. TypeOK'
    BY <1>1, <1>2 DEF ServiceInv, TypeOK, TranscoderTypeOK, exchange, tvars
  <1>4. ASSUME NEW c \in Calls PROVE (WebhookInv(c) /\ ProcessInv(c))'
    <2>1. Valid(c)' <=> Valid(c)
      BY <1>1, ValidStays DEF exchange
    <2> QED BY <1>1, <2>1 DEF ServiceInv, WebhookInv, ProcessInv, exchange, tvars
  <1>5. ASSUME NEW p \in Probes PROVE ProbeInv(p)'
    BY <1>1 DEF ServiceInv, ProbeInv, Truthful, Strayed, exchange
  <1> QED BY <1>2, <1>3, <1>4, <1>5 DEF ServiceInv

(* A webhook's own step, its transcoding apart, changes only its own fields.*)
LEMMA WebhookMoves ==
    ASSUME ServiceInv, NEW d \in Calls, phase \in Serving,
           TypeOK', WebhookInv(d)',
           \A r \in Requests \ {d} : at'[r] = at[r] /\ status'[r] = status[r],
           \A c \in Calls \ {d} :
              signature'[c] = signature[c] /\ handled'[c] = handled[c],
           UNCHANGED <<lifecycle, report, met, tvars>>
    PROVE  ServiceInv'
  <1>1. PhaseInv'
    BY DEF ServiceInv, PhaseInv, StopsClosed, lifecycle, Serving
  <1>2. ASSUME NEW c \in Calls PROVE (WebhookInv(c) /\ ProcessInv(c))'
    <2>1. CASE c = d
      BY <2>1 DEF ServiceInv, ProcessInv, tvars
    <2>2. CASE c # d
      <3>1. Valid(c)' <=> Valid(c)
        BY <2>2, ValidStays DEF lifecycle
      <3> QED BY <2>2, <3>1 DEF ServiceInv, WebhookInv, ProcessInv, tvars, Requests
    <2> QED BY <2>1, <2>2
  <1>3. ASSUME NEW p \in Probes PROVE ProbeInv(p)'
    <2>1. p # d
      BY ProbesAssumption
    <2> QED BY <2>1 DEF ServiceInv, ProbeInv, Truthful, Strayed, Requests
  <1> QED BY <1>1, <1>2, <1>3 DEF ServiceInv

(* A webhook whose transcoding has moved on.                                *)
LEMMA CallMoves ==
    ASSUME ServiceInv, NEW d \in Calls, NEW label \in CallLabels,
           NEW state \in {"none", "running"} \cup Gone, NEW output \in Outputs,
           call' = [call EXCEPT ![d] = label],
           process' = [process EXCEPT ![d] = state],
           stdout' = [stdout EXCEPT ![d] = output],
           UNCHANGED <<lifecycle, exchange>>,
           state = "running" => label = "communicate",
           label = "communicate" => state # "none",
           label = "wait" => state \in Gone
    PROVE  ServiceInv'
  <1>1. TypeOK'
    BY DEF ServiceInv, TypeOK, TranscoderTypeOK, lifecycle, exchange
  <1>2. PhaseInv'
    BY DEF ServiceInv, PhaseInv, StopsClosed, lifecycle, exchange
  <1>3. ASSUME NEW c \in Calls PROVE (WebhookInv(c) /\ ProcessInv(c))'
    <2>1. WebhookInv(c)'
      <3>1. Valid(c)' <=> Valid(c)
        BY ValidStays DEF lifecycle, exchange
      <3> QED BY <3>1 DEF ServiceInv, WebhookInv, exchange
    <2>2. ProcessInv(c)'
      BY DEF ServiceInv, TypeOK, TranscoderTypeOK, ProcessInv
    <2> QED BY <2>1, <2>2
  <1>4. ASSUME NEW p \in Probes PROVE ProbeInv(p)'
    BY DEF ServiceInv, ProbeInv, Truthful, Strayed, exchange
  <1> QED BY <1>1, <1>2, <1>3, <1>4 DEF ServiceInv

(* So does a probe's.                                                       *)
LEMMA ProbeMoves ==
    ASSUME ServiceInv, NEW q \in Probes, phase \in Serving,
           TypeOK', ProbeInv(q)',
           \A r \in Requests \ {q} : at'[r] = at[r] /\ status'[r] = status[r],
           \A p \in Probes \ {q} : report'[p] = report[p] /\ met'[p] = met[p],
           UNCHANGED <<lifecycle, signature, handled, tvars>>
    PROVE  ServiceInv'
  <1>1. PhaseInv'
    BY DEF ServiceInv, PhaseInv, StopsClosed, lifecycle, Serving
  <1>2. ASSUME NEW c \in Calls PROVE (WebhookInv(c) /\ ProcessInv(c))'
    <2>1. c # q
      BY ProbesAssumption
    <2>2. Valid(c)' <=> Valid(c)
      BY ValidStays DEF lifecycle
    <2> QED BY <2>1, <2>2 DEF ServiceInv, WebhookInv, ProcessInv, tvars, Requests
  <1>3. ASSUME NEW p \in Probes PROVE ProbeInv(p)'
    <2>1. CASE p = q
      BY <2>1
    <2>2. CASE p # q
      BY <2>2 DEF ServiceInv, ProbeInv, Truthful, Strayed, Requests
    <2> QED BY <2>1, <2>2
  <1> QED BY <1>1, <1>2, <1>3 DEF ServiceInv

(* A webhook: received, read, judged, handled and answered.                 *)
LEMMA WebhookSteps ==
    ASSUME ServiceInv, NEW c \in Calls,
           Receive(c) \/ Disconnects(c) \/ ReadsForm(c) \/ HandlerEnds(c)
    PROVE  ServiceInv'
  <1> USE DEF Answer, AtGoto
  <1>1. c \in Requests /\ TypeOK /\ WebhookInv(c)
    BY DEF ServiceInv, Requests
  <1>2. phase \in Serving /\ UNCHANGED <<lifecycle, report, met, tvars>>
    BY DEF Receive, Disconnects, ReadsForm, HandlerEnds, Serving
  <1>3. /\ \A r \in Requests \ {c} : at'[r] = at[r] /\ status'[r] = status[r]
        /\ \A d \in Calls \ {c} :
              signature'[d] = signature[d] /\ handled'[d] = handled[d]
    BY <1>1 DEF Receive, Disconnects, ReadsForm, HandlerEnds, TypeOK
  <1>4. /\ at' \in [Requests -> Labels] /\ signature' \in [Calls -> Signatures]
        /\ handled' \in [Calls -> {"no", "returned", "raised"}]
        /\ status' \in [Requests -> {0, 200, 400, 401, 403, 500, 503}]
    <2> USE DEF TypeOK, Labels, Ended
    <2>1. CASE Receive(c)
      BY <1>1, <2>1 DEF Receive
    <2>2. CASE Disconnects(c)
      BY <1>1, <2>2 DEF Disconnects
    <2>3. CASE ReadsForm(c)
      BY <1>1, <2>3 DEF ReadsForm
    <2>4. CASE HandlerEnds(c)
      BY <1>1, <2>4 DEF HandlerEnds
    <2> QED BY <2>1, <2>2, <2>3, <2>4
  <1>5. TypeOK'
    BY <1>1, <1>2, <1>4 DEF TypeOK, TranscoderTypeOK, lifecycle, tvars
  <1>6. WebhookInv(c)'
    <2>1. CASE Receive(c)
      <3>1. /\ at'[c] \in {"form", "answered"} /\ handled'[c] = "no"
            /\ at'[c] = "answered" => signature'[c] = "missing" /\ status'[c] = 403
        BY <1>1, <2>1 DEF Receive, TypeOK, WebhookInv, Ended
      <3>2. signature'[c] = "missing" => ~Valid(c)'
        BY DEF Valid
      <3> QED BY <3>1, <3>2 DEF WebhookInv, Ended
    <2>2. CASE Disconnects(c)
      BY <1>1, <2>2 DEF Disconnects, WebhookInv, TypeOK, Ended
    <2>3. CASE ReadsForm(c)
      <3>1. Valid(c)' <=> Valid(c)
        BY <1>2, <2>3, ValidStays DEF ReadsForm, lifecycle
      <3>2. Valid(c) => signature[c] # "not_ascii"
        BY DEF Valid
      <3> QED BY <1>1, <2>3, <3>1, <3>2 DEF ReadsForm, WebhookInv, TypeOK, Ended
    <2>4. CASE HandlerEnds(c)
      <3>1. Valid(c)' <=> Valid(c)
        BY <1>2, <2>4, ValidStays DEF HandlerEnds, lifecycle
      <3> QED BY <1>1, <2>4, <3>1 DEF HandlerEnds, WebhookInv, TypeOK, Ended
    <2> QED BY <2>1, <2>2, <2>3, <2>4
  <1> QED BY <1>2, <1>3, <1>5, <1>6, WebhookMoves

(* The transcoding of a voice note, and ffmpeg's own end.                   *)
LEMMA TranscoderSteps ==
    ASSUME ServiceInv, NEW c \in Calls, Transcodes(c) \/ Transcoding(c) \/ Ffmpeg(c)
    PROVE  ServiceInv'
  <1>1. /\ call[c] \in CallLabels /\ stdout[c] \in Outputs
        /\ process[c] \in {"none", "running"} \cup Gone
        /\ ProcessInv(c)
        /\ call = [call EXCEPT ![c] = call[c]]
        /\ process = [process EXCEPT ![c] = process[c]]
        /\ stdout = [stdout EXCEPT ![c] = stdout[c]]
    BY DEF ServiceInv, TypeOK, TranscoderTypeOK
  <1>2. UNCHANGED <<lifecycle, exchange>>
    BY DEF Transcodes, Transcoding, Ffmpeg
  <1>3. ASSUME NEW label \in CallLabels, NEW state \in {"none", "running"} \cup Gone,
               NEW output \in Outputs,
               call' = [call EXCEPT ![c] = label],
               process' = [process EXCEPT ![c] = state],
               stdout' = [stdout EXCEPT ![c] = output],
               state = "running" => label = "communicate",
               label = "communicate" => state # "none",
               label = "wait" => state \in Gone
        PROVE  ServiceInv'
    BY <1>2, <1>3, CallMoves
  <1>4. CASE Spawn(c)
    <2>1. stdout' = [stdout EXCEPT ![c] = stdout[c]]
      BY <1>1, <1>4 DEF Spawn
    <2>2. CASE CallGoto(c, "communicate") /\ ProcessGoto(c, "running")
      BY <1>1, <1>3, <2>1, <2>2 DEF CallGoto, ProcessGoto, CallLabels, CallEnded
    <2>3. CASE CallGoto(c, "raised") /\ UNCHANGED process
      BY <1>1, <1>3, <1>4, <2>1, <2>3 DEF Spawn, CallGoto, CallLabels, CallEnded, ProcessInv
    <2> QED BY <1>4, <2>2, <2>3 DEF Spawn
  <1>5. CASE CommunicateReturns(c)
    <2>1. /\ process' = [process EXCEPT ![c] = process[c]] /\ process[c] \in Gone
          /\ stdout' = [stdout EXCEPT ![c] = stdout[c]]
          /\ \/ call' = [call EXCEPT ![c] = "returned"] /\ Sound(c)
             \/ call' = [call EXCEPT ![c] = "raised"]
      BY <1>1, <1>5 DEF CommunicateReturns, CallGoto
    <2> QED BY <1>1, <1>3, <2>1 DEF Sound, CallLabels, CallEnded, Gone, Exits
  <1>6. CASE Timeout(c)
    <2>1. stdout' = [stdout EXCEPT ![c] = stdout[c]]
      BY <1>1, <1>6 DEF Timeout
    <2>2. CASE process[c] = "running" /\ ProcessGoto(c, "killed") /\ CallGoto(c, "wait")
      BY <1>1, <1>3, <2>1, <2>2 DEF CallGoto, ProcessGoto, CallLabels, CallEnded, Gone, Exits
    <2>3. ASSUME process[c] \in Exits, UNCHANGED process,
                 NEW label \in {"wait", "raised"}, CallGoto(c, label)
          PROVE  ServiceInv'
      BY <1>1, <1>3, <2>1, <2>3 DEF CallGoto, CallLabels, CallEnded, Gone, Exits
    <2> QED BY <1>6, <2>2, <2>3 DEF Timeout
  <1>7. CASE WaitReturns(c)
    <2>1. /\ process' = [process EXCEPT ![c] = process[c]] /\ process[c] \in Gone
          /\ stdout' = [stdout EXCEPT ![c] = stdout[c]]
          /\ call' = [call EXCEPT ![c] = "raised"]
      BY <1>1, <1>7 DEF WaitReturns, CallGoto
    <2> QED BY <1>1, <1>3, <2>1 DEF CallLabels, CallEnded, Gone, Exits
  <1>8. CASE FfmpegExits(c)
    <2>1. PICK state \in Exits, output \in Outputs :
            /\ process' = [process EXCEPT ![c] = state]
            /\ stdout' = [stdout EXCEPT ![c] = output]
      BY <1>8 DEF FfmpegExits, ProcessGoto
    <2>2. call' = [call EXCEPT ![c] = call[c]] /\ call[c] = "communicate"
      BY <1>1, <1>8 DEF FfmpegExits, ProcessInv
    <2> QED BY <1>1, <1>3, <2>1, <2>2 DEF Gone, Exits
  <1> QED BY <1>4, <1>5, <1>6, <1>7, <1>8 DEF Transcodes, Transcoding, Ffmpeg, CallStep

(* A probe: judged, and its token fetched.                                  *)
LEMMA ProbeBegins ==
    ASSUME ServiceInv, NEW p \in Probes, ProbeArrives(p) \/ GetsToken(p)
    PROVE  ServiceInv'
  <1> USE DEF Answer, AtGoto
  <1>1. p \in Requests /\ TypeOK /\ ProbeInv(p)
    BY DEF ServiceInv, Requests
  <1>2. phase \in Serving /\ UNCHANGED <<lifecycle, signature, handled, report, met, tvars>>
    BY DEF ProbeArrives, GetsToken, Serving
  <1>3. PICK label \in {"token", "aoai", "answered"},
             code \in {0, 200, 400, 401, 403, 500, 503} :
          /\ at' = [at EXCEPT ![p] = label]
          /\ status' = [status EXCEPT ![p] = code]
    <2>1. status = [status EXCEPT ![p] = status[p]]
          /\ status[p] \in {0, 200, 400, 401, 403, 500, 503}
      BY <1>1 DEF TypeOK
    <2>2. CASE ProbeArrives(p)
      <3>1. PICK b \in Bearers :
              IF Verdict(b) # 200 THEN Answer(p, Verdict(b))
              ELSE AtGoto(p, IF settings.api_key THEN "aoai" ELSE "token")
                   /\ UNCHANGED status
        BY <2>2 DEF ProbeArrives
      <3>2. Verdict(b) \in {0, 200, 400, 401, 403, 500, 503}
        BY DEF Verdict
      <3> QED BY <2>1, <3>1, <3>2
    <2>3. CASE GetsToken(p)
      BY <2>1, <2>3 DEF GetsToken
    <2> QED BY <2>2, <2>3
  <1>4. TypeOK'
    <2>1. label \in Labels
      BY DEF Labels, Ended
    <2> QED BY <1>1, <1>2, <1>3, <2>1 DEF TypeOK, TranscoderTypeOK, lifecycle, tvars
  <1>5. ProbeInv(p)'
    <2>1. report[p] = << >> /\ met[p] = << >> /\ Truthful(p) /\ ~Strayed(p)
      BY <1>1 DEF ProbeArrives, GetsToken, ProbeInv
    <2>2. Truthful(p)' /\ ~Strayed(p)'
      BY <1>2, <2>1 DEF Truthful, Strayed
    <2> QED BY <1>1, <1>2, <1>3, <2>1, <2>2 DEF ProbeInv, TypeOK
  <1>6. /\ \A r \in Requests \ {p} : at'[r] = at[r] /\ status'[r] = status[r]
        /\ \A q \in Probes \ {p} : report'[q] = report[q] /\ met'[q] = met[q]
    BY <1>1, <1>2, <1>3 DEF TypeOK
  <1> QED BY <1>2, <1>4, <1>5, <1>6, ProbeMoves

(* A probe that pings has one entry for each ping behind it.                *)
LEMMA PingsBehind ==
    ASSUME ServiceInv, NEW p \in Probes, NEW i \in DOMAIN Pings, at[p] = Pings[i]
    PROVE  /\ i \in 1 .. 3
           /\ Len(met[p]) = i - 1 /\ Len(report[p]) = i - 1
           /\ Truthful(p) /\ ~Strayed(p)
           /\ met \in [Probes -> SeqUpTo3(Encounters)]
           /\ report \in [Probes -> SeqUpTo3(BOOLEAN)]
  <1>1. /\ DOMAIN Pings = 1 .. 3
        /\ Pings[1] = "aoai" /\ Pings[2] = "table" /\ Pings[3] = "blob"
    BY DEF Pings
  <1>2. ProbeInv(p) /\ Len(<< >>) = 0
    BY DEF ServiceInv
  <1>3. Truthful(p) /\ ~Strayed(p) /\ Len(report[p]) = Len(met[p])
    BY <1>1, <1>2 DEF ProbeInv, Truthful
  <1>4. Len(met[p]) = i - 1
    <2>1. CASE i = 1
      BY <1>1, <1>2, <2>1 DEF ProbeInv
    <2>2. CASE i = 2
      BY <1>1, <1>2, <2>2 DEF ProbeInv
    <2>3. CASE i = 3
      BY <1>1, <1>2, <2>3 DEF ProbeInv
    <2> QED BY <1>1, <2>1, <2>2, <2>3
  <1> QED BY <1>1, <1>3, <1>4 DEF ServiceInv, TypeOK, SeqUpTo3

(* Each ping in turn.                                                       *)
LEMMA PingSteps ==
    ASSUME ServiceInv, NEW p \in Probes, PingsService(p)
    PROVE  ServiceInv'
  <1> USE DEF Answer, AtGoto
  <1>1. p \in Requests /\ TypeOK /\ ProbeInv(p)
    BY DEF ServiceInv, Requests
  <1>2. phase \in Serving /\ UNCHANGED <<lifecycle, signature, handled, tvars>>
    BY DEF PingsService
  <1>3. PICK i \in DOMAIN Pings, m \in Encounters \ {"stray"} :
          /\ at[p] = Pings[i]
          /\ met' = [met EXCEPT ![p] = Append(met[p], m)]
          /\ report' = [report EXCEPT ![p] = Append(report[p], Ok(Pings[i], m))]
          /\ IF i = Len(Pings) THEN Answer(p, 200)
             ELSE AtGoto(p, Pings[i + 1]) /\ UNCHANGED status
    BY DEF PingsService
  <1>4. /\ i \in 1 .. 3 /\ Len(met[p]) = i - 1 /\ Len(report[p]) = i - 1
        /\ Truthful(p) /\ ~Strayed(p)
        /\ met \in [Probes -> SeqUpTo3(Encounters)]
        /\ report \in [Probes -> SeqUpTo3(BOOLEAN)]
    BY <1>3, PingsBehind
  <1>5. /\ met'[p] = Append(met[p], m) /\ report'[p] = Append(report[p], Ok(Pings[i], m))
        /\ Ok(Pings[i], m) \in BOOLEAN
    BY <1>3, <1>4 DEF Ok
  <1>6. /\ Append(met[p], m) \in SeqUpTo3(Encounters)
        /\ met'[p] # << >> /\ Len(met'[p]) = i /\ DOMAIN met'[p] = 1 .. i
        /\ \A j \in 1 .. i - 1 : j \in DOMAIN met[p] /\ met'[p][j] = met[p][j]
        /\ met'[p][i] = m
    <2>1. met[p] \in SeqUpTo3(Encounters) /\ Len(met[p]) \in 0 .. 2 /\ Len(met[p]) + 1 = i
      BY <1>4
    <2>2. /\ Append(met[p], m) \in SeqUpTo3(Encounters)
          /\ Append(met[p], m) # << >>
          /\ Len(Append(met[p], m)) = Len(met[p]) + 1
          /\ DOMAIN Append(met[p], m) = 1 .. Len(met[p]) + 1
          /\ \A j \in 1 .. Len(met[p]) :
                j \in DOMAIN met[p] /\ Append(met[p], m)[j] = met[p][j]
          /\ Append(met[p], m)[Len(met[p]) + 1] = m
      BY <2>1, OneMore
    <2> QED BY <1>4, <1>5, <2>1, <2>2
  <1>7. /\ Append(report[p], Ok(Pings[i], m)) \in SeqUpTo3(BOOLEAN)
        /\ Len(report'[p]) = i
        /\ \A j \in 1 .. i - 1 : report'[p][j] = report[p][j]
        /\ report'[p][i] = Ok(Pings[i], m)
    <2>1. report[p] \in SeqUpTo3(BOOLEAN) /\ Len(report[p]) \in 0 .. 2 /\ Len(report[p]) + 1 = i
      BY <1>4
    <2>2. /\ Append(report[p], Ok(Pings[i], m)) \in SeqUpTo3(BOOLEAN)
          /\ Len(Append(report[p], Ok(Pings[i], m))) = Len(report[p]) + 1
          /\ \A j \in 1 .. Len(report[p]) :
                Append(report[p], Ok(Pings[i], m))[j] = report[p][j]
          /\ Append(report[p], Ok(Pings[i], m))[Len(report[p]) + 1] = Ok(Pings[i], m)
      BY <1>5, <2>1, OneMore
    <2> QED BY <1>4, <1>5, <2>1, <2>2
  <1>8. Truthful(p)' /\ ~Strayed(p)'
    <2>1. ASSUME NEW j \in 1 .. i
          PROVE  /\ met'[p][j] # "stray"
                 /\ met'[p][j] = "served" => report'[p][j]
                 /\ met'[p][j] = "failed" => ~report'[p][j]
      <3>1. CASE j = i
        BY <1>6, <1>7, <3>1 DEF Ok
      <3>2. CASE j # i
        <4>1. j \in 1 .. i - 1
          BY <1>4, <3>2
        <4> QED BY <1>4, <1>6, <1>7, <4>1 DEF Truthful, Strayed
      <3> QED BY <3>1, <3>2
    <2> QED BY <1>6, <1>7, <2>1 DEF Truthful, Strayed
  <1>9. \/ /\ i = 3 /\ at' = [at EXCEPT ![p] = "answered"]
           /\ status' = [status EXCEPT ![p] = 200]
        \/ i = 2 /\ at' = [at EXCEPT ![p] = "blob"] /\ UNCHANGED status
        \/ i = 1 /\ at' = [at EXCEPT ![p] = "table"] /\ UNCHANGED status
    <2>1. Len(Pings) = 3 /\ Pings[2] = "table" /\ Pings[3] = "blob"
      BY DEF Pings
    <2> QED BY <1>3, <1>4, <2>1
  <1>10. TypeOK'
    <2>1. /\ at' \in [Requests -> Labels]
          /\ status' \in [Requests -> {0, 200, 400, 401, 403, 500, 503}]
      <3>1. PICK label \in {"table", "blob", "answered"} : at' = [at EXCEPT ![p] = label]
        BY <1>9
      <3>2. status' \in [Requests -> {0, 200, 400, 401, 403, 500, 503}]
        BY <1>1, <1>9 DEF TypeOK
      <3> QED BY <1>1, <3>1, <3>2 DEF TypeOK, Labels, Ended
    <2>2. /\ met' \in [Probes -> SeqUpTo3(Encounters)]
          /\ report' \in [Probes -> SeqUpTo3(BOOLEAN)]
      BY <1>3, <1>4, <1>6, <1>7
    <2> QED BY <1>1, <1>2, <2>1, <2>2
            DEF TypeOK, TranscoderTypeOK, SeqUpTo3, lifecycle, tvars
  <1>11. ProbeInv(p)'
    <2>1. Len(Pings) = 3
      BY DEF Pings
    <2> QED BY <1>1, <1>6, <1>7, <1>8, <1>9, <2>1 DEF ProbeInv, TypeOK
  <1>12. /\ \A r \in Requests \ {p} : at'[r] = at[r] /\ status'[r] = status[r]
         /\ \A q \in Probes \ {p} : report'[q] = report[q] /\ met'[q] = met[q]
    BY <1>1, <1>3, <1>9 DEF TypeOK
  <1> QED BY <1>2, <1>10, <1>11, <1>12, ProbeMoves

(* An exception that the pings let through.                                 *)
LEMMA StrayStep ==
    ASSUME ServiceInv, NEW p \in Probes, PingStrays(p)
    PROVE  ServiceInv'
  <1> USE DEF Answer, AtGoto
  <1>1. p \in Requests /\ TypeOK /\ ProbeInv(p)
    BY DEF ServiceInv, Requests
  <1>2. phase \in Serving /\ UNCHANGED <<lifecycle, signature, handled, report, tvars>>
    BY DEF PingStrays
  <1>3. PICK i \in DOMAIN Pings : at[p] = Pings[i]
    BY DEF PingStrays, ToSet
  <1>4. /\ i \in 1 .. 3 /\ Len(met[p]) = i - 1
        /\ met \in [Probes -> SeqUpTo3(Encounters)]
    BY <1>3, PingsBehind
  <1>5. /\ met' = [met EXCEPT ![p] = Append(met[p], "stray")]
        /\ at' = [at EXCEPT ![p] = "answered"]
        /\ status' = [status EXCEPT ![p] = 500]
    BY DEF PingStrays
  <1>6. /\ Append(met[p], "stray") \in SeqUpTo3(Encounters)
        /\ i \in DOMAIN met'[p] /\ met'[p][i] = "stray"
    <2>1. met[p] \in SeqUpTo3(Encounters) /\ Len(met[p]) \in 0 .. 2 /\ Len(met[p]) + 1 = i
      BY <1>4
    <2>2. "stray" \in Encounters /\ met'[p] = Append(met[p], "stray")
      BY <1>4, <1>5 DEF Encounters
    <2>3. /\ Append(met[p], "stray") \in SeqUpTo3(Encounters)
          /\ DOMAIN Append(met[p], "stray") = 1 .. Len(met[p]) + 1
          /\ Append(met[p], "stray")[Len(met[p]) + 1] = "stray"
      <3> HIDE DEF SeqUpTo3
      <3> QED BY <2>1, <2>2, OneMore
    <2> QED BY <1>4, <2>1, <2>2, <2>3
  <1>7. TypeOK'
    <2>1. /\ at' \in [Requests -> Labels]
          /\ status' \in [Requests -> {0, 200, 400, 401, 403, 500, 503}]
          /\ met' \in [Probes -> SeqUpTo3(Encounters)]
      BY <1>1, <1>4, <1>5, <1>6 DEF TypeOK, Labels, Ended
    <2> QED BY <1>1, <1>2, <2>1 DEF TypeOK, TranscoderTypeOK, SeqUpTo3, lifecycle, tvars
  <1>8. ProbeInv(p)'
    <2>1. at'[p] = "answered" /\ status'[p] = 500 /\ Strayed(p)'
      BY <1>1, <1>5, <1>6 DEF TypeOK, Strayed
    <2> QED BY <2>1 DEF ProbeInv
  <1>9. /\ \A r \in Requests \ {p} : at'[r] = at[r] /\ status'[r] = status[r]
        /\ \A q \in Probes \ {p} : report'[q] = report[q] /\ met'[q] = met[q]
    BY <1>1, <1>2, <1>5 DEF TypeOK
  <1> QED BY <1>2, <1>7, <1>8, <1>9, ProbeMoves

LEMMA StutterService == ServiceInv /\ UNCHANGED vars => ServiceInv'
  <1> SUFFICES ASSUME ServiceInv, UNCHANGED <<lifecycle, exchange, tvars>> PROVE ServiceInv'
    BY DEF vars
  <1>1. TypeOK'
    BY DEF ServiceInv, TypeOK, TranscoderTypeOK, lifecycle, exchange, tvars
  <1>2. PhaseInv'
    BY DEF ServiceInv, PhaseInv, StopsClosed, lifecycle, exchange
  <1>3. ASSUME NEW c \in Calls PROVE (WebhookInv(c) /\ ProcessInv(c))'
    <2>1. Valid(c)' <=> Valid(c)
      BY ValidStays DEF lifecycle, exchange
    <2> QED BY <2>1 DEF ServiceInv, WebhookInv, ProcessInv, exchange, tvars
  <1>4. ASSUME NEW p \in Probes PROVE ProbeInv(p)'
    BY DEF ServiceInv, ProbeInv, Truthful, Strayed, exchange
  <1> QED BY <1>1, <1>2, <1>3, <1>4 DEF ServiceInv

(* ServiceInv holds in every reachable state.                               *)
LEMMA ServiceInvariant == Spec => []ServiceInv
  <1>1. ServiceInv /\ [Next]_vars => ServiceInv'
    <2> SUFFICES ASSUME ServiceInv, [Next]_vars PROVE ServiceInv'
      OBVIOUS
    <2>1. CASE Starts \/ StartFails \/ Terminated \/ Drained \/ Closes
      BY <2>1, LifespanStep
    <2>2. ASSUME NEW c \in Calls, Receive(c) \/ WebhookStep(c) \/ Ffmpeg(c)
          PROVE  ServiceInv'
      BY <2>2, WebhookSteps, TranscoderSteps DEF WebhookStep
    <2>3. ASSUME NEW p \in Probes, ProbeArrives(p) \/ ProbeStep(p) PROVE ServiceInv'
      BY <2>3, ProbeBegins, PingSteps, StrayStep DEF ProbeStep
    <2>4. CASE UNCHANGED vars
      BY <2>4, StutterService
    <2> QED BY <2>1, <2>2, <2>3, <2>4 DEF Next
  <1> QED BY <1>1, InitService, PTL DEF Spec

------------------------------------------------------------------------------
(* The properties *)

(* Every variable keeps its type, and a report never has a fourth ping.     *)
THEOREM ServiceTypes == Spec => []TypeOK
  <1>1. ServiceInv => TypeOK
    BY DEF ServiceInv
  <1> QED BY <1>1, ServiceInvariant, PTL

(* No await of a request is on a client that is absent or closed: startup   *)
(* opens all before the first request, and shutdown waits for the last.     *)
THEOREM ClientsOutliveRequests == Spec => []NoUseAfterClose
  <1>1. ServiceInv => NoUseAfterClose
    <2> SUFFICES ASSUME ServiceInv, NEW r \in Requests, NEW s \in Uses(r)
                 PROVE  session[s] = "open"
      BY DEF NoUseAfterClose
    <2>1. at[r] \in {"handler", "token", "table", "blob"} /\ s \in Sessions
      BY DEF Uses, Sessions
    <2> QED BY <2>1 DEF ServiceInv, PhaseInv, Ended
  <1> QED BY <1>1, ServiceInvariant, PTL

(* A shutdown that comes to its end has closed every session.               *)
THEOREM ShutdownCloses == Spec => []StopsClosed
  <1>1. ServiceInv => StopsClosed
    BY DEF ServiceInv, PhaseInv
  <1> QED BY <1>1, ServiceInvariant, PTL

(* Twilio is asked to retry exactly what was not handled.                   *)
THEOREM AnswersMatch == Spec => []AnswerMatchesHandling
  <1>1. ServiceInv => AnswerMatchesHandling
    BY DEF ServiceInv, WebhookInv, AnswerMatchesHandling
  <1> QED BY <1>1, ServiceInvariant, PTL

(* On every way from Twilio to the app, what Twilio signed is taken where   *)
(* the proxies announce what they changed, and kept from the handler where  *)
(* the URL was changed and no X-Forwarded-Proto says so.                    *)
THEOREM SignatureJudged == Spec => []GenuineVerdict
  <1>1. ServiceInv => GenuineVerdict
    <2> SUFFICES ASSUME ServiceInv, NEW c \in Calls,
                        at[c] = "answered", signature[c] = "twilio"
                 PROVE  /\ Announced => status[c] # 403
                        /\ path.url # path.public /\ path.proto = "" => handled[c] = "no"
      BY DEF GenuineVerdict
    <2>1. path \in AllPaths /\ WebhookInv(c)
      BY PathsAssumption DEF ServiceInv, TypeOK
    <2>2. Announced => Valid(c)
      BY <2>1, UrlRestored DEF Valid
    <2>3. path.url # path.public /\ path.proto = "" => ~Valid(c)
      BY DEF Valid, PublicUrl
    <2> QED BY <2>1, <2>2, <2>3 DEF WebhookInv
  <1> QED BY <1>1, ServiceInvariant, PTL

(* A probe that has begun to ping answers with three true verdicts, or, if  *)
(* a ping raised what nobody catches, fails.                                *)
THEOREM ReportsComplete == Spec => []OutagesReported
  <1>1. ServiceInv => OutagesReported
    BY DEF ServiceInv, ProbeInv, OutagesReported
  <1> QED BY <1>1, ServiceInvariant, PTL

(* However timeouts and exits race, a call that has ended leaves no process *)
(* behind.                                                                  *)
THEOREM ProcessesEnd == Spec => []NoProcessLeft
  <1>1. ServiceInv => NoProcessLeft
    BY DEF ServiceInv, ProcessInv, NoProcessLeft, CallEnded
  <1> QED BY <1>1, ServiceInvariant, PTL
=============================================================================
