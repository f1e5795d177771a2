------------------------------ MODULE Service --------------------------------
(***************************************************************************)
(* One process of the service: main.py's lifespan, the webhook route with  *)
(* the signature dependency of twilio_signing.py before it, and diag.py.   *)
(* uvicorn starts the lifespan, takes requests, and on SIGTERM takes no    *)
(* more, waits for those under way, and ends the lifespan.  A kill of the  *)
(* process is a behaviour that goes no further.                            *)
(*                                                                         *)
(* A webhook that reaches the handler may transcode (module Transcoder);   *)
(* what else the handler does is the subject of module Handler.            *)
(***************************************************************************)
EXTENDS Transcoder, Naturals, SequencesExt

CONSTANTS
    Probes,    \* requests of /diag; the webhooks are Calls
    Paths      \* the ways from Twilio to the app that are considered

\* One way: the URL Twilio posts to and signs, the URL the app sees, and the
\* X-Forwarded-Proto and X-Forwarded-Host it sees, "" if there is none.
Schemes == {"http", "https"}
Hosts == {"outer", "inner"}
Urls == [scheme : Schemes, host : Hosts]
AllPaths ==
    [public : Urls, url : Urls,
     proto : {""} \cup Schemes, host : {""} \cup Hosts]

ASSUME ProbesAssumption == Probes \cap Calls = {}
ASSUME PathsAssumption == Paths \subseteq AllPaths

Requests == Calls \cup Probes

VARIABLES
    settings,   \* which of the optional settings are given
    path,       \* how Twilio's posts get here, in this deployment
    phase,      \* of the process
    session,    \* the shared clients
    at,         \* the await each request is suspended at
    signature,  \* what a webhook is signed with
    handled,    \* how its handler ended
    report,     \* the results of a probe's pings: the ok of each
    met,        \* what each ping met: no variable of the code
    status      \* the HTTP status answered

lifecycle == <<settings, path, phase, session>>
exchange == <<at, signature, handled, report, met, status>>
vars == <<lifecycle, exchange, tvars>>

Serving == {"serving", "draining"}
Over == {"stopped", "broken", "failed"}
Phases == {"starting", "closing"} \cup Serving \cup Over
Ended == {"answered", "gone"}
Labels == {"unsent", "form", "handler", "token", "aoai", "table", "blob"} \cup Ended

------------------------------------------------------------------------------
(* The lifespan *)

\* What is built, in order; each may raise.  Four of them are sessions.
Build == <<"settings", "observability", "credential", "table", "blob",
           "container", "aoai", "twilio", "media">>

\* Variant: the credential is not closed.
CloseOrderShort == <<"media", "table", "blob">>

CloseOrder == <<"media", "table", "blob", "credential">>

Sessions == {"credential", "table", "blob", "media"}

BuiltAfter(n) ==
    [s \in Sessions |->
        IF s \in ToSet(SubSeq(Build, 1, n)) THEN "open" ELSE "absent"]

Signatures == {"missing", "not_ascii", "foreign", "twilio"}

Init ==
    /\ settings \in [diag_token : BOOLEAN, api_key : BOOLEAN]
    /\ path \in Paths
    /\ phase = "starting"
    /\ session = BuiltAfter(0)
    /\ at = [r \in Requests |-> "unsent"]
    /\ signature = [c \in Calls |-> "missing"]
    /\ handled = [c \in Calls |-> "no"]
    /\ report = [p \in Probes |-> << >>]
    /\ met = [p \in Probes |-> << >>]
    /\ status = [r \in Requests |-> 0]
    /\ TInit

\* Variant: a client that cannot be built is done without.
StartsAnyhow ==
    /\ phase = "starting" /\ phase' = "serving"
    /\ \E n \in 2 .. Len(Build) : session' = BuiltAfter(n)
    /\ UNCHANGED <<settings, path, exchange, tvars>>

Starts ==
    /\ phase = "starting" /\ phase' = "serving"
    /\ session' = BuiltAfter(Len(Build))
    /\ UNCHANGED <<settings, path, exchange, tvars>>

\* Everything before the try: what was built stays as it is.
StartFails ==
    /\ phase = "starting" /\ phase' = "failed"
    /\ \E n \in 0 .. Len(Build) - 1 : session' = BuiltAfter(n)
    /\ UNCHANGED <<settings, path, exchange, tvars>>

Terminated ==
    /\ phase = "serving" /\ phase' = "draining"
    /\ UNCHANGED <<settings, path, session, exchange, tvars>>

Drained ==
    /\ phase = "draining" /\ phase' = "closing"
    /\ \A r \in Requests : at[r] \in {"unsent"} \cup Ended
    /\ UNCHANGED <<settings, path, session, exchange, tvars>>

\* The finally block: one close after the other, and an exception of one ends it.
Closes ==
    /\ phase = "closing"
    /\ \E i \in DOMAIN CloseOrder :
        /\ session[CloseOrder[i]] = "open"
        /\ \A j \in 1 .. i - 1 : session[CloseOrder[j]] = "closed"
        /\ \/ /\ session' = [session EXCEPT ![CloseOrder[i]] = "closed"]
              /\ phase' = IF i = Len(CloseOrder) THEN "stopped" ELSE phase
           \/ phase' = "broken" /\ UNCHANGED session
    /\ UNCHANGED <<settings, path, exchange, tvars>>

------------------------------------------------------------------------------
(* The webhook *)

\* Variant: X-Forwarded-Host is ignored.
PublicUrlByHost ==
    IF path.proto = "" THEN path.url
    ELSE [scheme |-> path.proto, host |-> path.url.host]

\* _reconstruct_public_url.
PublicUrl ==
    IF path.proto = "" THEN path.url
    ELSE [scheme |-> path.proto,
          host |-> IF path.host # "" THEN path.host ELSE path.url.host]

Valid(c) == signature[c] = "twilio" /\ PublicUrl = path.public

AtGoto(r, label) == at' = [at EXCEPT ![r] = label]

Answer(r, code) ==
    AtGoto(r, "answered") /\ status' = [status EXCEPT ![r] = code]

Receive(c) ==
    /\ phase = "serving" /\ at[c] = "unsent"
    /\ \E s \in Signatures :
        /\ signature' = [signature EXCEPT ![c] = s]
        /\ IF s = "missing" THEN Answer(c, 403)
           ELSE AtGoto(c, "form") /\ UNCHANGED status
    /\ UNCHANGED <<lifecycle, handled, report, met, tvars>>

\* ClientDisconnect, answered to nobody.
Disconnects(c) ==
    /\ phase \in Serving /\ at[c] = "form"
    /\ AtGoto(c, "gone") /\ status' = [status EXCEPT ![c] = 200]
    /\ UNCHANGED <<lifecycle, signature, handled, report, met, tvars>>

\* The form, then the signature; a body that is no form is answered with 400.
ReadsForm(c) ==
    /\ phase \in Serving /\ at[c] = "form"
    /\ \/ Answer(c, 400)
       \/ signature[c] = "not_ascii" /\ Answer(c, 500)
       \/ signature[c] # "not_ascii"
             /\ IF Valid(c) THEN AtGoto(c, "handler") /\ UNCHANGED status
                ELSE Answer(c, 403)
    /\ UNCHANGED <<lifecycle, signature, handled, report, met, tvars>>

\* The handler of a voice note.
Transcodes(c) ==
    /\ phase \in Serving /\ at[c] = "handler"
    /\ Spawn(c)
    /\ UNCHANGED <<lifecycle, exchange>>

\* Variant: only the client's own errors are caught.
HandlerEndsUncaught(c) ==
    /\ phase \in Serving /\ at[c] = "handler"
    /\ call[c] \in {"idle"} \cup CallEnded
    /\ \E outcome \in {"returned", "raised"} :
        /\ call[c] = "raised" => outcome = "raised"
        /\ handled' = [handled EXCEPT ![c] = outcome]
        /\ Answer(c, IF outcome = "raised" THEN 500 ELSE 200)
    /\ UNCHANGED <<lifecycle, signature, report, met, tvars>>

\* Whatever the handler raises, the transcoder's errors included, is logged.
HandlerEnds(c) ==
    /\ phase \in Serving /\ at[c] = "handler"
    /\ call[c] \in {"idle"} \cup CallEnded
    /\ \E outcome \in {"returned", "raised"} :
        /\ call[c] = "raised" => outcome = "raised"
        /\ handled' = [handled EXCEPT ![c] = outcome]
    /\ Answer(c, 200)
    /\ UNCHANGED <<lifecycle, signature, report, met, tvars>>

------------------------------------------------------------------------------
(* The diagnostics endpoint *)

Bearers == {"missing", "not_ascii", "wrong", "right"}

\* _verify_bearer: the refusal, or 200.
Verdict(bearer) ==
    IF ~settings.diag_token THEN 503
    ELSE IF bearer = "right" THEN 200
    ELSE IF bearer = "not_ascii" THEN 500
    ELSE 401

ProbeArrives(p) ==
    /\ phase = "serving" /\ at[p] = "unsent"
    /\ \E b \in Bearers :
        IF Verdict(b) # 200 THEN Answer(p, Verdict(b))
        ELSE AtGoto(p, IF settings.api_key THEN "aoai" ELSE "token") /\ UNCHANGED status
    /\ UNCHANGED <<lifecycle, signature, handled, report, met, tvars>>

\* credential.get_token, whose errors nobody catches.
GetsToken(p) ==
    /\ phase \in Serving /\ at[p] = "token"
    /\ \/ AtGoto(p, "aoai") /\ UNCHANGED status
       \/ Answer(p, 500)
    /\ UNCHANGED <<lifecycle, signature, handled, report, met, tvars>>

Pings == <<"aoai", "table", "blob">>

\* An answer below 400, one of 400 to 499, an outage (500 and above, or no
\* answer); or an exception that is neither an httpx.HTTPError nor an AzureError.
Encounters == {"served", "refused", "failed", "stray"}

\* The ok of a ping: the model endpoint need only answer, the storage clients
\* raise an AzureError for a refusal.
Ok(ping, m) == m = "served" \/ (m = "refused" /\ ping = "aoai")

\* Variant: a ping is repeated until it succeeds.
PingsUntilOk(p) ==
    /\ phase \in Serving
    /\ \E i \in DOMAIN Pings, m \in Encounters \ {"stray"} :
        /\ at[p] = Pings[i]
        /\ met' = [met EXCEPT ![p] = Append(@, m)]
        /\ report' = [report EXCEPT ![p] = Append(@, Ok(Pings[i], m))]
        /\ IF ~Ok(Pings[i], m) THEN UNCHANGED <<at, status>>
           ELSE IF i = Len(Pings) THEN Answer(p, 200)
           ELSE AtGoto(p, Pings[i + 1]) /\ UNCHANGED status
    /\ UNCHANGED <<lifecycle, signature, handled, tvars>>

\* Variant: the storage clients' errors are not caught.
PingsRaising(p) ==
    /\ phase \in Serving
    /\ \E i \in DOMAIN Pings, m \in Encounters \ {"stray"} :
        /\ at[p] = Pings[i]
        /\ met' = [met EXCEPT ![p] = Append(@, m)]
        /\ report' = [report EXCEPT ![p] = Append(@, Ok(Pings[i], m))]
        /\ IF ~Ok(Pings[i], m) /\ i > 1 THEN Answer(p, 500)
           ELSE IF i = Len(Pings) THEN Answer(p, 200)
           ELSE AtGoto(p, Pings[i + 1]) /\ UNCHANGED status
    /\ UNCHANGED <<lifecycle, signature, handled, tvars>>

\* ping_aoai, ping_table, ping_blob: an outage is a result like any other.
PingsService(p) ==
    /\ phase \in Serving
    /\ \E i \in DOMAIN Pings, m \in Encounters \ {"stray"} :
        /\ at[p] = Pings[i]
        /\ met' = [met EXCEPT ![p] = Append(@, m)]
        /\ report' = [report EXCEPT ![p] = Append(@, Ok(Pings[i], m))]
        /\ IF i = Len(Pings) THEN Answer(p, 200)
           ELSE AtGoto(p, Pings[i + 1]) /\ UNCHANGED status
    /\ UNCHANGED <<lifecycle, signature, handled, tvars>>

\* Any other exception of a ping ends the request: nobody catches it.
PingStrays(p) ==
    /\ phase \in Serving /\ at[p] \in ToSet(Pings)
    /\ met' = [met EXCEPT ![p] = Append(@, "stray")]
    /\ Answer(p, 500)
    /\ UNCHANGED <<lifecycle, signature, handled, report, tvars>>

------------------------------------------------------------------------------

Ffmpeg(c) == phase \in Serving /\ FfmpegExits(c) /\ UNCHANGED <<lifecycle, exchange>>

Transcoding(c) == phase \in Serving /\ CallStep(c) /\ UNCHANGED <<lifecycle, exchange>>

WebhookStep(c) ==
    \/ Disconnects(c) \/ ReadsForm(c) \/ Transcodes(c) \/ HandlerEnds(c)
    \/ Transcoding(c)
ProbeStep(p) == GetsToken(p) \/ PingsService(p) \/ PingStrays(p)

Next ==
    \/ Starts \/ StartFails \/ Terminated \/ Drained \/ Closes
    \/ \E c \in Calls : Receive(c) \/ WebhookStep(c) \/ Ffmpeg(c)
    \/ \E p \in Probes : ProbeArrives(p) \/ ProbeStep(p)
    \/ phase \in Over /\ UNCHANGED vars

Spec == Init /\ [][Next]_vars

\* The event loop resumes every request whose call has come back, and every
\* call comes back: transcode_to_wav and the clients' calls by their timers.
\* request.form() has none: that the body arrives or the connection ends is up
\* to the client and the ingress before the app.
FairSpec ==
    /\ Spec
    /\ \A c \in Calls : WF_vars(WebhookStep(c))
    /\ \A p \in Probes : WF_vars(ProbeStep(p))
    /\ WF_vars(Drained) /\ WF_vars(Closes)

------------------------------------------------------------------------------
(* Correctness *)

TypeOK ==
    /\ settings \in [diag_token : BOOLEAN, api_key : BOOLEAN]
    /\ phase \in Phases
    /\ session \in [Sessions -> {"absent", "open", "closed"}]
    /\ at \in [Requests -> Labels]
    /\ path \in Paths
    /\ signature \in [Calls -> Signatures]
    /\ handled \in [Calls -> {"no", "returned", "raised"}]
    /\ report \in [Probes -> UNION {[1 .. n -> BOOLEAN] : n \in 0 .. 3}]
    /\ met \in [Probes -> UNION {[1 .. n -> Encounters] : n \in 0 .. 3}]
    /\ status \in [Requests -> {0, 200, 400, 401, 403, 500, 503}]
    /\ TranscoderTypeOK

\* The shared clients the await of a request is on; those of the table and the
\* container use the credential.
Uses(r) ==
    CASE at[r] = "handler" -> Sessions
      [] at[r] = "token" -> {"credential"}
      [] at[r] \in {"table", "blob"} -> {"credential", at[r]}
      [] OTHER -> {}

(* No request ever finds a client missing or closed, however startup fails  *)
(* and shutdown runs into requests under way.                               *)
NoUseAfterClose ==
    \A r \in Requests : \A s \in Uses(r) : session[s] = "open"

(* Unless a close raises, a process that stops has closed every session.    *)
StopsClosed == phase = "stopped" => \A s \in Sessions : session[s] = "closed"

(* Twilio is told to come again exactly if the handler did not run: not for *)
(* what the handler may have done already, whatever it raised.              *)
AnswerMatchesHandling ==
    \A c \in Calls :
        at[c] = "answered" => (status[c] = 200 <=> handled[c] # "no")

\* The proxies on the way say what they changed, and nothing false.
Announced ==
    /\ path.proto \in {"", path.public.scheme} /\ path.host \in {"", path.public.host}
    /\ path.url # path.public => path.proto # ""
    /\ path.url.host # path.public.host => path.host # ""

(* A webhook that Twilio signed is not refused as forged where the proxies  *)
(* on its way announce what they made of its URL; where one changed the URL *)
(* and sent no X-Forwarded-Proto, it never gets to the handler.             *)
GenuineVerdict ==
    \A c \in Calls :
        at[c] = "answered" /\ signature[c] = "twilio" =>
            /\ Announced => status[c] # 403
            /\ path.url # path.public /\ path.proto = "" => handled[c] = "no"

Strayed(p) == \E i \in DOMAIN met[p] : met[p][i] = "stray"

\* The report so far says up of what served, and down of what failed.
Truthful(p) ==
    /\ Len(report[p]) = Len(met[p])
    /\ \A i \in DOMAIN met[p] :
        /\ met[p][i] = "served" => report[p][i]
        /\ met[p][i] = "failed" => ~report[p][i]

(* Once a probe has begun to ping, outages and refusals never keep it from  *)
(* its report: it answers with three verdicts, each true of what that ping  *)
(* met, unless a ping raised what the endpoint does not catch; then it      *)
(* fails, and passes no partial report off as one.                          *)
OutagesReported ==
    \A p \in Probes :
        at[p] = "answered" /\ met[p] # << >> =>
            /\ status[p] = 200 <=> ~Strayed(p)
            /\ status[p] = 200 => Len(report[p]) = Len(Pings) /\ Truthful(p)

(* Shutdown comes to an end even if a request waits for an ffmpeg that hangs.*)
ShutdownEnds == phase = "draining" ~> phase \in Over

(* main.py: "Cleanup happens in a finally block so a partial-startup        *)
(* failure still releases whatever sessions were opened before the failure".*)
PartialStartReleases == phase = "failed" => \A s \in Sessions : session[s] # "open"
=============================================================================
