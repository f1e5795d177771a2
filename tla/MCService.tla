------------------------------ MODULE MCService ------------------------------
(* Service for TLC: the ways from Twilio to the app that lead the           *)
(* reconstruction of the public URL through each of its branches.           *)
EXTENDS Service

\* The Container Apps ingress ends TLS and says so.
MCIngress ==
    [public |-> [scheme |-> "https", host |-> "outer"],
     url |-> [scheme |-> "http", host |-> "outer"],
     proto |-> "https", host |-> ""]

\* A proxy with a host name of its own, which announces scheme and host.
MCNamingProxy == [MCIngress EXCEPT !.url.host = "inner", !.host = "outer"]

\* It sends X-Forwarded-Proto only, X-Forwarded-Host only, or neither.
MCProtoOnly == [MCNamingProxy EXCEPT !.host = ""]
MCHostOnly == [MCNamingProxy EXCEPT !.proto = ""]
MCBareProxy == [MCIngress EXCEPT !.proto = ""]

MCPaths == {MCIngress, MCNamingProxy, MCProtoOnly, MCHostOnly, MCBareProxy}
=============================================================================
