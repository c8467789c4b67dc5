-------------------------------- MODULE Proxy --------------------------------
(***************************************************************************)
(* One HTTP request on its way through handle_request (tunnel.rs) and      *)
(* proxy_request (proxy.rs): it is rewritten for the local application,    *)
(* sent by reqwest, which follows redirects by default, and answered, by   *)
(* the application's response or by a synthetic 400, 502 or 504.           *)
(*                                                                         *)
(* A header value is "own" (the sender's) or "rewritten" ("gzip, deflate"  *)
(* for Accept-Encoding). An error of reqwest is the set of its predicates  *)
(* that hold (is_connect, is_timeout). The methods are one of each kind.   *)
(***************************************************************************)
EXTENDS Integers, Sequences, FiniteSetsExt

CONSTANTS
  Names,         \* the headers a browser may send
  Replies,       \* what an HTTP server may answer, see Reply below
  MaxRedirects   \* the redirects reqwest follows, 10 by default

\* One response: any status, where its Location leads, and its header lines.
Reply == [status : 100..999, to : {"nowhere", "app", "elsewhere"},
          lines : Seq(STRING \X STRING)]

ASSUME ProxyAssumption == Replies \subseteq Reply /\ MaxRedirects \in Nat

VARIABLES
  request,   \* what the Worker sent
  stage,     \* "idle", "new", "sending", "waiting", "reading" or "answered"
  hop,       \* the request reqwest has in hand
  visits,    \* the requests a server received, in order
  reply,     \* the last response
  mishap,    \* history: what went wrong, "unreachable", "late" or "broken"
  answer     \* the LocalResponse

proxyVars == <<request, stage, hop, visits, reply, mishap, answer>>

Methods == {"GET", "HEAD", "POST"}
Bodies == {"none", "bytes"}
Request == [url : {"good", "bad"}, method : Methods \cup {"unsupported"},
            headers : UNION {[S -> {"own"}] : S \in SUBSET Names},
            body : Bodies \cup {"undecodable"}]
Hop == [to : {"app", "elsewhere"}, method : Methods, body : Bodies,
        headers : UNION {[S -> {"own", "rewritten"}] : S \in SUBSET (Names \cup {"accept-encoding"})}]

NoHop == [to |-> "app", method |-> "GET", body |-> "none", headers |-> <<>>]
NoReply == [status |-> 0, to |-> "nowhere", lines |-> <<>>]
Pending == [by |-> "nobody", status |-> 0, headers |-> <<>>]

ProxyInit ==
  /\ request \in Request /\ stage = "new" /\ hop = NoHop
  /\ visits = <<>> /\ reply = NoReply /\ mishap = "none" /\ answer = Pending

-----------------------------------------------------------------------------
\* Hop-by-hop and connection-specific headers, which are not forwarded.
Dropped == {"host", "content-length", "connection", "keep-alive", "transfer-encoding",
            "upgrade", "proxy-authorization", "proxy-authenticate", "te", "trailer"}

\* Mutant: Accept-Encoding is only rewritten, never added.
Forwarded_OnlyRewrites(headers) ==
  [n \in DOMAIN headers \ Dropped |->
     IF n = "accept-encoding" THEN "rewritten" ELSE headers[n]]

Forwarded(headers) ==
  [n \in (DOMAIN headers \ Dropped) \cup {"accept-encoding"} |->
     IF n = "accept-encoding" THEN "rewritten" ELSE headers[n]]

\* Mutant: the body is forwarded whatever the method.
ForwardedBody_Always(req) == IF req.body = "bytes" THEN "bytes" ELSE "none"

\* A body that is no base64 counts as none; GET and HEAD carry none.
ForwardedBody(req) ==
  IF req.body = "bytes" /\ req.method \notin {"GET", "HEAD"} THEN "bytes" ELSE "none"

Answer(by, status, headers) ==
  /\ stage' = "answered"
  /\ answer' = [by |-> by, status |-> status, headers |-> headers]

\* The URL or the method does not parse.
Reject ==
  /\ stage = "new" /\ (request.url = "bad" \/ request.method \notin Methods)
  /\ Answer("proxy", 400, <<>>)
  /\ UNCHANGED <<request, hop, visits, reply, mishap>>

\* Mutant: any method is passed on.
Forward_AnyMethod ==
  /\ stage = "new" /\ request.url = "good"
  /\ hop' = [to |-> "app", method |-> request.method, body |-> ForwardedBody(request),
             headers |-> Forwarded(request.headers)]
  /\ stage' = "sending"
  /\ UNCHANGED <<request, visits, reply, answer, mishap>>

Forward ==
  /\ stage = "new" /\ request.url = "good" /\ request.method \in Methods
  /\ hop' = [to |-> "app", method |-> request.method, body |-> ForwardedBody(request),
             headers |-> Forwarded(request.headers)]
  /\ stage' = "sending"
  /\ UNCHANGED <<request, visits, reply, answer, mishap>>

\* A connection is made and a server receives the request.
Arrive ==
  /\ stage = "sending"
  /\ visits' = Append(visits, hop) /\ stage' = "waiting"
  /\ UNCHANGED <<request, hop, reply, answer, mishap>>

Redirects(r) == r.status \in {301, 302, 303, 307, 308} /\ r.to # "nowhere"

\* What reqwest makes of a redirect: but for 307 and 308, POST becomes GET and
\* the body is gone; another host gets no credentials.
Redirected(r) ==
  [to |-> r.to,
   method |-> IF r.status \in {307, 308} \/ hop.method = "HEAD" THEN hop.method ELSE "GET",
   body |-> IF r.status \in {307, 308} THEN hop.body ELSE "none",
   headers |-> IF r.to = hop.to THEN hop.headers
               ELSE [n \in DOMAIN hop.headers \ {"authorization", "cookie"} |-> hop.headers[n]]]

Follow(r) ==
  /\ stage = "waiting" /\ Redirects(r) /\ Len(visits) <= MaxRedirects
  /\ hop' = Redirected(r) /\ stage' = "sending" /\ reply' = r
  /\ UNCHANGED <<request, visits, answer, mishap>>

Respond(r) ==
  /\ stage = "waiting" /\ ~Redirects(r)
  /\ reply' = r /\ stage' = "reading"
  /\ UNCHANGED <<request, hop, visits, answer, mishap>>

\* headers.insert: of several lines of one name, the last is kept.
Collected(lines) ==
  [n \in {lines[i][1] : i \in DOMAIN lines} |->
     lines[Max({i \in DOMAIN lines : lines[i][1] = n})][2]]

ReadBody ==
  /\ stage = "reading"
  /\ Answer("server", reply.status, Collected(reply.lines))
  /\ UNCHANGED <<request, hop, visits, reply, mishap>>

\* local_server_down_response: a page that says so, with its own headers.
DownPage == Answer("down_page", 502, <<>>)

\* Mutant: the guards are tried in the other order.
Failed_Swapped(error) ==
  IF "is_timeout" \in error THEN Answer("proxy", 504, <<>>)
  ELSE IF "is_connect" \in error THEN DownPage
  ELSE Answer("proxy", 502, <<>>)

\* How an error of send() is answered.
Failed(error) ==
  IF "is_connect" \in error THEN DownPage
  ELSE IF "is_timeout" \in error THEN Answer("proxy", 504, <<>>)
  ELSE Answer("proxy", 502, <<>>)

\* No connection could be made; that it was tried for long is a timeout as well.
Refused ==
  /\ stage = "sending" /\ mishap' = "unreachable"
  /\ \E error \in {{"is_connect"}, {"is_connect", "is_timeout"}} : Failed(error)
  /\ UNCHANGED <<request, hop, visits, reply>>

\* A header that cannot be sent, a connection that breaks.
Broken ==
  /\ stage \in {"sending", "waiting"} /\ mishap' = "broken" /\ Failed({})
  /\ UNCHANGED <<request, hop, visits, reply>>

TooManyRedirects ==
  /\ stage = "waiting" /\ Len(visits) > MaxRedirects /\ mishap' = "broken"
  /\ \E r \in Replies : Redirects(r) /\ reply' = r
  /\ Failed({})
  /\ UNCHANGED <<request, hop, visits>>

BodyBreaks ==
  /\ stage = "reading" /\ mishap' = "broken" /\ Answer("proxy", 502, <<>>)
  /\ UNCHANGED <<request, hop, visits, reply>>

\* Mutant: the client has a timeout to connect, and none for the response.
TimesOut_Connecting ==
  /\ stage = "sending" /\ mishap' = "late" /\ Failed({"is_timeout"})
  /\ UNCHANGED <<request, hop, visits, reply>>

\* The 30 seconds of the client are over; while the body is read, that is an
\* error of bytes().
TimesOut ==
  /\ \/ stage \in {"sending", "waiting"} /\ Failed({"is_timeout"})
     \/ stage = "reading" /\ Answer("proxy", 502, <<>>)
  /\ mishap' = "late"
  /\ UNCHANGED <<request, hop, visits, reply>>

ProxyNext ==
  \/ Reject \/ Forward \/ Arrive \/ ReadBody \/ BodyBreaks
  \/ Refused \/ Broken \/ TooManyRedirects \/ TimesOut
  \/ \E r \in Replies : Follow(r) \/ Respond(r)

\* The runtime runs the task and its timer; servers owe nothing.
ProxyFairness == WF_proxyVars(Reject) /\ WF_proxyVars(Forward) /\ WF_proxyVars(TimesOut)

ProxySpec == ProxyInit /\ [][ProxyNext]_proxyVars /\ ProxyFairness

-----------------------------------------------------------------------------
ProxyTypeOK ==
  /\ request \in Request /\ hop \in Hop \cup {NoHop} /\ reply \in Replies \cup {NoReply}
  /\ stage \in {"idle", "new", "sending", "waiting", "reading", "answered"}
  /\ visits \in Seq(Hop) /\ Len(visits) <= MaxRedirects + 1
  /\ mishap \in {"none", "unreachable", "late", "broken"}
  /\ IF answer.by = "server" THEN answer.status \in 100..999
     ELSE answer.status \in {0, 400, 502, 504}

\* No server ever receives a GET or HEAD with a body, whatever was sent to the
\* tunnel and however often it is redirected; a body that is sent reaches the
\* application, and no redirect brings it back once it is gone (proxy.rs:88-93).
BodiesWhereTheyBelong ==
  \A i \in DOMAIN visits :
    /\ visits[i].method \in {"GET", "HEAD"} => visits[i].body = "none"
    /\ visits[i].body = "bytes" => \A j \in 1..i : visits[j].body = "bytes"
    /\ i = 1 /\ visits[i].method = "POST" /\ request.body = "bytes" => visits[i].body = "bytes"

\* Every server, the redirected ones too, is asked for what the Worker can
\* decompress, and none receives a header of the browser's connection
\* (proxy.rs:50-86).
RequestsRewritten ==
  \A i \in DOMAIN visits :
    /\ "accept-encoding" \in DOMAIN visits[i].headers
    /\ visits[i].headers["accept-encoding"] = "rewritten"
    /\ DOMAIN visits[i].headers \cap Dropped = {}

\* The last server asked has begun to answer.
Headed == reply # NoReply /\ ~Redirects(reply)

\* The answer says what happened. The proxy's own 400 means that nothing was sent;
\* the down page that no connection could be made for the last request; the proxy's
\* 504 that the time was over before a server answered; a server's answer, a 400 or
\* a 504 of its own too, has the status and the last value of every header of the
\* last response, which is complete (proxy.rs:32-47, 95-126).
AnswerTellsWhatHappened ==
  stage = "answered" =>
    /\ answer.by = "proxy" /\ answer.status = 400
         <=> request.url = "bad" \/ request.method = "unsupported"
    /\ answer.by = "proxy" /\ answer.status = 400 => visits = <<>>
    /\ answer.by = "down_page" <=> mishap = "unreachable"
    /\ answer.by = "down_page" => (visits = <<>> \/ Redirects(reply))
    /\ answer.by = "proxy" /\ answer.status = 504 <=> mishap = "late" /\ ~Headed
    /\ answer.by = "server" =>
         /\ mishap = "none" /\ answer.status = reply.status /\ visits # <<>> /\ Headed
         /\ \A i \in DOMAIN reply.lines :
              (\A j \in DOMAIN reply.lines : j > i => reply.lines[j][1] # reply.lines[i][1]) =>
                answer.headers[reply.lines[i][1]] = reply.lines[i][2]

\* proxy.rs:3-5 "Connection / timeout / parse errors return a synthetic 502 or
\* 504 so the tunnel always sends a response envelope back to the Worker": even
\* to a server that never answers or never ends its body.
AlwaysAnswered == stage = "new" ~> stage = "answered"

\* proxy.rs:52-54 "we don't forward the original Authorization header because
\* it was for the tunnel auth, not the local app".
AuthorizationNotForwarded ==
  \A i \in DOMAIN visits : "authorization" \notin DOMAIN visits[i].headers

\* proxy.rs:134-135 "HTML page served when the tunnel is healthy but the user's
\* local server isn't responding (connection refused)": the connection that
\* failed was one to the local server.
DownPageMeansAppDown ==
  stage = "answered" /\ answer.by = "down_page" => hop.to = "app"
=============================================================================
