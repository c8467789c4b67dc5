----------------------------- MODULE Reconnect -----------------------------
(***************************************************************************)
(* The outer loop of the dodev CLI's tunnel: run_tunnel, the part of       *)
(* connect_and_run that dials and greets, and classify_connect_error       *)
(* (tunnel.rs). A connection that is up is a single state here; TunnelConn *)
(* is what happens in it, and Tunnel puts the two together.                *)
(***************************************************************************)
EXTENDS Naturals

CONSTANTS
  MaxAttempts,   \* MAX_RECONNECT_ATTEMPTS, 20
  MaxDelay       \* the cap of the backoff in seconds, 30

\* No shift of the backoff reaches the width of a u64.
ASSUME MaxAssumption == MaxAttempts \in 0..64 /\ MaxDelay \in Nat \ {0}

VARIABLES
  pc,        \* "connect", "running", "sleep" or "returned"
  attempt,   \* reconnect_attempt
  outcome,   \* what run_tunnel returned
  delay,     \* base_secs of the last sleep
  banner,    \* the last connection banner printed
  config,    \* whether ws_url and token can be put in a request
  server,    \* how the server meets the next dial
  redials,   \* history: dials after a sleep since the tunnel was last up
  said       \* history: the loudest word on the outage since it was last up

loopVars == <<pc, attempt, outcome, delay, banner, config, server, redials, said>>

Server == {"accepts", "down", "unauthorized", "forbidden", "quota"}

LoopTypeOK ==
  /\ pc \in {"connect", "running", "sleep", "returned"}
  /\ attempt \in 0..(MaxAttempts + 1)
  /\ outcome \in {"none", "ok", "auth", "quota", "gaveup"}
  /\ delay \in 0..MaxDelay
  /\ banner \in {"none", "full", "quiet"}
  /\ config \in {"valid", "bad url", "bad token"}
  /\ server \in Server
  /\ redials \in 0..(MaxAttempts + 1)
  /\ said \in {"nothing", "line", "warning"}

LoopInit ==
  /\ pc = "connect" /\ attempt = 0 /\ outcome = "none" /\ delay = 0
  /\ banner = "none" /\ redials = 0 /\ said = "nothing"
  /\ config \in {"valid", "bad url", "bad token"}
  /\ server \in Server

-----------------------------------------------------------------------------
\* 1u64 << n
Shift[n \in Nat] == IF n = 0 THEN 1 ELSE 2 * Shift[n - 1]

\* Mutant: no cap.
Backoff_Uncapped(n) == Shift[n - 1]

\* base_secs; the jitter, less than a second more, is left out.
Backoff(n) == IF Shift[n - 1] < MaxDelay THEN Shift[n - 1] ELSE MaxDelay

\* Mutant: the last reconnection is not tried.
GivesUp_OffByOne(n) == n >= MaxAttempts

GivesUp(n) == n > MaxAttempts

Return(why) == pc' = "returned" /\ outcome' = why

\* print_reconnecting is silent before the third failure in a row.
Narrated(n) == n >= 3

\* What the user reads of the n-th failure: WARN from the fourth on.
Word(n) == IF n > 3 THEN "warning" ELSE IF Narrated(n) THEN "line" ELSE "nothing"

\* The Err(e) arm: count, give up, or log and sleep.
Retry ==
  /\ attempt' = attempt + 1
  /\ \/ /\ GivesUp(attempt + 1) /\ Return("gaveup")
        /\ UNCHANGED <<delay, said>>
     \/ /\ ~GivesUp(attempt + 1)
        /\ pc' = "sleep" /\ delay' = Backoff(attempt + 1)
        /\ said' = Word(attempt + 1)
        /\ UNCHANGED outcome
  /\ UNCHANGED <<banner, redials>>

\* Mutant: the third failure is still taken for routine.
Banner_OffByOne(prior) == IF prior \in {1, 2, 3} THEN "quiet" ELSE "full"

\* The full banner at first and after sustained trouble, a line otherwise.
Banner(prior) == IF prior \in {1, 2} THEN "quiet" ELSE "full"

\* Mutant: the counter is not reset by a connection.
Connects_NoReset ==
  /\ pc = "connect" /\ config = "valid" /\ server = "accepts"
  /\ banner' = Banner(attempt)
  /\ pc' = "running" /\ redials' = 0 /\ said' = "nothing"
  /\ UNCHANGED <<attempt, outcome, delay, config, server>>

\* Mutant: the test of the upgrade status is inverted.
Connects_Inverted ==
  /\ pc = "connect" /\ config = "valid" /\ server = "accepts"
  /\ Retry
  /\ UNCHANGED <<config, server>>

Connects ==
  /\ pc = "connect" /\ config = "valid" /\ server = "accepts"
  /\ banner' = Banner(attempt)
  /\ attempt' = 0
  /\ pc' = "running" /\ redials' = 0 /\ said' = "nothing"
  /\ UNCHANGED <<outcome, delay, config, server>>

\* A transport error, another HTTP status, or a URL that does not parse.
ConnectFails ==
  /\ pc = "connect"
  /\ config = "bad url" \/ (config = "valid" /\ server = "down")
  /\ Retry
  /\ UNCHANGED <<config, server>>

\* 401, 403, or a token no header can hold: AuthFailed, not retried.
Rejected ==
  /\ pc = "connect"
  /\ config = "bad token" \/ (config = "valid" /\ server \in {"unauthorized", "forbidden"})
  /\ Return("auth")
  /\ UNCHANGED <<attempt, delay, banner, config, server, redials, said>>

\* 429: QuotaExceeded, not retried.
OverQuota ==
  /\ pc = "connect" /\ config = "valid" /\ server = "quota"
  /\ Return("quota")
  /\ UNCHANGED <<attempt, delay, banner, config, server, redials, said>>

\* connect_and_run returned Err: silence, a read error, the end of the stream.
ConnectionLost ==
  /\ pc = "running" /\ Retry
  /\ UNCHANGED <<config, server>>

\* connect_and_run returned Ok: the server sent a Close frame.
ConnectionClosed ==
  /\ pc = "running" /\ Return("ok")
  /\ UNCHANGED <<attempt, delay, banner, config, server, redials, said>>

\* Bound: the history counter stops one past the limit.
Counted(n) == IF n > MaxAttempts THEN n ELSE n + 1

\* Mutant: the counter is reset before the dial.
Wakes_Resets ==
  /\ pc = "sleep" /\ pc' = "connect"
  /\ redials' = Counted(redials) /\ attempt' = 0
  /\ UNCHANGED <<outcome, delay, banner, config, server, said>>

Wakes ==
  /\ pc = "sleep" /\ pc' = "connect"
  /\ redials' = Counted(redials)
  /\ UNCHANGED <<attempt, outcome, delay, banner, config, server, said>>

ServerChanges ==
  /\ server' \in Server \ {server}
  /\ UNCHANGED <<pc, attempt, outcome, delay, banner, config, redials, said>>

Cli == \/ Connects \/ ConnectFails \/ Rejected \/ OverQuota
       \/ ConnectionLost \/ ConnectionClosed \/ Wakes

LoopNext == Cli \/ ServerChanges

LoopSpec == LoopInit /\ [][LoopNext]_loopVars

\* A dial that fails before a packet is sent.
FailsAtHome == config # "valid" /\ (ConnectFails \/ Rejected)

\* Sleeps end, and, once the server is gone, so does the connection; Tunnel
\* derives the latter from its tasks. A dial need not end: connect_async has no
\* timeout, and a peer may accept the TCP connection and never answer.
LoopFairness ==
  /\ WF_loopVars(FailsAtHome \/ Wakes)
  /\ WF_loopVars(server = "down" /\ (ConnectionLost \/ ConnectionClosed))

LoopFairSpec == LoopSpec /\ LoopFairness

-----------------------------------------------------------------------------
\* The CLI gives up after MAX_RECONNECT_ATTEMPTS redials in a row, neither
\* earlier nor later, whether the outage began at the first dial or with the
\* loss of a connection, and however many outages it survived before
\* (tunnel.rs:131, 147-152, 227).
GivesUpAfterMaxRedials ==
  /\ redials <= MaxAttempts
  /\ outcome = "gaveup" => redials = MaxAttempts

\* The first sleep of an outage is one second; within an outage the sleeps
\* never shrink and at most double (tunnel.rs:165, 227).
BackoffRestartsAndGrows ==
  [][ (pc # "sleep" /\ pc' = "sleep") =>
        IF redials = 0 THEN delay' = 1
        ELSE delay <= delay' /\ delay' <= 2 * delay /\ delay' <= MaxDelay ]_loopVars

\* The one await of the loop that may last for ever (tunnel.rs:214).
DialHangs == <>[](pc = "connect")

\* A server that stays down is not dialled again and again without end
\* (tunnel.rs:147-152): the loop returns, or one dial of it is never answered.
StopsWhenServerGone == <>[](server = "down") => <>(pc = "returned") \/ DialHangs

\* A CLI that waits out an outage is connected again when it finds the server
\* accepting: it does not give up on a server that is back, and only a dial that
\* is never answered keeps it from it (tunnel.rs:214-227).
ReconnectsWhenServerBack ==
  (pc = "sleep" /\ config = "valid") ~> (pc = "running" \/ server # "accepts" \/ DialHangs)

\* The three thresholds of two files against each other: a connection is announced
\* with the quiet line exactly when the user read nothing of the outage it ends
\* (tunnel.rs:228-237, display.rs:53-66). That the full banner after an outage
\* follows a WARN (tunnel.rs:156-164, 234-235) holds of all outages but those of
\* exactly three failures, which the narrating line alone has told of.
BannerFollowsOutage ==
  [][ (pc = "connect" /\ pc' = "running") =>
        /\ banner' = "quiet" <=> redials # 0 /\ said = "nothing"
        /\ banner' = "full" <=> redials = 0 \/ said = "warning" \/ redials = 3 ]_loopVars
=============================================================================
