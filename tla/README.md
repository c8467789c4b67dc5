# A TLA+ verification project for the `dodev` CLI

`dodev local http 3000` exposes `localhost:3000` at a public subdomain. The CLI
dials a Cloudflare Worker over a WebSocket, and multiplexes over it the HTTP
requests and the browser WebSockets the Worker relays. This project models the
parts of the CLI (`src/dodev-cli`) that keep state, run concurrently or must
survive failures, checks them with TLC on small instances, and proves the main
invariants with TLAPS for all values of the constants.

Paths below are relative to `src/dodev-cli/cli/src` unless they say otherwise.

## 1. Inventory

### Components

| Component | Code | State it keeps | Operations |
|---|---|---|---|
| Tunnel connection | `tunnel.rs:239-616` | channel `tx` to the writer task, the table `ws_sessions`, one channel per session, the tasks themselves | read loop dispatch, writer task, `handle_request`, `handle_ws_open`, `local_write_task` |
| Reconnection | `tunnel.rs:128-237, 618-660` | `reconnect_attempt` | dial, classify the failure, back off, give up, greet |
| Tunnel locks | `active.rs`, `main.rs:188-330` | `~/.dodev/tunnels/<sub>.lock`, one guard per process | ownership of `-s`, `is_in_use`, `acquire`, `Drop`, subdomain pick |
| Credentials | `config.rs`, `auth.rs`, `main.rs:385-593` | `~/.dodev/config.toml` | login (callback server, `save_session`), logout (`clear_session`, `clear_api_key`), `get_auth_token`, status |
| HTTP proxy | `proxy.rs`, `tunnel.rs:122-127, 383-420` | none | `proxy_request`: headers, body, redirects, timeout, error answers |
| Display | `display.rs` | none | banners and request lines |
| Legacy frames | `crates/protocol/src/lib.rs` | none | binary `encode` / `decode` |
| CLI shell | rest of `main.rs` | none | argument parsing, tracing, self-update |
| Release workflows | `.github/workflows` | release assets, the `latest` alias | build, mirror to R2 |

### How they interact

- The *read loop* owns the read half of the server WebSocket. It spawns a
  `handle_request` task per `request`, a `handle_ws_open` task per `ws-open`,
  answers heartbeats and pings itself, and forwards `ws-msg`/`ws-close` to the
  session's channel, found in `ws_sessions`.
- Everything sent to the server goes through the channel `tx` (256 slots). The
  *writer task* drains it; it ends when a write fails, or when every clone of
  `tx` is dropped. The read loop, each request task and each session task own
  a clone.
- A *session* is two tasks: `handle_ws_open` dials the local application,
  acknowledges, registers its channel (256 slots) in `ws_sessions`, spawns
  `local_write_task`, then reads the application. `local_write_task` writes
  what the channel brings; it ends on a `Close`, a failed write, or when the
  last sender of its channel is dropped.
- `run_tunnel` calls `connect_and_run` again and again until it returns `Ok`,
  an error that is not retried, or too many failures in a row.
- Several CLI processes share the lock directory and the config file, with no
  lock but the lockfiles themselves.

### What is hard

- Bounded channels between tasks that wait for each other: who can block whom,
  and whether what must be delivered is (`tunnel.rs:240, 337, 348, 512`).
- Registration races: the table entry appears after the dial and the ack, and
  disappears under the read loop's hands (`tunnel.rs:334, 341-349, 510-514, 608`).
- Shutdown: who drops which sender when, and who awaits whom
  (`tunnel.rs:364-378, 608-609`).
- Counters across outages (`tunnel.rs:131, 146-165, 227`).
- Check-then-act on files by several processes, with crashes between two
  system calls (`active.rs:51-91`, `config.rs:50-150`).
- What an HTTP library does behind one call: redirects, a timeout that also runs
  while the body is read, errors of several kinds at once (`proxy.rs:95-124`).
- A login that waits for one connection of a browser that owes it nothing
  (`main.rs:432-459`).

### What makes each component correct

- Connection: one response per request; a session's envelopes in protocol order;
  the table matches the sessions that run; the writer outlives its senders; no
  task outlives its session; nothing waits forever that a reader would not expect to.
- Reconnection: exactly as many redials as announced; the backoff restarts with
  each outage; it neither retries forever nor stops short of a server that is back.
- Tunnel: what an abandoned connection leaves behind ends, and the loop behaves
  as specified whatever its connections do.
- Locks: one guarded tunnel per subdomain; a lock blocks only what is tunnelled;
  only owned names are taken.
- Credentials: commands act like atomic updates, failed ones included; a lookup
  follows its priorities; every command ends.
- Proxy: every request is answered, by an answer that tells what happened; bodies
  and headers stay right on every redirect.
- Frames and close codes: decode undoes encode and accepts nothing else; only codes
  that may be sent are.

`PROJECT.json` lists every hazard of this kind at its line, with the properties
that would catch it.

## 2. Modules

| Module | Models |
|---|---|
| `TunnelConn` | one connection after the upgrade: all of its tasks and both kinds of channel |
| `Reconnect` | the loop around it, where a running connection is a single state |
| `Tunnel` | both together: the loop, and one connection it makes, uses and leaves |
| `Session` | abstract: what the tunnel promises of one relayed browser WebSocket |
| `SessionRefinement` | the refinement mapping from `TunnelConn` to `Session` |
| `Lease` | abstract: what the lockfiles promise, names leased to processes |
| `LeaseRefinement` | the refinement mapping from `TunnelLock` to `Lease` |
| `TunnelLock`, `Hostname` | several CLI processes on the lockfiles, one system call a step; the names they may take |
| `Credentials` | several CLI processes on the config file, one read or write of it a step |
| `Proxy` | one HTTP request from the Worker's envelope to the answer |
| `CloseCode`, `Frames` | pure: the close code written to the application; the binary codec of `crates/protocol` |
| `Decisions` | the three together: one input, and what the code makes of it |
| `MCTunnelConn`, `MCTunnel`, `MCTunnelLock`, `MCCredentials`, `MCDecisions` | model values and sample inputs |
| `TunnelConnProofs`, `TunnelSessionProofs`, `ReconnectProofs`, `TunnelProofs`, `SessionRefinementProofs`, `TunnelLockProofs`, `CredentialsProofs`, `DecisionProofs` | theorems |

`Tunnel` extends `TunnelConn` and `Reconnect`; `SessionRefinement` extends
`TunnelConn` and instantiates `Session`; `TunnelLock` extends `Hostname`;
`LeaseRefinement` extends `TunnelLock` and instantiates `Lease`; `Decisions` extends
`Proxy`, `CloseCode` and `Frames`.

### TunnelConn and the code

A step is what a task does from one `.await` that can block to the next.

| Variable | Code |
|---|---|
| `reader`, `push`, `result` | where the `while let` loop is; the clone of a session's sender it holds across `send().await` with the event; what is returned |
| `writer`, `log`, `taken` | the writer task; every message `tx` accepted and how many were received: the queue is `log[taken+1..]` |
| `request[r]` | the task of a request: `proxy` (waiting for the application), `reply` (sending), `done` |
| `session[s]` | the task of a session, by line: `dial` 494, `nack` 495-507, `ack` 510, `register` 512-518, `read` 562, `msg` 592, `close` 597-603, `remove` 608, `join` 609 |
| `local[s]`, `fed`, `eaten` | its `local_write_task` and its channel, kept like `tx` |
| `table` | the keys of `ws_sessions` |
| `link`, `app[s]` | the environment: the TCP connection, and the application's end of a local WebSocket |
| `beats`, `down`, `up`, `hungup` | how much the environment did, to bound it |

A log with a cursor instead of a queue lets the invariants speak of everything
ever sent. Message payloads, headers and masks are left out here (close
codes are in `CloseCode`); so is every frame that changes nothing. A mutex that is never held
across an `.await` is not modelled: the guarded block is one step.

Environment assumptions, from how the code uses the libraries: a message after a
Close frame is refused by tungstenite (`WriterSends` needs `result # "ok"`); a
silent peer's socket swallows writes for a while; the Worker sends `ws-msg` only
after it saw the ack, and may send it late; it may send `ws-close` any time after
its `ws-open`. Each id is used once. What an application sent before it closed can
still be read after that; a reset may overtake its Close, as long as that was not read.

### Session, and how TunnelConn implements it

`Session` has no task, channel or table. It says what the two ends see: the server
(`view`, `relayed`), the application (`delivered`, `parting`) and the browser
(`sent`, `hung`). The browser's frames are lost `"before"` the session is
registered, kept `"now"`, and lost `"past"` its end, with nothing lost in between;
the application's are relayed one by one; the browser is told of an orderly end,
after every frame before it. It is weak where the code is: a browser that hangs up
too early is not noticed, an application that vanishes is not reported.

The mapping (`SessionRefinement`) reads this off the log, the channels and the
table. `Stage` is the subtle part: a session's channel still has a sender while the
read loop holds a clone of it, even if the table has no entry. `sent` counts a frame
only when the read loop has got rid of it. `delivered` counts what the session's
channel took: a frame that cannot be decoded, or whose write to the application
fails, is dropped after that, and nothing here speaks of it.

### Reconnect and the code

`Connects`, `ConnectFails`, `Rejected` and `OverQuota` are a dial that ends. One that
does not is a loop that stays at `connect`: `connect_async` has no timeout, so no
fairness is assumed of a dial whose packets leave the machine.
`attempt` is `reconnect_attempt`, `delay` is `base_secs`; `redials` and `said`
are history variables: the dials since the tunnel was last up, and the loudest thing
the user was told (nothing, `print_reconnecting`'s line, a WARN). `config` covers the
two ways to fail before any packet is sent (a URL or a token that makes no request),
`server` how the server meets the next dial, including the statuses that are not
retried. Jitter is left out. `Shift` is the code's `1u64 << n`: `MaxAssumption` takes
at most 64 attempts (the code has 20), so that no shift reaches the width of the
word and the doubling is exact.

### Tunnel and the code

`watch` says whether the connection followed in detail is still to come, is up, or
was left. `Leave` is the return of `connect_and_run` to `run_tunnel`: after it the
tasks of the connection go on (nothing aborts them) beside the loop's sleeps, dials
and further connections, until `run_tunnel` returns and the process with it. The
other connections are a single state, as in `Reconnect`; since the one followed is
any of them, what is shown of it is shown of each. Connections share no state but
the HTTP client.

### TunnelLock and the code

A lockfile is a directory entry (`entry`) and an inode (`text`), because a
process goes on writing to a file that was unlinked, and unlinks by path what
another has created. `read_to_string`, the `kill(pid, 0)` probe, `remove_file`,
`File::create` and the two writes of `writeln!` on an unbuffered `File`, the digits
and the newline, are separate steps. A crash (Ctrl+C installs no handler, so no `Drop`
runs), a failed create or write, and the reuse of a PID can happen at any point.
`is_in_use` takes any error of `read_to_string` for "free": there may be no file
(`ReadMissing`), or one that cannot be read just now (`ReadFails`), and then `misread`
keeps the subdomain in mind, since `acquire` goes on to truncate the file. Removing a
stale file may fail; a `Drop` whose removal fails leaves what a crash before it leaves.

`text` is what the properties tell apart: a PID of one of the processes, nothing,
bytes that do not parse, or `"mixed"`. Two processes that write over each other may
leave either PID, garbage, or a number that is made of both (`99998` over `100001\n`
reads `999981`), the PID of a third program or of none: so a `"mixed"` number
probes as alive or as dead, freely. A newline written to a file that was truncated
meanwhile lands behind zeros, which do not parse. A process runs once, so its PID is
itself.
`--ws-url` tunnels without a lock. A name is the sequence of its labels; `-s` is
stripped of `.local.dev` and walked from the left, as `Hostname` says.

### Lease, and how TunnelLock implements it

`Lease` has no file, PID or probe. A process comes with a list of names, finds them
free or in use one by one, takes the lease of the first it found free, or leaves when
it found none; a lease ends with its process. A process leaves a *mark* on its name before it
has the lease, and a name is found in use only if a process that left its mark there
runs it, or is dead and taken for a living one. It is weak where the code is: a process
may run without a lease, and with its mark only (`acquire` fails after the PID is
written); it may run with neither (`--ws-url`); a look may fail, and from then on of
that name (`overlooked`) no exclusion is promised; and nobody is promised that what was
free stays free.

In the mapping (`LeaseRefinement`) a lease is a guard, a mark is an opened lockfile, and
reading, judging and writing the digits are stutters. The subtle steps are `UnlinkStale`,
which must find a name free that was judged some steps before, `ProbeAlive`, which must
find it marked and run although all it has is a PID read earlier, and `WriteNewline`,
which must take a lease that was decided on several system calls before. The code does not implement `Lease` when two
processes choose at once (`lock_race`), so `LeaseUnlessRaced` demands each step only
until then.

### Credentials and the code

`fs::write` is a truncation and a write; `load_config` treats a missing, empty
or unparsable file as an empty config (`unwrap_or_default`); `logout` is two such
rewrites. Each can fail, leaving the file cut or complete, and the process can die
between any two. `login` binds, accepts one connection, reads once, answers with the
success page, and only then saves; the 120 s run over accept and read. What is read
may hold a blank token, and the file a blank key, which the lookup passes over. `status` looks for a session before `get_auth_token` looks at
the environment.

`meant` is a history variable: the config that the commands amount to when each is
atomic. A command that fails or dies half way makes it what it leaves behind: the code
promises no roll-back, but the commands after it must build on exactly that; so a half-done
rewrite is not itself a violation, and what is checked is what later commands make of it. Comparing
the file with `meant` is the abstract specification of the component, stated as an
invariant. A file that is there can be read: transient errors of reading it are left out.

### Proxy, CloseCode and Frames

`visits` is the sequence of requests that reached a server: one, or one per redirect.
A reply carries what the properties tell apart: its status, any from 100 to 999, since
the code passes an application's own 400 or 504 through; where it redirects to; its
header lines in order. `answer.by` says whose answer it is (a server's, the down page,
the proxy's own), and the history variable `mishap` what went wrong on the way. reqwest is external: modelled from the predicates
`proxy.rs` asks of its errors and its default redirect policy, which
`tunnel.rs:123-126` leaves in place. A request that reached nobody may still be
reported as a timeout of the connect, which satisfies both predicates, so the order
of the guards matters. `Dropped` is the code's own list: what is missing from it,
`RequestsRewritten` cannot tell (`auth_forwarded` shows one such name). `Frames` has the sizes as parameters.

## 3. Runs

| Run | Shows |
|---|---|
| `tunnel` | the running tunnel: one request, two heartbeats or pings, a `tx` of one slot, four attempts, a cap of 3 s. Types and capacity, one answer per request, the writer outlives its senders; it implements `Reconnect`'s fair specification (`LoopFairSpec`); an abandoned connection's tasks end; redials, backoff, banner; only a dial that is never answered keeps the loop from redialling or stopping |
| `conn_ws` | one session, two frames each way, a heartbeat, both channels of one slot, every failure of link and application: envelope order, table, Close last, orderly end reported, no task left; every session implements `Session` |
| `conn_live` | a request beside a session: the request is answered whatever the session does; a session ends with its application; a delivered `ws-close` ends it |
| `lock` | three processes, the owned names `lab` and `dev`, and names typed in full, nested in full, only seemingly in full (`local.dev`, a leaf below `dev`) and not owned; reads, writes and removals that fail; unless raced, the lockfiles implement `Lease` |
| `credentials` | two commands in all combinations, over every initial file and environment |
| `decisions` | every request over three header names and seven replies, an application's own 400 and 504 among them, with up to two redirects; all 65,537 close codes; frames of a 2-byte id and payloads around a limit of 2 |
| `close_lost`, `silence_missed`, `drain_hangs`, `lock_race`, `auth_forwarded`, `redirect_followed` | counterexamples, below |

**Bounds.** A channel of one slot already blocks, which is all its size can
matter for; the theorems are for any capacity. One session interacts with the reader
and the writer; sessions meet only there and in the table, and the session theorems
are for any number of them. `MaxUp` and `MaxDown` of two let a message follow a
message and a close follow either; three messages down are the least that block the
reader (one being written, one in the channel, one held). In `tunnel` four attempts
take the backoff from 1 s to its cap and past it, and pass the thresholds at 3 and at 4;
heartbeats and pings stand for every other use of the slot. Three processes on the
lockfiles allow one to be overtaken while two collide, and one to arrive afterwards.
Two commands on the config file are enough because the initial file is any that
earlier ones can have left, torn ones included, and what overlaps is two at a time.
Two redirects are the least that lead to another server and back to a
different method. `Reconnect`'s history counter `redials` stops one past the limit. Deadlock is
not checked: every run reaches states where everything has ended. The processes of
`lock` are interchangeable, so that run uses symmetry; it checks no liveness.

**Fairness.** `TaskFairness`: tokio polls a task that is ready; a write to a
server that is there, or that is known to be gone, returns; the read timer expires
(70 s, `tunnel.rs:266`), but only where it is armed; the HTTP client's timeout
ends a request. Nothing is assumed of the applications, except that a write to one
that is over returns. `AppFairness`, used by `DeliveredCloseEndsSession` as a
hypothesis and in two counterexamples to make them stronger: an application that
accepts or refuses, reads its socket, and answers a Close. `Tunnel` schedules the
same tasks (`TasksRun`); a server that is down takes its link with it, and the kernel
gives up on bytes a dead peer never acknowledges (`LinkDies`); the sleep ends, and the
return of `connect_and_run` is acted on (`LoopRuns`). Of a dial nothing is assumed but
that one which fails before a packet is sent (`FailsAtHome`) does fail: `connect_async`
(`tunnel.rs:214`) has no timeout, and a peer that goes silent after it accepted the TCP
connection is waited for without end. Both liveness properties of the loop name that
case (`DialHangs`) as the one exception, so they show that nothing else keeps the loop.
What `Reconnect` alone has to assume, that a connection does not outlive its server, is
derived in `Tunnel` for the connection followed: that is what `LoopFairSpec` says of
the composition. Of the connections not followed the same is assumed (the second part
of `LoopRuns`), since each of them might have been the one followed. It holds for a
connection without WebSocket sessions; `drain_hangs` and `silence_missed` show why it
does not with one. `Proxy`: the task runs and the client's timer fires; no server
owes an answer. `Credentials`: a process runs and its timer fires; no browser owes a
callback.

**Mutants.** Every property of a passing run is violated by a named mutation of an
action, written above it (`Send_OffByOne`, `ReadWsClose_KeepsEntry`, ...): each is
a bug the code could have had.

## 4. What the code does not do

| Run | Finding |
|---|---|
| `close_lost` | A `ws-close` that is read before the session registers finds no entry and is dropped; the session then registers and stays, although its browser is gone. |
| `silence_missed` | The silence timer runs only around `ws_read.next()`. A read loop that waits for room in a session's channel is not watched. |
| `drain_hangs` | After the stream ends the read loop awaits the writer, which an idle WebSocket session keeps alive: no reconnect, no return. |
| `lock_race` | Check and create are separate, and create truncates: two processes that check at the same time both take the subdomain. |
| `auth_forwarded` | The comment says that Authorization is not forwarded; the list of dropped headers does not have it. |
| `redirect_followed` | The client follows redirects: an application that redirects to a server that is down is reported to be down itself. |

Each is stated as a property that a comment of the code claims, with the comment
quoted in `PROJECT.json`. Four more things a reader should know have no run of their
own, because a property of a passing run names them as its exception:

- A dial that is never answered holds the loop for ever: the 70 s of
  `tunnel.rs:261-266` run only once the connection is up (`StopsWhenServerGone`,
  `ReconnectsWhenServerBack`: `DialHangs`).
- `tunnel.rs:234-235` prints the full banner because "We escalated to WARN earlier".
  After exactly three failures it did not: WARN begins with the fourth (line 156), and
  the user read the narrating line alone (`BannerFollowsOutage`: `redials = 3`).
- A lock that is there and cannot be read counts as free (`active.rs:59`), and `acquire`
  truncates it: a second guarded tunnel of that subdomain, without any race
  (`ExclusiveUnlessRaced`, `VisibleUnlessRaced`, `LeaseUnlessRaced`: `misread`).
- Two processes that write their PIDs at once can leave the PID of a third, which blocks
  the subdomain as long as that one lives (`SkipsOnlyTunnelled`: `"mixed"`, only after
  a race).

Next to each counterexample stands what does hold:
`DeliveredCloseEndsSession`, `DrainsWithoutSessions`, `AbandonedEnds`,
`ExclusiveUnlessRaced` and `LeaseUnlessRaced`, `RequestsRewritten`, `AnswerTellsWhatHappened`. What overlapping
commands do to the config file is left open by `SerialActsAtomically` (a login that
reads between another's truncation and write takes the file for empty and writes that
back): the code promises nothing about more than one command.

## 5. What is proved

All of it for every value of the constants that the named assumptions allow
(`CapAssumption`, `BoundAssumption`, `NoneAssumption`, `MaxAssumption`,
`OwnedAssumption`, `NamesDiffer`, `FileStatesDiffer`, `ProxyAssumption`,
`NoCodeAssumption`, `FrameAssumption`, `TestAssumption`: capacities positive, bounds
natural numbers, no more than 64 attempts, test bytes bytes, reserved values distinct).

| Theorem | Says | Along which invariant |
|---|---|---|
| `TypeCorrect` | `[]TypeOK` of a connection, channel capacities included | itself; `reader = "push" <=> push # NoPush` makes a push always go to a session |
| `WriterStopsLastCorrect` | `[]WriterStopsLast` | itself: once no one holds `tx`, no step can make a new holder |
| `AnsweredOnceCorrect` | `[]AnsweredOnce` | `AnsweredInv`: a request not done yet has no response in the log |
| `SessionTableCorrect`, `CloseLastCorrect`, `NoTaskLeftCorrect` | `TableMatchesSessions`, `CloseIsLastEvent`, `NoTaskLeftBehind` | `TableInv`: an unregistered session has no trace, and a Close on its way has no entry left behind it. The three need each other: a push finds no Close in the channel because the second holds |
| `SessionEnvelopesCorrect`, `OrderlyEndCorrect` | `SessionProtocol`, `OrderlyEndReported` | `ProtocolOf(s)`: what the log may hold at each point of the session's task |
| `SessionImplemented`, `SessionsRelayedCorrect` | every session implements `Session` | the invariants above, and `RelayInv`: how often the log holds each envelope at each point of the session's task |
| `LoopTypeCorrect`, `GivesUpCorrect` | `[]LoopTypeOK`, `[]GivesUpAfterMaxRedials` | `CountInv`: the counter against the redials, by program point |
| `BackoffCorrect`, `BannerCorrect` | `BackoffRestartsAndGrows`, `BannerFollowsOutage` | `OutageInv`: the last delay and the last word are those of the counter while the loop sleeps, and of the redials while it dials (so a connection after exactly three of them is one that only the narrating line preceded); and `BackoffGrows`, about the shift and its cap |
| `TunnelImplementsLoop`, `TunnelImplementsConn` | the composition implements both of its parts; `TunnelTypeCorrect`, `TunnelGivesUp`, `TunnelBacksOff`, `TunnelGreets`, `TunnelAnswersOnce`, `TunnelWriterStopsLast` and `TunnelRelaysSessions` carry their properties over | none: every step of the whole is a step or a stutter of each part |
| `LockTypeCorrect` | `[]TypeOK` of the locks | itself |
| `SkipsCorrect` | `SkipsOnlyTunnelled` | `NamesInv`: an inode belongs to one subdomain for good, and a PID in it (or read from it) tunnels that subdomain, is about to, or did. That a mixed number needs a race is from `AloneInv`: until two processes choose at once, one alone writes to a file |
| `ExclusionCorrect`, `VisibilityCorrect` | `ExclusiveUnlessRaced`, `VisibleUnlessRaced` | `AloneInv`: a guarded tunnel is what its lock says, and the one chooser has read it and is not about to unlink or truncate it; all for the subdomains none of whose reads failed |
| `LeaseCorrect` | `LeaseUnlessRaced`: the lockfiles implement `Lease` | the two above and `LeaseInv`: a PID in a file, or read from one, is that of a process that opened a lockfile, and one that creates or writes its own has nothing left to check |
| `OwnershipCorrect` | `[]GuardsOnlyOwned` | what a process still has to check, and what it picked, is below an owned name |
| `CredentialsTypeCorrect`, `CommandsAtomic`, `LookupsRight` | `[]TypeOK`, `[]SerialActsAtomically`, `SerialLookup` | `SerialInv`: until two commands overlap, the file is what `meant` says, at each point of the one command under way |
| `CloseCodesSound` | every code is made one that may be sent, and kept if it is | none: by cases on the code |
| `MessagesSurvive`, `OnlyFramesDecode` | decode undoes encode within the limit, and accepts only frames | none: lemmas on the pieces of a concatenation |
| `CloseCodeCorrect`, `RoundTripCorrect`, `RejectionCorrect` | the same as the invariants of the run: `CloseCodeSound`, `FramesRoundTrip`, `FramesRejected` | `InputTyped`: the input is a code, a message or bytes |
| `ProxyTypeCorrect`, `ProxyBodiesBelong`, `ProxyRewrites`, `ProxyAnswersTruly` | the safety properties of `Proxy` | `ProxyInv`: what is in hand is as right as what was sent, so each hop keeps it |

The inductive invariants were checked with TLC on the instances of the runs
before they were proved. Only model-checked: every liveness property, `LoopFairSpec`
with its fairness, and `AbandonedEnds` (fairness and `ENABLED` are out of the prover's
reach). Every other property of a passing run is a theorem.

The backoff is the one place where a proof needs induction: `Shift` is a recursive
function, and that it is a function at all, and doubles, has to be shown for every
number. The library's induction theorems take the induction hypothesis as an operator,
which no installed prover can instantiate. `LeastElement` (a non-empty set of naturals
has a least one, from the well-foundedness of `<`) takes a set instead: the least
number at which two candidates differ gives the contradiction.

## 6. Not modelled

- Argument parsing, tracing, `cmd_config` and the display's layout: no state, and
  nothing that a property could be about.
- `dodev update`: axoupdater does it.
- The browser, and `/api/cli/me`, whose answer is the constant `Owned`.
- A write of a PID's digits that a full disk cuts in their middle: so few bytes fit a block,
  which is there or is not.
- The bytes of messages, headers and bodies, and the JSON of the envelopes and of
  the payloads of `crates/protocol` (serde's).
- The mode and the protection of the config file; transient errors of reading it.
- Windows, where `pid_alive` is always true.
- The release and mirror workflows: their steps are third-party actions, scheduled by
  GitHub; a model would be of those.
- The `&key[..12]` of `cmd_status`: a slice of one string, best left to a unit test.

What could still be added: two sessions in one run, one of them stalled (the session
theorems cover any number, the liveness runs one), a composition in which two
connections are followed at once, and a proof that a token lookup is right whatever
other lookups overlap it.
