---------------------------- MODULE Credentials ----------------------------
(***************************************************************************)
(* The credentials in ~/.dodev/config.toml (config.rs) and the commands    *)
(* that use them: `dodev login` (the callback server, then save_session),  *)
(* `dodev logout` (clear_session, then clear_api_key), the token lookup of *)
(* `dodev local http` (get_auth_token) and `dodev status`. Several         *)
(* processes share the file; each read, truncation and write of it is a    *)
(* step, and each can fail.                                                *)
(***************************************************************************)
EXTENDS Naturals

CONSTANTS
  Procs,     \* the invocations; a callback hands a login a token named by it
  Old,       \* a session token saved before
  Blank,     \* the empty session token
  ApiKey,    \* the legacy key
  BlankKey,  \* the empty one
  EnvKey,    \* DODEV_API_KEY
  EnvToken,  \* DODEV_SESSION_TOKEN
  None,
  Missing,   \* there is no config file
  Torn       \* the config file does not parse

Sessions == Procs \cup {Old, Blank}

ASSUME NamesDiffer ==
  /\ None \notin Sessions \cup {ApiKey, EnvKey, EnvToken} /\ BlankKey \notin {ApiKey, None}
  /\ Blank \notin Procs \cup {Old} /\ EnvKey # EnvToken

Ops == {"login", "logout", "token", "status"}
Config == [key : {ApiKey, BlankKey, None}, session : Sessions \cup {None}]
Empty == [key |-> None, session |-> None]

ASSUME FileStatesDiffer == Missing \notin Config /\ Torn \notin Config /\ Missing # Torn

VARIABLES
  pc,        \* where each process is
  op,        \* the command it runs
  env,       \* the variables that are set, not blank, in its environment
  pass,      \* logout rewrites the file twice
  mem,       \* the config it is about to write
  got,       \* the token its lookup returned, or its callback carried
  file,      \* what the file holds: a config, Missing or Torn
  meant,     \* history: the config the finished commands amount to, one by one
  raced      \* history: two processes used the file at the same time

inputs == <<op, env>>
vars == <<pc, inputs, pass, mem, got, file, meant, raced>>

Ended == {"done", "failed", "dead"}
InFile == {"load", "truncate", "write", "peek", "find", "again"}
Using(p) == pc[p] \in InFile

\* load_config().unwrap_or_default(); an empty file is an empty config.
Parsed(content) == IF content \in Config THEN content ELSE Empty

\* load_session: a token that is stored and is not blank.
SessionOf(config) == IF config.session = Blank THEN None ELSE config.session

\* A key that is stored and is not blank.
KeyOf(config) == IF config.key = BlankKey THEN None ELSE config.key

TypeOK ==
  /\ pc \in [Procs -> {"start", "listen", "read"} \cup InFile \cup Ended]
  /\ op \in [Procs -> Ops]
  /\ env \in [Procs -> SUBSET {EnvKey, EnvToken}]
  /\ pass \in [Procs -> {1, 2}]
  /\ mem \in [Procs -> Config]
  /\ got \in [Procs -> Sessions \cup {ApiKey, EnvKey, EnvToken, None}]
  /\ file \in Config \cup {Missing, Torn}
  /\ meant \in Config
  /\ raced \in BOOLEAN
  /\ \A p \in Procs : pass[p] = 2 => op[p] = "logout" /\ pc[p] # "start"
  /\ \A p \in Procs : pc[p] \in {"listen", "read"} => op[p] = "login"
  /\ \A p \in Procs : pc[p] \in {"load", "truncate", "write"} => op[p] \in {"login", "logout"}
  /\ \A p \in Procs : op[p] = "login" /\ Using(p) => got[p] \in Sessions

Init ==
  /\ pc = [p \in Procs |-> "start"]
  /\ op \in [Procs -> Ops]
  /\ env \in {e \in [Procs -> SUBSET {EnvKey, EnvToken}] :
                \A p \in Procs : op[p] \in {"login", "logout"} => e[p] = {}}
  /\ pass = [p \in Procs |-> 1]
  /\ mem = [p \in Procs |-> Empty]
  /\ got = [p \in Procs |-> None]
  /\ file \in {[key |-> k, session |-> s] : k \in {ApiKey, BlankKey, None}, s \in {Old, Blank, None}}
                \cup {Missing, Torn}
  /\ meant = Parsed(file)
  /\ raced = FALSE

-----------------------------------------------------------------------------
\* The first step of p that concerns the file comes next.
Turns(p, to) ==
  /\ pc' = [pc EXCEPT ![p] = to]
  /\ raced' = (raced \/ \E q \in Procs : Using(q))

StartLogin(p) ==
  /\ pc[p] = "start" /\ op[p] = "login"
  /\ pc' = [pc EXCEPT ![p] = "listen"]
  /\ UNCHANGED <<inputs, pass, mem, got, file, meant, raced>>

Start(p) ==
  /\ pc[p] = "start" /\ op[p] # "login"
  /\ Turns(p, CASE op[p] = "logout" -> "load" [] op[p] = "status" -> "peek" [] OTHER -> "find")
  /\ UNCHANGED <<inputs, pass, mem, got, file, meant>>

\* The one connection accept_callback takes, whoever makes it.
Accept(p) ==
  /\ pc[p] = "listen" /\ pc' = [pc EXCEPT ![p] = "read"]
  /\ UNCHANGED <<inputs, pass, mem, got, file, meant, raced>>

\* The request carries a token: the success page is sent, before the save.
Callback(p) ==
  /\ pc[p] = "read" /\ Turns(p, "load")
  /\ \E token \in {p, Blank} : got' = [got EXCEPT ![p] = token]
  /\ UNCHANGED <<inputs, pass, mem, file, meant>>

\* bind, accept, read or the page fails, or the first read holds no token.
CallbackFails(p) ==
  /\ op[p] = "login" /\ pc[p] \in {"start", "listen", "read"}
  /\ pc' = [pc EXCEPT ![p] = "failed"]
  /\ UNCHANGED <<inputs, pass, mem, got, file, meant, raced>>

\* Mutant: the timeout is around accept only.
TimesOut_Accept(p) ==
  /\ pc[p] = "listen"
  /\ pc' = [pc EXCEPT ![p] = "failed"]
  /\ UNCHANGED <<inputs, pass, mem, got, file, meant, raced>>

\* 120 seconds after bind.
TimesOut(p) ==
  /\ pc[p] \in {"listen", "read"}
  /\ pc' = [pc EXCEPT ![p] = "failed"]
  /\ UNCHANGED <<inputs, pass, mem, got, file, meant, raced>>

-----------------------------------------------------------------------------
\* Mutant: the session is saved into a new config.
Edited_Fresh(p, config) ==
  IF op[p] = "login" THEN [Empty EXCEPT !.session = got[p]]
  ELSE IF pass[p] = 1 THEN [config EXCEPT !.session = None]
  ELSE [config EXCEPT !.key = None]

\* What save_session, clear_session or clear_api_key makes of a config.
Edited(p, config) ==
  IF op[p] = "login" THEN [config EXCEPT !.session = got[p]]
  ELSE IF pass[p] = 1 THEN [config EXCEPT !.session = None]
  ELSE [config EXCEPT !.key = None]

\* The command as if it were atomic.
Completed(p, config) ==
  IF op[p] = "login" THEN [config EXCEPT !.session = got[p]] ELSE Empty

\* Mutant: a login is rewritten a second time, as a logout is.
Advance_Twice(p) ==
  IF pass[p] = 1
  THEN /\ pc' = [pc EXCEPT ![p] = "load"] /\ pass' = [pass EXCEPT ![p] = 2]
       /\ UNCHANGED meant
  ELSE /\ pc' = [pc EXCEPT ![p] = "done"] /\ meant' = Completed(p, meant)
       /\ UNCHANGED pass

\* One rewrite is over: logout goes on with its second, a login is done.
Advance(p) ==
  IF op[p] = "logout" /\ pass[p] = 1
  THEN /\ pc' = [pc EXCEPT ![p] = "load"] /\ pass' = [pass EXCEPT ![p] = 2]
       /\ UNCHANGED meant
  ELSE /\ pc' = [pc EXCEPT ![p] = "done"] /\ meant' = Completed(p, meant)
       /\ UNCHANGED pass

\* The command stops here, whatever it has done to the file.
Stops(p, how) ==
  /\ pc' = [pc EXCEPT ![p] = how]
  /\ meant' = Parsed(file')
  /\ UNCHANGED <<inputs, pass, mem, got, raced>>

Load(p) ==
  /\ pc[p] = "load"
  /\ op[p] = "logout" => file # Missing
  /\ mem' = [mem EXCEPT ![p] = Edited(p, Parsed(file))]
  /\ pc' = [pc EXCEPT ![p] = "truncate"]
  /\ UNCHANGED <<inputs, pass, got, file, meant, raced>>

\* !path.exists(): nothing to clear.
NothingToClear(p) ==
  /\ pc[p] = "load" /\ op[p] = "logout" /\ file = Missing
  /\ Advance(p)
  /\ UNCHANGED <<inputs, mem, got, file, raced>>

\* fs::write opens the file with truncation ...
Truncate(p) ==
  /\ pc[p] = "truncate" /\ pc' = [pc EXCEPT ![p] = "write"]
  /\ file' = Empty
  /\ UNCHANGED <<inputs, pass, mem, got, meant, raced>>

\* create_dir_all or the open fails.
OpenFails(p) ==
  /\ pc[p] = "truncate" /\ UNCHANGED file
  /\ Stops(p, "failed")

\* ... and writes at offset 0. Over what another process wrote since, it
\* leaves its own, the other's (when that only goes on), or a mix.
Write(p) ==
  /\ pc[p] = "write"
  /\ \E left \in {mem[p], file, Torn} :
       /\ file = Empty => left = mem[p]
       /\ file' = left
  /\ Advance(p)
  /\ UNCHANGED <<inputs, mem, got, raced>>

\* The disk is full: the text is cut, before the session (which comes after
\* the key) or anywhere. Or it is all there and set_permissions fails.
WriteFails(p) ==
  /\ pc[p] = "write"
  /\ file' \in {file, mem[p], [mem[p] EXCEPT !.session = None], Torn}
  /\ Stops(p, "failed")

-----------------------------------------------------------------------------
Answers(p, token) ==
  /\ got' = [got EXCEPT ![p] = token] /\ pc' = [pc EXCEPT ![p] = "done"]

\* cmd_status looks for a session before anything else.
Peek(p) ==
  /\ pc[p] = "peek"
  /\ IF SessionOf(Parsed(file)) # None
     THEN Answers(p, SessionOf(Parsed(file)))
     ELSE pc' = [pc EXCEPT ![p] = "find"] /\ UNCHANGED got
  /\ UNCHANGED <<inputs, pass, mem, file, meant, raced>>

FromEnv(p) == IF EnvKey \in env[p] THEN EnvKey ELSE EnvToken

\* Mutant: a blank token is returned.
FindSession_Blank(p) ==
  /\ pc[p] = "find"
  /\ IF env[p] # {} THEN Answers(p, FromEnv(p))
     ELSE IF Parsed(file).session # None THEN Answers(p, Parsed(file).session)
     ELSE pc' = [pc EXCEPT ![p] = "again"] /\ UNCHANGED got
  /\ UNCHANGED <<inputs, pass, mem, file, meant, raced>>

\* get_auth_token: the environment, then the session in the file.
FindSession(p) ==
  /\ pc[p] = "find"
  /\ IF env[p] # {} THEN Answers(p, FromEnv(p))
     ELSE IF SessionOf(Parsed(file)) # None THEN Answers(p, SessionOf(Parsed(file)))
     ELSE pc' = [pc EXCEPT ![p] = "again"] /\ UNCHANGED got
  /\ UNCHANGED <<inputs, pass, mem, file, meant, raced>>

\* The file is read again for the legacy key.
FindKey(p) ==
  /\ pc[p] = "again" /\ Answers(p, KeyOf(Parsed(file)))
  /\ UNCHANGED <<inputs, pass, mem, file, meant, raced>>

Crash(p) ==
  /\ Using(p) /\ UNCHANGED file
  /\ Stops(p, "dead")

\* What a process does by itself, as long as its system calls return.
Proceed(p) ==
  \/ StartLogin(p) \/ Start(p) \/ Load(p) \/ NothingToClear(p) \/ Truncate(p) \/ Write(p)
  \/ Peek(p) \/ FindSession(p) \/ FindKey(p)

Step(p) ==
  \/ Proceed(p) \/ Accept(p) \/ Callback(p) \/ CallbackFails(p) \/ TimesOut(p)
  \/ OpenFails(p) \/ WriteFails(p) \/ Crash(p)

Next == \E p \in Procs : Step(p)

Spec == Init /\ [][Next]_vars

\* A process runs, and a timer fires. Nobody has to answer the callback.
Fairness == \A p \in Procs : WF_vars(Proceed(p)) /\ WF_vars(TimesOut(p))

FairSpec == Spec /\ Fairness

-----------------------------------------------------------------------------
Quiet == \A p \in Procs : ~Using(p)

\* Commands that use the file one after the other act like atomic ones, those
\* before them having failed or died or not: a login changes the session only,
\* a logout leaves nothing, a login that gets no token in time changes nothing
\* (config.rs:60-140, main.rs:385-446, 552-559).
SerialActsAtomically == Quiet /\ ~raced => Parsed(file) = meant

\* What p finds is what the commands before it left.
LookupRight(p) ==
  op[p] \in {"token", "status"} /\ pc[p] # "done" /\ pc'[p] = "done" /\ ~raced =>
    got'[p] = IF env[p] # {} /\ (op[p] = "token" \/ SessionOf(meant) = None)
              THEN FromEnv(p)
              ELSE IF SessionOf(meant) # None THEN SessionOf(meant) ELSE KeyOf(meant)

\* A lookup that no other command overlaps finds the environment first, then a
\* session, then a legacy key, neither of them blank (auth.rs:22-52); for status
\* a session in the file comes first (main.rs:562-592).
SerialLookup == [][ \A p \in Procs : LookupRight(p) ]_vars

\* Every command comes to its end, a login with a browser that never answers,
\* or connects and stays silent, too (main.rs:432-445, 448-459).
CommandsEnd == \A p \in Procs : pc[p] # "start" ~> pc[p] \in Ended
=============================================================================
