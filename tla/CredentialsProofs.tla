------------------------- MODULE CredentialsProofs -------------------------
(***************************************************************************)
(* Proofs about Credentials, for every number of processes.                *)
(***************************************************************************)
EXTENDS Credentials, TLAPS

USE DEF inputs

-----------------------------------------------------------------------------
(* The type invariant *)

LEMMA ParsedType == ASSUME NEW content PROVE Parsed(content) \in Config
BY DEF Parsed, Empty, Config

LEMMA EditedType ==
  ASSUME TypeOK, NEW p \in Procs, op[p] = "login" => got[p] \in Sessions, NEW config \in Config
  PROVE  Edited(p, config) \in Config /\ Completed(p, config) \in Config
BY DEF Edited, Completed, Config, Empty

LEMMA TypeAdvance ==
  ASSUME TypeOK, NEW p \in Procs, Advance(p), Using(p), op[p] \in {"login", "logout"},
         UNCHANGED <<op, env, mem, got, raced>>, file' \in Config \cup {Missing, Torn}
  PROVE  TypeOK'
<1>1. Completed(p, meant) \in Config BY EditedType DEF TypeOK
<1>2. CASE op[p] = "logout" /\ pass[p] = 1
  BY <1>2 DEF Advance, TypeOK, Using, InFile, Ended
<1>3. CASE ~(op[p] = "logout" /\ pass[p] = 1)
  BY <1>1, <1>3 DEF Advance, TypeOK, Using, InFile, Ended
<1> QED BY <1>2, <1>3

LEMMA TypeStops ==
  ASSUME TypeOK, NEW p \in Procs, NEW how \in Ended, Stops(p, how),
         file' \in Config \cup {Missing, Torn}
  PROVE  TypeOK'
<1>1. meant' \in Config BY ParsedType DEF Stops
<1> QED BY <1>1 DEF Stops, TypeOK, Using, InFile, Ended

\* A step of p outside of the file, or a lookup.
LEMMA TypeMove ==
  ASSUME TypeOK, NEW p \in Procs, NEW to, pc' = [pc EXCEPT ![p] = to],
         UNCHANGED <<op, env, pass, mem, got, file, meant>>, raced' \in BOOLEAN,
         \/ to \in {"listen", "read"} /\ op[p] = "login"
         \/ to = "load" /\ op[p] = "logout"
         \/ to \in {"peek", "find", "again"} /\ op[p] # "login"
         \/ to \in Ended
  PROVE  TypeOK'
BY DEF TypeOK, Using, InFile, Ended

LEMMA TypeAnswers ==
  ASSUME TypeOK, NEW p \in Procs, NEW token \in Sessions \cup {ApiKey, EnvKey, EnvToken, None},
         Answers(p, token), UNCHANGED <<op, env, pass, mem, file, meant, raced>>
  PROVE  TypeOK'
BY DEF Answers, TypeOK, Using, InFile, Ended

LEMMA LookupTypes ==
  ASSUME TypeOK, NEW p \in Procs
  PROVE  /\ SessionOf(Parsed(file)) \in Sessions \cup {None}
         /\ KeyOf(Parsed(file)) \in {ApiKey, None}
         /\ FromEnv(p) \in {EnvKey, EnvToken}
BY ParsedType DEF SessionOf, KeyOf, FromEnv, Config

\* The processes that look something up are no logins.
LookupsOnly ==
  /\ \A p \in Procs : pc[p] = "peek" => op[p] = "status"
  /\ \A p \in Procs : pc[p] \in {"find", "again"} => op[p] \in {"token", "status"}

LEMMA TypeStep ==
  ASSUME TypeOK, LookupsOnly, NEW p \in Procs, Step(p) PROVE TypeOK' /\ LookupsOnly'
<1>1. CASE StartLogin(p)
  BY <1>1, TypeMove DEF StartLogin, TypeOK, LookupsOnly
<1>2. CASE Start(p)
  <2>1. PICK to \in {"load", "peek", "find"} :
          /\ pc' = [pc EXCEPT ![p] = to]
          /\ to = "load" => op[p] = "logout"
          /\ to = "peek" => op[p] = "status"
          /\ to = "find" => op[p] \in {"token", "status"}
    BY <1>2 DEF Start, Turns, TypeOK, Ops
  <2>2. raced' \in BOOLEAN BY <1>2 DEF Start, Turns
  <2>3. UNCHANGED <<op, env, pass, mem, got, file, meant>> BY <1>2 DEF Start
  <2>4. TypeOK' BY <2>1, <2>2, <2>3, TypeMove
  <2> QED BY <2>1, <2>3, <2>4 DEF LookupsOnly, TypeOK
<1>3. CASE Accept(p) BY <1>3, TypeMove DEF Accept, TypeOK, LookupsOnly
<1>4. CASE Callback(p)
  <2>1. PICK token \in {p, Blank} : got' = [got EXCEPT ![p] = token] BY <1>4 DEF Callback
  <2>2. raced' \in BOOLEAN /\ pc' = [pc EXCEPT ![p] = "load"] BY <1>4 DEF Callback, Turns
  <2>3. pc[p] = "read" /\ UNCHANGED <<op, env, pass, mem, file, meant>> BY <1>4 DEF Callback
  <2>4. TypeOK' BY <2>1, <2>2, <2>3 DEF TypeOK, Using, InFile, Ended, Sessions
  <2> QED BY <2>2, <2>3, <2>4 DEF LookupsOnly, TypeOK
<1>5. CASE CallbackFails(p) BY <1>5, TypeMove DEF CallbackFails, TypeOK, LookupsOnly, Ended
<1>6. CASE TimesOut(p) BY <1>6, TypeMove DEF TimesOut, TypeOK, LookupsOnly, Ended
<1>7. CASE Load(p)
  <2>1. pc[p] = "load" /\ op[p] \in {"login", "logout"} /\ Using(p)
    BY <1>7 DEF Load, TypeOK, Using, InFile
  <2>2. Edited(p, Parsed(file)) \in Config BY <2>1, EditedType, ParsedType DEF TypeOK
  <2>3. /\ mem' = [mem EXCEPT ![p] = Edited(p, Parsed(file))] /\ pc' = [pc EXCEPT ![p] = "truncate"]
        /\ UNCHANGED <<op, env, pass, got, file, meant, raced>>
    BY <1>7 DEF Load
  <2> QED BY <2>1, <2>2, <2>3 DEF TypeOK, Using, InFile, Ended, LookupsOnly
<1>8. CASE NothingToClear(p)
  <2>1. Using(p) /\ op[p] = "logout" BY <1>8 DEF NothingToClear, Using, InFile
  <2>2. TypeOK' BY <1>8, <2>1, TypeAdvance DEF NothingToClear, TypeOK
  <2> QED BY <1>8, <2>2 DEF NothingToClear, Advance, LookupsOnly, TypeOK
<1>9. CASE Truncate(p)
  <2>1. Empty \in Config BY DEF Empty, Config
  <2>2. /\ pc[p] = "truncate" /\ pc' = [pc EXCEPT ![p] = "write"] /\ file' = Empty
        /\ UNCHANGED <<op, env, pass, mem, got, meant, raced>>
    BY <1>9 DEF Truncate
  <2> QED BY <2>1, <2>2 DEF TypeOK, Using, InFile, Ended, LookupsOnly
<1>10. CASE Write(p)
  <2>1. Using(p) /\ op[p] \in {"login", "logout"} BY <1>10 DEF Write, Using, InFile, TypeOK
  <2>2. file' \in Config \cup {Missing, Torn} BY <1>10 DEF Write, TypeOK
  <2>3. TypeOK' BY <1>10, <2>1, <2>2, TypeAdvance DEF Write
  <2> QED BY <1>10, <2>3 DEF Write, Advance, LookupsOnly, TypeOK
<1>11. CASE OpenFails(p)
  BY <1>11, TypeStops DEF OpenFails, Stops, TypeOK, LookupsOnly, Ended
<1>12. CASE WriteFails(p)
  <2>1. [mem[p] EXCEPT !.session = None] \in Config BY DEF TypeOK, Config
  <2>2. file' \in Config \cup {Missing, Torn} BY <1>12, <2>1 DEF WriteFails, TypeOK
  <2>3. TypeOK' BY <1>12, <2>2, TypeStops DEF WriteFails, Ended
  <2> QED BY <1>12, <2>3 DEF WriteFails, Stops, LookupsOnly, TypeOK
<1>13. CASE Crash(p)
  BY <1>13, TypeStops DEF Crash, Stops, TypeOK, LookupsOnly, Ended
<1>14. CASE Peek(p) \/ FindSession(p) \/ FindKey(p)
  <2>1. op[p] # "login" /\ UNCHANGED <<op, env, pass, mem, file, meant, raced>>
    BY <1>14 DEF Peek, FindSession, FindKey, LookupsOnly
  <2>2. \/ \E token \in Sessions \cup {ApiKey, EnvKey, EnvToken, None} : Answers(p, token)
        \/ \E to \in {"find", "again"} : pc' = [pc EXCEPT ![p] = to] /\ got' = got
    BY <1>14, LookupTypes DEF Peek, FindSession, FindKey
  <2>3. raced' \in BOOLEAN BY <2>1 DEF TypeOK
  <2>4. TypeOK' BY <2>1, <2>2, <2>3, TypeAnswers, TypeMove
  <2>5. op[p] \in {"token", "status"} BY <1>14 DEF Peek, FindSession, FindKey, LookupsOnly
  <2> QED BY <2>1, <2>2, <2>4, <2>5 DEF Answers, LookupsOnly, TypeOK
<1> QED
  BY <1>1, <1>2, <1>3, <1>4, <1>5, <1>6, <1>7, <1>8, <1>9, <1>10, <1>11, <1>12, <1>13, <1>14
  DEF Step, Proceed

LEMMA InitTypes == Init => TypeOK /\ LookupsOnly
<1> SUFFICES ASSUME Init PROVE TypeOK /\ LookupsOnly OBVIOUS
<1>1. /\ pc = [p \in Procs |-> "start"] /\ pass = [p \in Procs |-> 1]
      /\ mem = [p \in Procs |-> Empty] /\ got = [p \in Procs |-> None]
      /\ op \in [Procs -> Ops] /\ meant = Parsed(file)
  BY DEF Init
<1>5. raced \in BOOLEAN BY DEF Init
<1>4. env \in [Procs -> SUBSET {EnvKey, EnvToken}] BY DEF Init
<1>2. file \in Config \cup {Missing, Torn} BY DEF Init, Config, Sessions
<1>3. Empty \in Config BY DEF Empty, Config
<1> QED BY <1>1, <1>2, <1>3, <1>4, <1>5, ParsedType DEF TypeOK, LookupsOnly, Using, InFile

\* Every state is well typed; in particular a command that rewrites the file is
\* a login that was handed a token, or a logout (config.rs:60-140).
THEOREM CredentialsTypeCorrect == Spec => [](TypeOK /\ LookupsOnly)
<1>1. TypeOK /\ LookupsOnly /\ [Next]_vars => TypeOK' /\ LookupsOnly'
  <2> SUFFICES ASSUME TypeOK, LookupsOnly, [Next]_vars PROVE TypeOK' /\ LookupsOnly' OBVIOUS
  <2>1. CASE Next BY <2>1, TypeStep DEF Next
  <2>2. CASE UNCHANGED vars
    BY <2>2 DEF vars, TypeOK, LookupsOnly, Using
  <2> QED BY <2>1, <2>2
<1> QED BY <1>1, InitTypes, PTL DEF Spec

-----------------------------------------------------------------------------
(* Commands one after the other *)

\* What the file amounts to while p uses it: logout clears the session first.
Halfway(p) == IF pass[p] = 2 THEN [meant EXCEPT !.session = None] ELSE meant

\* A process that has the file to itself.
Alone(p) ==
  /\ pc[p] \in {"load", "peek", "find", "again"} => Parsed(file) = Halfway(p)
  /\ pc[p] = "truncate" => mem[p] = Edited(p, Halfway(p))
  /\ pc[p] = "write" => mem[p] = Edited(p, Halfway(p)) /\ file = Empty
  /\ pc[p] = "find" /\ op[p] = "status" => SessionOf(meant) = None
  /\ pc[p] = "again" => env[p] = {} /\ SessionOf(meant) = None

\* As long as no two processes used the file at the same time: one uses it, or
\* the file amounts to what the finished commands do.
SerialInv ==
  /\ \A p, q \in Procs : Using(p) /\ Using(q) => p = q
  /\ Quiet => Parsed(file) = meant
  /\ \A p \in Procs : Using(p) => Alone(p)

LEMMA ParsedConfig == ASSUME NEW content \in Config PROVE Parsed(content) = content
BY DEF Parsed

\* A step after which p is the only process in the file.
LEMMA SerialStays ==
  ASSUME SerialInv, NEW p \in Procs, Using(p), Using(p)', Alone(p)',
         \A q \in Procs : q # p => pc'[q] = pc[q]
  PROVE  SerialInv'
<1>1. \A q \in Procs : q # p => ~Using(q)' BY DEF SerialInv, Using
<1> QED BY <1>1 DEF SerialInv, Quiet

\* The last step of p in the file.
LEMMA SerialLeaves ==
  ASSUME SerialInv, NEW p \in Procs, Using(p), ~Using(p)', Parsed(file') = meant',
         \A q \in Procs : q # p => pc'[q] = pc[q]
  PROVE  SerialInv'
<1>1. \A q \in Procs : ~Using(q)' BY DEF SerialInv, Using
<1> QED BY <1>1 DEF SerialInv, Quiet

\* A step of p outside of the file.
LEMMA SerialOutside ==
  ASSUME TypeOK, SerialInv, NEW p \in Procs, NEW to, pc' = [pc EXCEPT ![p] = to], ~Using(p),
         to \notin InFile, UNCHANGED <<op, env, pass, mem, got, file, meant>>
  PROVE  SerialInv'
<1>1. \A q \in Procs : Using(q)' = Using(q) BY DEF Using, TypeOK
<1>2. \A q \in Procs : Using(q) => pc'[q] = pc[q] BY DEF TypeOK
<1>3. \A q \in Procs : Using(q)' => Alone(q)'
  BY <1>1, <1>2 DEF SerialInv, Alone, Halfway, Edited
<1> QED BY <1>1, <1>3 DEF SerialInv, Quiet

\* The first step of p in the file.
LEMMA SerialEnters ==
  ASSUME TypeOK, SerialInv, NEW p \in Procs, NEW to \in {"load", "peek", "find"}, Turns(p, to),
         ~raced', to = "find" => op[p] # "status", pass[p] = 1,
         UNCHANGED <<op, env, pass, mem, file, meant>>
  PROVE  SerialInv'
<1>1. \A q \in Procs : ~Using(q)
  <2>1. raced' = (raced \/ \E q \in Procs : Using(q)) BY Zenon DEF Turns
  <2> QED BY <2>1
<1>2. pc' = [pc EXCEPT ![p] = to] BY DEF Turns
<1>3. Parsed(file) = meant BY <1>1 DEF SerialInv, Quiet
<1>4. \A q \in Procs : q # p => ~Using(q)' BY <1>1, <1>2 DEF Using, TypeOK
<1>5. Using(p)' /\ pc'[p] = to BY <1>2 DEF Using, InFile, TypeOK
<1>6. Alone(p)' BY <1>3, <1>5 DEF Alone, Halfway
<1> QED BY <1>4, <1>5, <1>6 DEF SerialInv, Quiet

\* The rewrite of p is over, and the file holds what it was to write.
LEMMA SerialAdvance ==
  ASSUME TypeOK, SerialInv, NEW p \in Procs, Using(p), op[p] \in {"login", "logout"},
         Advance(p), Parsed(file') = Edited(p, Halfway(p)),
         UNCHANGED <<op, env, mem, got>>
  PROVE  SerialInv'
<1>1. \A q \in Procs : q # p => pc'[q] = pc[q] BY DEF Advance, TypeOK
<1>2. CASE op[p] = "logout" /\ pass[p] = 1
  <2>1. pc'[p] = "load" /\ pass'[p] = 2 /\ meant' = meant BY <1>2 DEF Advance, TypeOK
  <2>2. Parsed(file') = [meant EXCEPT !.session = None] BY <1>2 DEF Edited, Halfway
  <2>3. Alone(p)' BY <2>1, <2>2 DEF Alone, Halfway
  <2> QED BY <1>1, <2>1, <2>3, SerialStays DEF Using, InFile
<1>3. CASE ~(op[p] = "logout" /\ pass[p] = 1)
  <2>1. pc'[p] = "done" /\ meant' = Completed(p, meant) BY <1>3 DEF Advance, TypeOK
  <2>2. Edited(p, Halfway(p)) = Completed(p, meant)
    <3>1. CASE op[p] = "login" BY <3>1 DEF Edited, Halfway, Completed, TypeOK
    <3>2. CASE op[p] = "logout" /\ pass[p] = 2
      <4>1. meant = [key |-> meant.key, session |-> meant.session] BY DEF TypeOK, Config
      <4>2. Halfway(p) = [key |-> meant.key, session |-> None] BY <3>2, <4>1 DEF Halfway
      <4>3. Edited(p, Halfway(p)) = [Halfway(p) EXCEPT !.key = None] BY <3>2 DEF Edited
      <4>4. Completed(p, meant) = Empty BY <3>2 DEF Completed
      <4> QED BY <4>2, <4>3, <4>4 DEF Empty
    <3> QED BY <1>3, <3>1, <3>2 DEF TypeOK
  <2> QED BY <1>1, <2>1, <2>2, SerialLeaves DEF Using, InFile
<1> QED BY <1>2, <1>3

LEMMA SerialStops ==
  ASSUME TypeOK, SerialInv, NEW p \in Procs, Using(p), NEW how \in Ended, Stops(p, how)
  PROVE  SerialInv'
<1>1. \A q \in Procs : q # p => pc'[q] = pc[q] BY DEF Stops, TypeOK
<1>2. pc'[p] = how /\ meant' = Parsed(file') BY DEF Stops, TypeOK
<1> QED BY <1>1, <1>2, SerialLeaves DEF Using, InFile, Ended

LEMMA SerialAnswers ==
  ASSUME TypeOK, SerialInv, NEW p \in Procs, pc[p] \in {"peek", "find", "again"},
         op[p] \in {"token", "status"}, NEW token, Answers(p, token),
         UNCHANGED <<file, meant>>
  PROVE  SerialInv'
<1>1. Using(p) /\ pass[p] = 1 BY DEF Using, InFile, TypeOK
<1>2. Parsed(file) = meant BY <1>1 DEF SerialInv, Alone, Halfway
<1>3. pc'[p] = "done" /\ \A q \in Procs : q # p => pc'[q] = pc[q] BY DEF Answers, TypeOK
<1> QED BY <1>1, <1>2, <1>3, SerialLeaves DEF Using, InFile

\* A lookup that goes on to its next source: no session was found.
LEMMA SerialGoesOn ==
  ASSUME TypeOK, SerialInv, NEW p \in Procs, pc[p] \in {"peek", "find"},
         op[p] \in {"token", "status"}, NEW to \in {"find", "again"},
         pc' = [pc EXCEPT ![p] = to], to = "again" => env[p] = {},
         SessionOf(Parsed(file)) = None, UNCHANGED <<op, env, pass, mem, got, file, meant>>
  PROVE  SerialInv'
<1>1. Using(p) /\ pass[p] = 1 BY DEF Using, InFile, TypeOK
<1>2. Parsed(file) = meant BY <1>1 DEF SerialInv, Alone, Halfway
<1>3. pc'[p] = to /\ \A q \in Procs : q # p => pc'[q] = pc[q] BY DEF TypeOK
<1>4. Alone(p)' BY <1>1, <1>2, <1>3 DEF Alone, Halfway
<1> QED BY <1>1, <1>3, <1>4, SerialStays DEF Using, InFile

LEMMA SerialStep ==
  ASSUME TypeOK, LookupsOnly, SerialInv, NEW p \in Procs, Step(p), ~raced' PROVE SerialInv'
<1>1. CASE StartLogin(p) \/ Accept(p) \/ CallbackFails(p) \/ TimesOut(p)
  <2>1. PICK to \in {"listen", "read", "failed"} :
          pc' = [pc EXCEPT ![p] = to] /\ UNCHANGED <<op, env, pass, mem, got, file, meant>>
    BY <1>1 DEF StartLogin, Accept, CallbackFails, TimesOut
  <2>2. ~Using(p) BY <1>1 DEF StartLogin, Accept, CallbackFails, TimesOut, Using, InFile
  <2>3. to \notin InFile BY DEF InFile
  <2> QED BY <2>1, <2>2, <2>3, SerialOutside
<1>2. CASE Start(p)
  <2>1. PICK to \in {"load", "peek", "find"} : Turns(p, to) /\ (to = "find" => op[p] # "status")
    BY <1>2 DEF Start, TypeOK, Ops
  <2>2. pc[p] = "start" /\ UNCHANGED <<op, env, pass, mem, got, file, meant>>
    BY <1>2 DEF Start
  <2>3. pass[p] = 1 BY <2>2 DEF TypeOK
  <2> QED BY <2>1, <2>2, <2>3, SerialEnters
<1>3. CASE Callback(p)
  <2>1. pc[p] = "read" /\ Turns(p, "load") /\ UNCHANGED <<op, env, pass, mem, file, meant>>
    BY <1>3 DEF Callback
  <2>2. pass[p] = 1 BY <2>1 DEF TypeOK
  <2> QED BY <2>1, <2>2, SerialEnters
<1>4. CASE Load(p)
  <2>1. /\ pc[p] = "load" /\ pc' = [pc EXCEPT ![p] = "truncate"]
        /\ mem' = [mem EXCEPT ![p] = Edited(p, Parsed(file))]
        /\ UNCHANGED <<op, env, pass, got, file, meant>>
    BY <1>4 DEF Load
  <2>2. Using(p) BY <2>1 DEF Using, InFile
  <2>3. Parsed(file) = Halfway(p) BY <2>1, <2>2 DEF SerialInv, Alone
  <2>4. pc'[p] = "truncate" /\ \A q \in Procs : q # p => pc'[q] = pc[q] BY <2>1 DEF TypeOK
  <2>5. mem'[p] = Edited(p, Halfway(p)) BY <2>1, <2>3 DEF TypeOK
  <2>6. Alone(p)' BY <2>1, <2>4, <2>5 DEF Alone, Halfway, Edited
  <2> QED BY <2>2, <2>4, <2>6, SerialStays DEF Using, InFile
<1>5. CASE NothingToClear(p)
  <2>1. /\ pc[p] = "load" /\ op[p] = "logout" /\ file = Missing /\ Advance(p)
        /\ UNCHANGED <<op, env, mem, got, file>>
    BY <1>5 DEF NothingToClear
  <2>2. Using(p) BY <2>1 DEF Using, InFile
  <2>3. Parsed(file) = Empty /\ Parsed(file) = Halfway(p)
    BY <2>1, <2>2, FileStatesDiffer DEF SerialInv, Alone, Parsed
  <2>4. Edited(p, Empty) = Empty BY <2>1 DEF Edited, Empty, TypeOK
  <2> QED BY <2>1, <2>2, <2>3, <2>4, SerialAdvance
<1>6. CASE Truncate(p)
  <2>1. /\ pc[p] = "truncate" /\ pc' = [pc EXCEPT ![p] = "write"] /\ file' = Empty
        /\ UNCHANGED <<op, env, pass, mem, got, meant>>
    BY <1>6 DEF Truncate
  <2>2. Using(p) BY <2>1 DEF Using, InFile
  <2>3. mem[p] = Edited(p, Halfway(p)) BY <2>1, <2>2 DEF SerialInv, Alone
  <2>4. pc'[p] = "write" /\ \A q \in Procs : q # p => pc'[q] = pc[q] BY <2>1 DEF TypeOK
  <2>5. Alone(p)' BY <2>1, <2>3, <2>4 DEF Alone, Halfway, Edited
  <2> QED BY <2>2, <2>4, <2>5, SerialStays DEF Using, InFile
<1>7. CASE Write(p)
  <2>1. /\ pc[p] = "write" /\ Advance(p) /\ UNCHANGED <<op, env, mem, got>>
        /\ file = Empty => file' = mem[p]
    BY <1>7 DEF Write
  <2>2. Using(p) /\ op[p] \in {"login", "logout"} BY <2>1 DEF Using, InFile, TypeOK
  <2>3. file' = mem[p] /\ mem[p] = Edited(p, Halfway(p)) BY <2>1, <2>2 DEF SerialInv, Alone
  <2>4. Parsed(file') = mem[p] BY <2>3, ParsedConfig DEF TypeOK
  <2> QED BY <2>1, <2>2, <2>3, <2>4, SerialAdvance
<1>8. CASE OpenFails(p) \/ WriteFails(p) \/ Crash(p)
  <2>1. Using(p) /\ \E how \in Ended : Stops(p, how)
    BY <1>8 DEF OpenFails, WriteFails, Crash, Using, InFile, Ended
  <2> QED BY <2>1, SerialStops
<1>9. CASE Peek(p) \/ FindSession(p) \/ FindKey(p)
  <2>1. /\ pc[p] \in {"peek", "find", "again"} /\ op[p] \in {"token", "status"}
        /\ UNCHANGED <<op, env, pass, mem, file, meant>>
    BY <1>9 DEF Peek, FindSession, FindKey, LookupsOnly
  <2>2. CASE \E token : Answers(p, token) BY <2>1, <2>2, SerialAnswers
  <2>3. CASE ~ \E token : Answers(p, token)
    <3>1. /\ pc[p] \in {"peek", "find"} /\ SessionOf(Parsed(file)) = None /\ got' = got
          /\ \E to \in {"find", "again"} : pc' = [pc EXCEPT ![p] = to] /\ (to = "again" => env[p] = {})
      BY <1>9, <2>3 DEF Peek, FindSession, FindKey
    <3> QED BY <2>1, <3>1, SerialGoesOn
  <2> QED BY <2>2, <2>3
<1> QED BY <1>1, <1>2, <1>3, <1>4, <1>5, <1>6, <1>7, <1>8, <1>9 DEF Step, Proceed

LEMMA SerialCorrect == Spec => [](TypeOK /\ LookupsOnly /\ (raced \/ SerialInv))
<1> DEFINE Inv == raced \/ SerialInv
<1>1. Init => Inv
  <2> SUFFICES ASSUME Init PROVE SerialInv OBVIOUS
  <2>1. pc = [p \in Procs |-> "start"] /\ meant = Parsed(file) BY DEF Init
  <2>2. \A p \in Procs : ~Using(p) BY <2>1 DEF Using, InFile
  <2> QED BY <2>1, <2>2 DEF SerialInv, Quiet
<1>2. TypeOK /\ LookupsOnly /\ Inv /\ [Next]_vars => Inv'
  <2> SUFFICES ASSUME TypeOK, LookupsOnly, Inv, [Next]_vars, ~raced' PROVE SerialInv' OBVIOUS
  <2>1. ASSUME NEW p \in Procs, Step(p) PROVE SerialInv'
    <3>1. raced => raced'
      BY <2>1 DEF Step, Proceed, StartLogin, Start, Turns, Load, NothingToClear, Truncate, Write, Peek,
         FindSession, FindKey, Accept, Callback, CallbackFails, TimesOut, OpenFails, WriteFails,
         Crash, Stops
    <3> QED BY <2>1, <3>1, SerialStep
  <2>2. CASE UNCHANGED vars
    BY <2>2 DEF vars, SerialInv, Alone, Halfway, Edited, Using, Quiet
  <2> QED BY <2>1, <2>2 DEF Next
<1> QED BY <1>1, <1>2, CredentialsTypeCorrect, PTL DEF Spec

\* Commands that never overlap in the file act like atomic ones, whatever fails
\* or dies in between (config.rs:60-161, main.rs:385-512, 552-559).
THEOREM CommandsAtomic == Spec => []SerialActsAtomically
<1>1. raced \/ SerialInv => SerialActsAtomically BY DEF SerialInv, SerialActsAtomically
<1> QED BY <1>1, SerialCorrect, PTL

\* A lookup that no other command overlaps returns the token of the highest
\* priority that the commands before it left (auth.rs:22-52, main.rs:562-592).
THEOREM LookupsRight == Spec => SerialLookup
<1>1. ASSUME TypeOK, LookupsOnly, raced \/ SerialInv, Next, NEW p \in Procs PROVE LookupRight(p)
  <2> SUFFICES ASSUME op[p] \in {"token", "status"}, pc[p] # "done", pc'[p] = "done", ~raced
               PROVE  got'[p] = IF env[p] # {} /\ (op[p] = "token" \/ SessionOf(meant) = None)
                                THEN FromEnv(p)
                                ELSE IF SessionOf(meant) # None THEN SessionOf(meant) ELSE KeyOf(meant)
    BY DEF LookupRight
  <2>1. PICK q \in Procs : Step(q) BY <1>1 DEF Next
  <2>2. q = p /\ (Peek(p) \/ FindSession(p) \/ FindKey(p))
    <3>1. CASE \/ StartLogin(q) \/ Start(q) \/ Load(q) \/ NothingToClear(q) \/ Truncate(q) \/ Write(q)
               \/ Accept(q) \/ Callback(q) \/ CallbackFails(q) \/ TimesOut(q)
               \/ OpenFails(q) \/ WriteFails(q) \/ Crash(q)
      BY <1>1, <3>1 DEF StartLogin, Start, Turns, Load, NothingToClear, Truncate, Write, Advance, Accept,
         Callback, CallbackFails, TimesOut, OpenFails, WriteFails, Crash, Stops, TypeOK
    <3>2. CASE Peek(q) \/ FindSession(q) \/ FindKey(q)
      BY <1>1, <3>2 DEF Peek, FindSession, FindKey, Answers, TypeOK
    <3> QED BY <2>1, <3>1, <3>2 DEF Step, Proceed
  <2>3. Using(p) /\ pass[p] = 1 BY <1>1, <2>2 DEF Peek, FindSession, FindKey, Using, InFile, TypeOK
  <2>4. Alone(p) /\ Parsed(file) = meant
    BY <1>1, <2>2, <2>3 DEF SerialInv, Alone, Halfway, Peek, FindSession, FindKey
  <2>5. \A token : got' = [got EXCEPT ![p] = token] => got'[p] = token BY <1>1 DEF TypeOK
  <2>6. CASE Peek(p)
    <3>1. op[p] = "status" BY <1>1, <2>6 DEF Peek, LookupsOnly
    <3>2. pc' # [pc EXCEPT ![p] = "find"] BY <1>1 DEF TypeOK
    <3>3. SessionOf(meant) # None /\ got' = [got EXCEPT ![p] = SessionOf(meant)]
      BY <2>4, <2>6, <3>2 DEF Peek, Answers
    <3> QED BY <2>5, <3>1, <3>3
  <2>7. CASE FindSession(p)
    BY <1>1, <2>4, <2>5, <2>7 DEF FindSession, Answers, Alone, TypeOK
  <2>8. CASE FindKey(p)
    BY <1>1, <2>4, <2>5, <2>8 DEF FindKey, Answers, Alone
  <2> QED BY <2>2, <2>6, <2>7, <2>8
<1>2. TypeOK /\ LookupsOnly /\ (raced \/ SerialInv) /\ [Next]_vars
        => [\A p \in Procs : LookupRight(p)]_vars
  BY <1>1
<1> QED BY <1>2, SerialCorrect, PTL DEF Spec, SerialLookup
=============================================================================
