-------------------------- MODULE ReconnectProofs --------------------------
(***************************************************************************)
(* Proofs about Reconnect, for every number of attempts and every cap. The *)
(* delays are given by a recursive function: its values are derived from   *)
(* the least-number principle, as the smallest counterexample to each fact.*)
(***************************************************************************)
EXTENDS Reconnect, WellFoundedInduction, TLAPS

-----------------------------------------------------------------------------
\* A non-empty set of natural numbers has a least element.
LEMMA LeastElement ==
  ASSUME NEW S \in SUBSET Nat, S # {}
  PROVE  \E m \in S : \A k \in S : m <= k
<1>1. PICK m \in S : \A k \in S : ~(<<k, m>> \in OpToRel(<, Nat))
  BY WFMin, NatLessThanWellFounded, Zenon
<1>2. \A k \in S : ~(k < m)
  BY <1>1, Zenon DEF OpToRel
<1> QED BY <1>2

\* The function f doubles from 1 up to n.
Doubles(f, n) ==
  f \in [0..n -> Nat \ {0}] /\ f[0] = 1 /\ \A k \in 1..n : f[k] = 2 * f[k - 1]

LEMMA DoublesExist ==
  ASSUME NEW n \in Nat
  PROVE  \E f : Doubles(f, n)
<1> DEFINE S == {i \in Nat : ~ \E f : Doubles(f, i)}
<1> SUFFICES ASSUME S # {} PROVE FALSE OBVIOUS
<1>1. PICK m \in S : \A k \in S : m <= k BY LeastElement
<1>2. Doubles([i \in 0..0 |-> 1], 0) BY DEF Doubles
<1>3. m # 0 /\ \E f : Doubles(f, m - 1) BY <1>1, <1>2
<1>4. PICK f : Doubles(f, m - 1) BY <1>3
<1> DEFINE g == [i \in 0..m |-> IF i = m THEN 2 * f[m - 1] ELSE f[i]]
<1>5. g \in [0..m -> Nat \ {0}] /\ g[0] = 1 BY <1>1, <1>3, <1>4 DEF Doubles
<1>6. \A k \in 1..m : g[k] = 2 * g[k - 1]
  <2> SUFFICES ASSUME NEW k \in 1..m PROVE g[k] = 2 * g[k - 1] OBVIOUS
  <2>1. k - 1 \in 0..m /\ k - 1 # m /\ g[k - 1] = f[k - 1] BY <1>1
  <2>2. CASE k = m BY <2>1, <2>2
  <2>3. CASE k # m
    <3>1. k \in 1..m - 1 BY <1>1, <2>3
    <3> QED BY <1>4, <2>1, <2>3, <3>1 DEF Doubles
  <2> QED BY <2>2, <2>3
<1>7. Doubles(g, m) BY <1>5, <1>6 DEF Doubles
<1> QED BY <1>1, <1>7

LEMMA DoublesUnique ==
  ASSUME NEW m \in Nat, NEW n \in Nat, NEW f, NEW g, Doubles(f, m), Doubles(g, n),
         NEW k \in Nat, k <= m, k <= n
  PROVE  f[k] = g[k]
<1> DEFINE S == {i \in Nat : i <= m /\ i <= n /\ f[i] # g[i]}
<1> SUFFICES ASSUME S # {} PROVE FALSE OBVIOUS
<1>1. PICK i \in S : \A j \in S : i <= j BY LeastElement
<1>2. i # 0 BY DEF Doubles
<1>3. f[i - 1] = g[i - 1] BY <1>1, <1>2
<1> QED BY <1>2, <1>3 DEF Doubles

\* The equations of Shift have a solution: at n, what doubles up to n.
LEMMA ShiftSolvable ==
  \E f : /\ f \in [Nat -> Nat \ {0}]
         /\ f = [n \in Nat |-> IF n = 0 THEN 1 ELSE 2 * f[n - 1]]
<1> DEFINE F(n) == CHOOSE f : Doubles(f, n)
           G == [n \in Nat |-> F(n)[n]]
<1>1. \A n \in Nat : Doubles(F(n), n) BY DoublesExist
<1> HIDE DEF F
<1>2. G \in [Nat -> Nat \ {0}]
  <2>1. ASSUME NEW n \in Nat PROVE F(n)[n] \in Nat \ {0} BY <1>1 DEF Doubles
  <2> QED BY <2>1
<1>3. G[0] = 1 BY <1>1 DEF Doubles
<1>4. ASSUME NEW n \in Nat PROVE G[n + 1] = 2 * G[n]
  <2>1. Doubles(F(n), n) /\ Doubles(F(n + 1), n + 1) BY <1>1
  <2>2. F(n + 1)[n] = F(n)[n] BY <2>1, DoublesUnique
  <2>3. F(n + 1)[n + 1] = 2 * F(n + 1)[n] BY <2>1 DEF Doubles
  <2> QED BY <2>2, <2>3
<1> HIDE DEF G
<1>5. ASSUME NEW n \in Nat, n # 0 PROVE G[n] = 2 * G[n - 1]
  <2>1. n - 1 \in Nat /\ (n - 1) + 1 = n BY <1>5
  <2> QED BY <1>4, <2>1
<1>6. G = [n \in Nat |-> IF n = 0 THEN 1 ELSE 2 * G[n - 1]] BY <1>2, <1>3, <1>5
<1> QED BY <1>2, <1>6

\* The recursive definition defines a function, of type Nat -> Nat \ {0}.
LEMMA ShiftDef ==
  /\ Shift \in [Nat -> Nat \ {0}]
  /\ Shift[0] = 1
  /\ \A n \in Nat : Shift[n + 1] = 2 * Shift[n]
<1> DEFINE Is(f) == f = [n \in Nat |-> IF n = 0 THEN 1 ELSE 2 * f[n - 1]]
<1>1. PICK G : G \in [Nat -> Nat \ {0}] /\ Is(G) BY ShiftSolvable
<1>2. Shift = CHOOSE f : Is(f) BY DEF Shift
<1>3. Is(Shift)
  <2> HIDE DEF Is
  <2> QED BY <1>1, <1>2
<1>4. ASSUME NEW n \in Nat PROVE Shift[n] = G[n]
  <2> DEFINE S == {i \in Nat : Shift[i] # G[i]}
  <2> SUFFICES ASSUME S # {} PROVE FALSE OBVIOUS
  <2>1. PICK i \in S : \A j \in S : i <= j BY LeastElement
  <2>2. i # 0 BY <1>1, <1>3
  <2>3. i - 1 \in Nat /\ Shift[i - 1] = G[i - 1] BY <2>1, <2>2
  <2> QED BY <1>1, <1>3, <2>2, <2>3
<1>5. Shift \in [Nat -> Nat \ {0}] BY <1>1, <1>3, <1>4
<1>6. Shift[0] = 1 BY <1>3
<1>7. ASSUME NEW n \in Nat PROVE Shift[n + 1] = 2 * Shift[n]
  <2>1. n + 1 \in Nat /\ n + 1 # 0 /\ (n + 1) - 1 = n OBVIOUS
  <2> QED BY <1>3, <2>1
<1> QED BY <1>5, <1>6, <1>7

\* The backoff begins at one second, never shrinks, at most doubles, and stays
\* within the cap.
LEMMA BackoffGrows ==
  /\ Backoff(1) = 1
  /\ \A n \in Nat \ {0} :
       /\ Backoff(n) \in 1..MaxDelay
       /\ Backoff(n) <= Backoff(n + 1) /\ Backoff(n + 1) <= 2 * Backoff(n)
<1>1. Backoff(1) = 1 BY ShiftDef, MaxAssumption DEF Backoff
<1>2. ASSUME NEW n \in Nat \ {0}
      PROVE  /\ Backoff(n) \in 1..MaxDelay
             /\ Backoff(n) <= Backoff(n + 1) /\ Backoff(n + 1) <= 2 * Backoff(n)
  <2> DEFINE d == Shift[n - 1]
  <2>1. d \in Nat \ {0} BY ShiftDef
  <2>2. Shift[(n + 1) - 1] = 2 * d
    <3>1. n - 1 \in Nat /\ (n + 1) - 1 = (n - 1) + 1 OBVIOUS
    <3> QED BY ShiftDef, <3>1
  <2>3. Backoff(n) = IF d < MaxDelay THEN d ELSE MaxDelay BY DEF Backoff
  <2>4. Backoff(n + 1) = IF 2 * d < MaxDelay THEN 2 * d ELSE MaxDelay
    BY <2>2 DEF Backoff
  <2> HIDE DEF d
  <2> QED BY <2>1, <2>3, <2>4, MaxAssumption
<1> QED BY <1>1, <1>2

-----------------------------------------------------------------------------
\* The counter the code keeps is the number of redials, one more while it
\* sleeps and zero while the tunnel is up; it is past the limit only at the end.
CountInv ==
  /\ attempt \in Nat /\ redials \in Nat /\ redials <= MaxAttempts
  /\ pc \in {"connect", "running", "sleep", "returned"}
  /\ pc = "connect" => attempt = redials
  /\ pc = "sleep" => attempt = redials + 1 /\ attempt <= MaxAttempts
  /\ pc = "running" => attempt = 0 /\ redials = 0
  /\ outcome = "gaveup" => pc = "returned" /\ redials = MaxAttempts

\* A failure met with the counter equal to the redials so far.
LEMMA CountRetry ==
  ASSUME CountInv, Retry, attempt = redials, pc # "returned"
  PROVE  CountInv'
<1>1. attempt' = attempt + 1 /\ redials' = redials BY DEF Retry
<1>2. CASE GivesUp(attempt + 1) /\ Return("gaveup")
  BY <1>1, <1>2, MaxAssumption DEF CountInv, GivesUp, Return
<1>3. CASE ~GivesUp(attempt + 1) /\ pc' = "sleep" /\ outcome' = outcome
  BY <1>1, <1>3, MaxAssumption DEF CountInv, GivesUp
<1> QED BY <1>2, <1>3 DEF Retry

LEMMA CountStep == CountInv /\ [LoopNext]_loopVars => CountInv'
<1> SUFFICES ASSUME CountInv, [LoopNext]_loopVars PROVE CountInv' OBVIOUS
<1>1. CASE Connects BY <1>1, MaxAssumption DEF Connects, CountInv
<1>2. CASE ConnectFails BY <1>2, CountRetry DEF ConnectFails, CountInv
<1>3. CASE Rejected BY <1>3 DEF Rejected, Return, CountInv
<1>4. CASE OverQuota BY <1>4 DEF OverQuota, Return, CountInv
<1>5. CASE ConnectionLost BY <1>5, CountRetry DEF ConnectionLost, CountInv
<1>6. CASE ConnectionClosed BY <1>6 DEF ConnectionClosed, Return, CountInv
<1>7. CASE Wakes BY <1>7, MaxAssumption DEF Wakes, Counted, CountInv
<1>8. CASE ServerChanges BY <1>8 DEF ServerChanges, CountInv
<1>9. CASE UNCHANGED loopVars BY <1>9 DEF loopVars, CountInv
<1> QED BY <1>1, <1>2, <1>3, <1>4, <1>5, <1>6, <1>7, <1>8, <1>9 DEF LoopNext, Cli

-----------------------------------------------------------------------------
\* The delay and what the user was told belong to the last failure: the one the
\* counter has while the loop sleeps, and the last redial's while it dials.
OutageInv ==
  /\ delay \in 0..MaxDelay /\ said \in {"nothing", "line", "warning"}
  /\ pc = "sleep" => delay = Backoff(attempt) /\ said = Word(attempt)
  /\ pc = "connect" => said = Word(redials) /\ (redials # 0 => delay = Backoff(redials))
  /\ pc = "running" => said = "nothing"

LoopInv == LoopTypeOK /\ CountInv /\ OutageInv

LEMMA TypeRetry ==
  ASSUME LoopTypeOK, CountInv, Retry, attempt = redials, pc # "returned",
         UNCHANGED <<config, server>>
  PROVE  LoopTypeOK' /\ OutageInv'
<1>1. attempt' = attempt + 1 /\ UNCHANGED <<banner, redials>> BY DEF Retry
<1>2. attempt' \in (0..(MaxAttempts + 1)) \ {0} BY <1>1, MaxAssumption DEF CountInv
<1>3. CASE GivesUp(attempt + 1) /\ Return("gaveup") /\ UNCHANGED <<delay, said>>
  <2>1. pc' = "returned" /\ outcome' = "gaveup" BY <1>3 DEF Return
  <2> QED BY <1>1, <1>2, <1>3, <2>1 DEF LoopTypeOK, OutageInv
<1>4. CASE pc' = "sleep" /\ outcome' = outcome /\ delay' = Backoff(attempt + 1)
           /\ said' = Word(attempt + 1)
  <2>1. delay' \in 0..MaxDelay
    <3>1. attempt + 1 \in Nat \ {0} BY DEF CountInv
    <3> QED BY <1>4, <3>1, BackoffGrows, MaxAssumption
  <2>2. said' \in {"nothing", "line", "warning"} BY <1>4 DEF Word
  <2>3. LoopTypeOK' BY <1>1, <1>2, <1>4, <2>1, <2>2 DEF LoopTypeOK
  <2> QED BY <1>1, <1>4, <2>1, <2>2, <2>3 DEF OutageInv
<1> QED BY <1>3, <1>4 DEF Retry

LEMMA LoopStarts == LoopInit => LoopInv
<1> SUFFICES ASSUME LoopInit PROVE LoopInv OBVIOUS
<1>1. /\ pc = "connect" /\ attempt = 0 /\ outcome = "none" /\ delay = 0
      /\ banner = "none" /\ redials = 0 /\ said = "nothing"
  BY Zenon DEF LoopInit
<1>2. config \in {"valid", "bad url", "bad token"} /\ server \in Server
  BY Zenon DEF LoopInit
<1>3. LoopTypeOK
  <2>1. /\ pc \in {"connect", "running", "sleep", "returned"}
        /\ attempt \in 0..(MaxAttempts + 1) /\ delay \in 0..MaxDelay
        /\ redials \in 0..(MaxAttempts + 1)
    BY <1>1, MaxAssumption
  <2>2. /\ outcome \in {"none", "ok", "auth", "quota", "gaveup"}
        /\ banner \in {"none", "full", "quiet"} /\ said \in {"nothing", "line", "warning"}
    BY <1>1
  <2> QED BY <1>2, <2>1, <2>2, Zenon DEF LoopTypeOK
<1>4. CountInv BY <1>1, MaxAssumption DEF CountInv
<1>5. OutageInv BY <1>1, MaxAssumption DEF OutageInv, Word, Narrated
<1> QED BY <1>3, <1>4, <1>5 DEF LoopInv

LEMMA LoopStep == LoopInv /\ [LoopNext]_loopVars => LoopInv'
<1> SUFFICES ASSUME LoopInv, [LoopNext]_loopVars PROVE LoopTypeOK' /\ OutageInv'
  BY CountStep DEF LoopInv
<1> USE DEF LoopInv
<1>1. CASE Connects
  BY <1>1, MaxAssumption DEF Connects, Banner, LoopTypeOK, OutageInv, CountInv
<1>2. CASE ConnectFails BY <1>2, TypeRetry DEF ConnectFails, CountInv
<1>3. CASE Rejected BY <1>3 DEF Rejected, Return, LoopTypeOK, OutageInv
<1>4. CASE OverQuota BY <1>4 DEF OverQuota, Return, LoopTypeOK, OutageInv
<1>5. CASE ConnectionLost BY <1>5, TypeRetry DEF ConnectionLost, CountInv
<1>6. CASE ConnectionClosed BY <1>6 DEF ConnectionClosed, Return, LoopTypeOK, OutageInv
<1>7. CASE Wakes
  <2>1. redials' = redials + 1 /\ attempt = redials + 1
    BY <1>7, MaxAssumption DEF Wakes, Counted, CountInv
  <2>2. redials' \in 0..(MaxAttempts + 1) BY <2>1, MaxAssumption DEF CountInv
  <2> QED BY <1>7, <2>1, <2>2 DEF Wakes, LoopTypeOK, OutageInv
<1>8. CASE ServerChanges BY <1>8 DEF ServerChanges, LoopTypeOK, OutageInv
<1>9. CASE UNCHANGED loopVars BY <1>9 DEF loopVars, LoopTypeOK, OutageInv
<1> QED BY <1>1, <1>2, <1>3, <1>4, <1>5, <1>6, <1>7, <1>8, <1>9 DEF LoopNext, Cli

LEMMA LoopInvariant == LoopSpec => []LoopInv
BY LoopStarts, LoopStep, PTL DEF LoopSpec

\* The counter, the delay and what was said stay within their ranges, whatever
\* the limit and the cap (tunnel.rs:131-165).
THEOREM LoopTypeCorrect == LoopSpec => []LoopTypeOK
<1>1. LoopInv => LoopTypeOK BY DEF LoopInv
<1> QED BY <1>1, LoopInvariant, PTL

\* Whatever the limit, the loop redials that many times in a row, no more and
\* no fewer, before it gives up (tunnel.rs:131, 147-152, 227).
THEOREM GivesUpCorrect == LoopSpec => []GivesUpAfterMaxRedials
<1>1. LoopInv => GivesUpAfterMaxRedials BY DEF LoopInv, CountInv, GivesUpAfterMaxRedials
<1> QED BY <1>1, LoopInvariant, PTL

\* Whatever the limit and the cap, each outage starts at one second again, and
\* within an outage no sleep is shorter than the one before it, longer than twice
\* that, or longer than the cap (tunnel.rs:165, 227).
THEOREM BackoffCorrect == LoopSpec => BackoffRestartsAndGrows
<1> DEFINE A == (pc # "sleep" /\ pc' = "sleep") =>
                  IF redials = 0 THEN delay' = 1
                  ELSE delay <= delay' /\ delay' <= 2 * delay /\ delay' <= MaxDelay
<1>1. LoopInv /\ [LoopNext]_loopVars => [A]_loopVars
  <2> SUFFICES ASSUME LoopInv, LoopNext, pc # "sleep", pc' = "sleep" PROVE A OBVIOUS
  <2>1. Retry /\ pc \in {"connect", "running"}
    BY DEF LoopNext, Cli, Connects, ConnectFails, Rejected, OverQuota, ConnectionLost,
           ConnectionClosed, Wakes, ServerChanges, Return
  <2>2. attempt = redials /\ redials \in Nat BY <2>1 DEF LoopInv, CountInv
  <2>3. delay' = Backoff(redials + 1) BY <2>1, <2>2 DEF Retry, Return
  <2>4. CASE redials = 0 BY <2>3, <2>4, BackoffGrows
  <2>5. CASE redials # 0
    <3>1. delay = Backoff(redials)
      BY <2>1, <2>5 DEF LoopInv, CountInv, OutageInv
    <3>2. redials \in Nat \ {0} /\ redials + 1 \in Nat \ {0} BY <2>2, <2>5
    <3> QED BY <2>3, <2>5, <3>1, <3>2, BackoffGrows
  <2> QED BY <2>4, <2>5
<1> QED BY <1>1, LoopInvariant, PTL DEF LoopSpec, BackoffRestartsAndGrows

\* The thresholds of run_tunnel, print_reconnecting and connect_and_run: a
\* connection is announced quietly exactly when the user read nothing of the
\* outage it ends, and in full after a WARN, at first, and after exactly three
\* failures, of which no WARN was told (tunnel.rs:156, 228-237, display.rs:53-66).
THEOREM BannerCorrect == LoopSpec => BannerFollowsOutage
<1> DEFINE A == (pc = "connect" /\ pc' = "running") =>
                  /\ banner' = "quiet" <=> redials # 0 /\ said = "nothing"
                  /\ banner' = "full" <=> redials = 0 \/ said = "warning" \/ redials = 3
<1>1. LoopInv /\ [LoopNext]_loopVars => [A]_loopVars
  <2> SUFFICES ASSUME LoopInv, LoopNext, pc = "connect", pc' = "running" PROVE A OBVIOUS
  <2>1. Connects
    BY DEF LoopNext, Cli, ConnectFails, Rejected, OverQuota, ConnectionLost,
           ConnectionClosed, Wakes, ServerChanges, Retry, Return
  <2>2. banner' = Banner(redials) /\ said = Word(redials) /\ redials \in Nat
    BY <2>1 DEF Connects, LoopInv, CountInv, OutageInv
  <2> QED BY <2>2 DEF Banner, Word, Narrated
<1> QED BY <1>1, LoopInvariant, PTL DEF LoopSpec, BannerFollowsOutage
=============================================================================
