-------------------------- MODULE TunnelLockProofs --------------------------
(***************************************************************************)
(* Proofs about TunnelLock, for every number of processes and every list   *)
(* of owned subdomains, and that it implements Lease.                      *)
(***************************************************************************)
EXTENDS LeaseRefinement, SequenceTheorems, TLAPS

USE DEF procVars, fileVars

-----------------------------------------------------------------------------
(* The type invariant *)

LEMMA HeadTail ==
  ASSUME NEW S, NEW q \in Seq(S), q # <<>>
  PROVE  Head(q) \in S /\ Tail(q) \in Seq(S)
OBVIOUS

\* The subdomain in hand, and what is left of the list after it.
LEMMA InHand ==
  ASSUME TypeOK, NEW p \in Procs, todo[p] # <<>>
  PROVE  Head(todo[p]) \in Subdomains /\ Tail(todo[p]) \in Seq(Subdomains)
BY HeadTail DEF TypeOK

LEMMA TypeVerdict ==
  ASSUME TypeOK, NEW p \in Procs, NEW free \in BOOLEAN, todo[p] # <<>>, Verdict(p, free),
         pc[p] \in {"check", "probe", "unlink"}, entry' \in [Subdomains -> Procs \cup {NoFile}],
         misread' \in SUBSET Subdomains, UNCHANGED <<seen, text, fd, locked, reused, raced>>
  PROVE  TypeOK'
<1>1. Head(todo[p]) \in Subdomains /\ Tail(todo[p]) \in Seq(Subdomains) BY InHand
<1>2. todo' \in [Procs -> Seq(Subdomains)] BY <1>1 DEF Verdict, TypeOK
<1>3. pick' \in [Procs -> Subdomains \cup {AnyFree}]
  <2>1. pick' = [pick EXCEPT ![p] = IF free /\ pick[p] = AnyFree THEN Head(todo[p]) ELSE pick[p]]
    BY Zenon DEF Verdict
  <2>2. \E d \in Subdomains \cup {AnyFree} : pick' = [pick EXCEPT ![p] = d]
    <3>1. CASE free /\ pick[p] = AnyFree BY <1>1, <2>1, <3>1
    <3>2. CASE ~(free /\ pick[p] = AnyFree) BY <2>1, <3>2 DEF TypeOK
    <3> QED BY <3>1, <3>2
  <2> QED BY <2>2 DEF TypeOK
<1>4. pc' = [pc EXCEPT ![p] = "check"] /\ \A q \in Procs : q # p => todo'[q] = todo[q] /\ pick'[q] = pick[q]
  BY DEF Verdict, TypeOK
<1>5. pc' \in [Procs -> Choosing \cup Running \cup {"start", "refused", "exited", "crashed"}]
  BY <1>4 DEF TypeOK, Choosing
<1>6. \A q \in Procs :
        /\ pc'[q] \in {"probe", "unlink"} => todo'[q] # <<>>
        /\ pc'[q] \in {"create", "write", "newline"} \cup Running => pick'[q] # AnyFree
        /\ pc'[q] \in {"write", "newline"} => fd'[q] # NoFile
  BY <1>4 DEF TypeOK, Running
<1> QED BY <1>2, <1>3, <1>5, <1>6 DEF TypeOK

LEMMA TypeStep == ASSUME TypeOK, NEW p \in Procs, Step(p) PROVE TypeOK'
<1>1. CASE Start(p)
  <2>1. todo' \in [Procs -> Seq(Subdomains)]
    <3>1. PICK wanted \in Wanted \cup {AnyFree} :
            todo' = [todo EXCEPT ![p] = IF wanted = AnyFree THEN Owned ELSE <<wanted>>]
      BY <1>1, Zenon DEF Start
    <3>2. Owned \in Seq(Subdomains) BY OwnedAssumption
    <3>3. wanted # AnyFree => <<wanted>> \in Seq(Subdomains) BY DEF Subdomains
    <3>4. CASE wanted = AnyFree BY <3>1, <3>2, <3>4 DEF TypeOK
    <3>5. CASE wanted # AnyFree BY <3>1, <3>3, <3>5 DEF TypeOK
    <3> QED BY <3>4, <3>5
  <2>2. raced' \in BOOLEAN BY <1>1 DEF Start
  <2>3. \A q \in Procs : q # p => todo'[q] = todo[q] BY <1>1 DEF Start, TypeOK
  <2>4. pc' = [pc EXCEPT ![p] = "check"] /\ UNCHANGED <<pick, seen, fd, locked, fileVars, reused, misread>>
    BY <1>1 DEF Start
  <2> QED BY <2>1, <2>2, <2>3, <2>4 DEF TypeOK, Choosing, Running
<1>2. CASE ReadMissing(p) BY <1>2, TypeVerdict DEF ReadMissing, TypeOK
<1>3. CASE ReadLock(p)
  <2>1. Head(todo[p]) \in Subdomains /\ entry[Head(todo[p])] \in Procs
    BY <1>3, InHand DEF ReadLock, TypeOK
  <2> QED BY <1>3, <2>1 DEF ReadLock, Content, TypeOK, Choosing, Running, Texts
<1>4. CASE ProbeAlive(p) BY <1>4, TypeVerdict DEF ProbeAlive, TypeOK
<1>5. CASE ProbeStale(p) BY <1>5 DEF ProbeStale, TypeOK, Choosing, Running
<1>6. CASE UnlinkStale(p)
  <2>1. entry' \in [Subdomains -> Procs \cup {NoFile}] BY <1>6 DEF UnlinkStale, TypeOK
  <2> QED BY <1>6, <2>1, TypeVerdict DEF UnlinkStale, TypeOK
<1>7. CASE Refuse(p) BY <1>7 DEF Refuse, TypeOK, Choosing, Running
<1>8. CASE Choose(p) BY <1>8 DEF Choose, TypeOK, Choosing, Running
<1>9. CASE Create(p)
  <2>1. pick[p] \in Subdomains BY <1>9 DEF Create, TypeOK
  <2> DEFINE inode == IF entry[pick[p]] = NoFile THEN p ELSE entry[pick[p]]
  <2>2. inode \in Procs BY <2>1 DEF TypeOK
  <2>3. /\ entry' = [entry EXCEPT ![pick[p]] = inode]
        /\ text' = [text EXCEPT ![inode] = "empty"]
        /\ fd' = [fd EXCEPT ![p] = inode]
        /\ pc' = [pc EXCEPT ![p] = "write"]
        /\ UNCHANGED <<todo, pick, seen, locked, reused, misread, raced>>
    BY <1>9 DEF Create
  <2>4. inode # NoFile BY <2>2, OwnedAssumption
  <2> HIDE DEF inode
  <2> QED BY <1>9, <2>1, <2>2, <2>3, <2>4 DEF Create, TypeOK, Choosing, Running, Texts
<1>10. CASE WriteDigits(p) \/ WriteNewline(p)
  <2>1. fd[p] \in Procs /\ text[fd[p]] \in Texts
    BY <1>10 DEF WriteDigits, WriteNewline, TypeOK
  <2>2. PICK left \in Over(p, text[fd[p]]) : text' = [text EXCEPT ![fd[p]] = left]
    BY <1>10 DEF WriteDigits, WriteNewline
  <2>3. left \in Texts BY <2>1, <2>2 DEF Over, Texts
  <2>4. text' \in [Procs -> Texts] BY <2>1, <2>2, <2>3 DEF TypeOK
  <2>5. PICK to \in {"newline", "tunnel"} :
          /\ pc' = [pc EXCEPT ![p] = to] /\ pc[p] \in {"write", "newline"}
    BY <1>10 DEF WriteDigits, WriteNewline
  <2>6. /\ UNCHANGED <<todo, pick, seen, fd, entry, reused, misread, raced>>
        /\ locked' \in SUBSET Procs
    BY <1>10 DEF WriteDigits, WriteNewline, TypeOK
  <2> QED BY <2>4, <2>5, <2>6 DEF TypeOK, Choosing, Running
<1>11. CASE AcquireFails(p) BY <1>11 DEF AcquireFails, TypeOK, Choosing, Running
<1>12. CASE TunnelEnds(p) BY <1>12 DEF TunnelEnds, TypeOK, Choosing, Running
<1>13. CASE DropLock(p) BY <1>13 DEF DropLock, TypeOK, Choosing, Running
<1>14. CASE Crash(p) BY <1>14 DEF Crash, TypeOK, Choosing, Running
<1>15. CASE PidReused(p) BY <1>15 DEF PidReused, TypeOK
<1>16. CASE Denied(p) BY <1>16 DEF Denied, TypeOK, Choosing, Running
<1>17. CASE WithUrl(p)
  <2>1. PICK d \in Subdomains : pick' = [pick EXCEPT ![p] = d] BY <1>17 DEF WithUrl
  <2>2. d # AnyFree BY OwnedAssumption
  <2> QED BY <1>17, <2>1, <2>2 DEF WithUrl, TypeOK, Choosing, Running
<1>18. CASE ReadFails(p)
  <2>1. Head(todo[p]) \in Subdomains BY <1>18, InHand DEF ReadFails
  <2>2. misread' \in SUBSET Subdomains BY <1>18, <2>1 DEF ReadFails, TypeOK
  <2> QED BY <1>18, <2>2, TypeVerdict DEF ReadFails, TypeOK
<1> QED
  BY <1>1, <1>2, <1>3, <1>4, <1>5, <1>6, <1>7, <1>8, <1>9, <1>10, <1>11, <1>12, <1>13, <1>14,
     <1>15, <1>16, <1>17, <1>18 DEF Step

\* Every state is well typed: a process past its checks has picked a
\* subdomain, and one that writes has a file open (active.rs:51-91).
THEOREM LockTypeCorrect == Spec => []TypeOK
<1>1. Init => TypeOK
  <2> SUFFICES ASSUME Init PROVE TypeOK OBVIOUS
  <2>1. raced \in BOOLEAN BY Zenon DEF Init
  <2>2. /\ pc = [p \in Procs |-> "start"] /\ todo = [p \in Procs |-> <<>>]
        /\ pick = [p \in Procs |-> AnyFree] /\ seen = [p \in Procs |-> "empty"]
        /\ entry = [d \in Subdomains |-> NoFile] /\ text = [p \in Procs |-> "empty"]
        /\ fd = [p \in Procs |-> NoFile] /\ locked = {} /\ reused = {} /\ misread = {}
    BY Zenon DEF Init
  <2> QED BY <2>1, <2>2 DEF TypeOK, Choosing, Running, Texts
<1>2. TypeOK /\ [Next]_vars => TypeOK'
  <2> SUFFICES ASSUME TypeOK, [Next]_vars PROVE TypeOK' OBVIOUS
  <2>1. ASSUME NEW p \in Procs, Step(p) PROVE TypeOK' BY <2>1, TypeStep
  <2>2. CASE UNCHANGED vars BY <2>2 DEF vars, TypeOK
  <2> QED BY <2>1, <2>2 DEF Next
<1> QED BY <1>1, <1>2, PTL DEF Spec

-----------------------------------------------------------------------------
(* What a lock says *)

Past == {"newline"} \cup Running \cup {"exited", "crashed"}

\* Inode i was made for the subdomain d.
Made(i, d) == pick[i] = d /\ pc[i] \in {"write"} \cup Past

\* In any interleaving: the inode of a path was made for that subdomain, a
\* file open for writing too, and a PID that is in a file, or was read from
\* one, is that of a process that tunnels the subdomain, is about to or did.
NamesInv ==
  /\ \A d \in Subdomains : entry[d] # NoFile => Made(entry[d], d)
  /\ \A p \in Procs : pc[p] \in {"write", "newline"} => Made(fd[p], pick[p])
  /\ \A i \in Procs : text[i] \in Procs =>
       Made(i, pick[text[i]]) /\ pc[text[i]] \in Past
  /\ \A p \in Procs : pc[p] = "probe" /\ seen[p] \in Procs =>
       pick[seen[p]] = Head(todo[p]) /\ pc[seen[p]] \in Past

\* A step of p that writes to no file, opens none and reads none.
LEMMA NamesMove ==
  ASSUME TypeOK, NamesInv, NEW p \in Procs, NEW to, NEW picked,
         UNCHANGED <<text, fd, seen>>,
         \A d \in Subdomains : entry'[d] \in {entry[d], NoFile},
         pc' = [pc EXCEPT ![p] = to], to \notin {"probe", "write", "newline"},
         pick' = [pick EXCEPT ![p] = picked],
         \A q \in Procs : q # p => todo'[q] = todo[q],
         pc[p] \in {"write"} \cup Past => to \in Past /\ picked = pick[p]
  PROVE  NamesInv'
<1>1. \A q \in Procs : pc[q] \in {"write"} \cup Past => pick'[q] = pick[q]
  BY DEF TypeOK
<1>2. \A q \in Procs : pc[q] \in Past => pc'[q] \in Past
  BY DEF TypeOK
<1>3. \A q \in Procs : pc[q] = "write" => pc'[q] \in {"write"} \cup Past
  BY DEF TypeOK
<1>4. \A q \in Procs : pc'[q] \in {"probe", "write", "newline"} =>
        q # p /\ pc'[q] = pc[q] /\ pick'[q] = pick[q]
  BY DEF TypeOK
<1>5. \A i \in Procs : pc[i] \in {"write"} \cup Past => pc'[i] \in {"write"} \cup Past
  BY <1>2, <1>3
<1>6. \A d \in Subdomains : (entry[d] # NoFile => Made(entry[d], d))'
  BY <1>1, <1>5 DEF NamesInv, Made, TypeOK
<1>7. \A q \in Procs : (pc[q] \in {"write", "newline"} => Made(fd[q], pick[q]))'
  BY <1>1, <1>4, <1>5 DEF NamesInv, Made, TypeOK
<1>8. \A i \in Procs : (text[i] \in Procs => Made(i, pick[text[i]]) /\ pc[text[i]] \in Past)'
  BY <1>1, <1>2, <1>5 DEF NamesInv, Made, TypeOK
<1>9. \A q \in Procs : (pc[q] = "probe" /\ seen[q] \in Procs =>
        pick[seen[q]] = Head(todo[q]) /\ pc[seen[q]] \in Past)'
  BY <1>1, <1>2, <1>4 DEF NamesInv, TypeOK
<1> QED BY <1>6, <1>7, <1>8, <1>9 DEF NamesInv

\* What a verdict does to the process that gives it, and to it alone.
LEMMA VerdictEffect ==
  ASSUME TypeOK, NEW p \in Procs, NEW free, Verdict(p, free)
  PROVE  /\ pc' = [pc EXCEPT ![p] = "check"]
         /\ pick' = [pick EXCEPT ![p] = IF free /\ pick[p] = AnyFree THEN Head(todo[p]) ELSE pick[p]]
         /\ \A q \in Procs : q # p => todo'[q] = todo[q]
BY DEF Verdict, TypeOK

LEMMA NamesVerdict ==
  ASSUME TypeOK, NamesInv, NEW p \in Procs, NEW free, Verdict(p, free),
         UNCHANGED <<text, fd, seen>>, \A d \in Subdomains : entry'[d] \in {entry[d], NoFile},
         pc[p] \in {"check", "probe", "unlink"}
  PROVE  NamesInv'
<1>1. /\ pc' = [pc EXCEPT ![p] = "check"]
      /\ \A q \in Procs : q # p => todo'[q] = todo[q]
  BY VerdictEffect
<1>2. PICK picked : pick' = [pick EXCEPT ![p] = picked] BY VerdictEffect
<1>3. pc[p] \notin {"write"} \cup Past BY DEF Past, Running
<1>4. pc[p] \in {"write"} \cup Past => "check" \in Past /\ picked = pick[p] BY <1>3
<1>5. "check" \notin {"probe", "write", "newline"} OBVIOUS
<1> QED BY <1>1, <1>2, <1>4, <1>5, NamesMove, Zenon

LEMMA NamesReadLock ==
  ASSUME TypeOK, NamesInv, NEW p \in Procs, ReadLock(p)
  PROVE  NamesInv'
<1> DEFINE d == Head(todo[p])
<1>1. /\ d \in Subdomains /\ entry[d] \in Procs /\ entry[d] # NoFile
      /\ seen' = [seen EXCEPT ![p] = text[entry[d]]]
      /\ pc' = [pc EXCEPT ![p] = "probe"] /\ pc[p] = "check"
      /\ UNCHANGED <<todo, pick, fd, entry, text>>
  BY InHand DEF ReadLock, Content, TypeOK
<1>2. \A q \in Procs : pc[q] \in {"write"} \cup Past => pc'[q] = pc[q]
  BY <1>1 DEF TypeOK, Past, Running
<1>3. text[entry[d]] \in Procs =>
        pick[text[entry[d]]] = d /\ pc[text[entry[d]]] \in Past
  BY <1>1 DEF NamesInv, Made
<1>4. \A e \in Subdomains : (entry[e] # NoFile => Made(entry[e], e))'
  BY <1>1, <1>2 DEF NamesInv, Made, TypeOK
<1>5. \A q \in Procs : (pc[q] \in {"write", "newline"} => Made(fd[q], pick[q]))'
  <2> SUFFICES ASSUME NEW q \in Procs, pc'[q] \in {"write", "newline"}
               PROVE  Made(fd[q], pick[q])'
    OBVIOUS
  <2>1. pc[q] \in {"write", "newline"} BY <1>1 DEF TypeOK
  <2>2. fd[q] \in Procs /\ Made(fd[q], pick[q]) BY <2>1 DEF NamesInv, TypeOK
  <2> QED BY <1>1, <1>2, <2>2 DEF Made
<1>6. \A i \in Procs : (text[i] \in Procs => Made(i, pick[text[i]]) /\ pc[text[i]] \in Past)'
  BY <1>1, <1>2 DEF NamesInv, Made
<1>7. \A q \in Procs : (pc[q] = "probe" /\ seen[q] \in Procs =>
        pick[seen[q]] = Head(todo[q]) /\ pc[seen[q]] \in Past)'
  <2> SUFFICES ASSUME NEW q \in Procs, pc'[q] = "probe", seen'[q] \in Procs
               PROVE  pick[seen'[q]] = Head(todo[q]) /\ pc'[seen'[q]] \in Past
    BY <1>1
  <2>1. CASE q = p BY <1>1, <1>2, <1>3, <2>1 DEF TypeOK
  <2>2. CASE q # p
    <3>1. pc[q] = "probe" /\ seen'[q] = seen[q] BY <1>1, <2>2 DEF TypeOK
    <3> QED BY <1>2, <3>1 DEF NamesInv
  <2> QED BY <2>1, <2>2
<1> QED BY <1>4, <1>5, <1>6, <1>7 DEF NamesInv

LEMMA NamesCreate ==
  ASSUME TypeOK, NamesInv, NEW p \in Procs, Create(p)
  PROVE  NamesInv'
<1> DEFINE d == pick[p]
           inode == IF entry[d] = NoFile THEN p ELSE entry[d]
<1>1. /\ entry' = [entry EXCEPT ![d] = inode] /\ text' = [text EXCEPT ![inode] = "empty"]
      /\ fd' = [fd EXCEPT ![p] = inode] /\ pc' = [pc EXCEPT ![p] = "write"]
      /\ pc[p] = "create" /\ UNCHANGED <<todo, pick, seen>>
  BY DEF Create
<1>2. d \in Subdomains /\ inode \in Procs BY <1>1 DEF TypeOK
<1>3. \A q \in Procs : pc[q] \in {"write"} \cup Past => q # p /\ pc'[q] = pc[q]
  BY <1>1 DEF TypeOK, Past, Running
<1>4. pick[inode] = d /\ pc'[inode] \in {"write"} \cup Past
  <2>1. CASE entry[d] = NoFile BY <1>1, <2>1 DEF TypeOK
  <2>2. CASE entry[d] # NoFile BY <1>2, <1>3, <2>2 DEF NamesInv, Made
  <2> QED BY <2>1, <2>2
<1>5. "empty" \notin Procs BY OwnedAssumption
<1> HIDE DEF inode
<1>6. \A e \in Subdomains : (entry[e] # NoFile => Made(entry[e], e))'
  <2> SUFFICES ASSUME NEW e \in Subdomains, entry'[e] # NoFile PROVE Made(entry[e], e)'
    OBVIOUS
  <2>1. CASE e = d BY <1>1, <1>2, <1>4, <2>1 DEF Made, TypeOK
  <2>2. CASE e # d BY <1>1, <1>2, <1>3, <2>2 DEF NamesInv, Made, TypeOK
  <2> QED BY <2>1, <2>2
<1>7. \A q \in Procs : (pc[q] \in {"write", "newline"} => Made(fd[q], pick[q]))'
  <2> SUFFICES ASSUME NEW q \in Procs, pc'[q] \in {"write", "newline"}
               PROVE  Made(fd[q], pick[q])'
    OBVIOUS
  <2>1. CASE q = p BY <1>1, <1>2, <1>4, <2>1 DEF Made, TypeOK
  <2>2. CASE q # p
    <3>1. fd'[q] = fd[q] /\ pc[q] \in {"write", "newline"} BY <1>1, <2>2 DEF TypeOK
    <3>2. fd[q] \in Procs /\ Made(fd[q], pick[q]) BY <3>1 DEF NamesInv, TypeOK
    <3> QED BY <1>1, <1>3, <3>1, <3>2 DEF Made
  <2> QED BY <2>1, <2>2
<1>8. \A i \in Procs : (text[i] \in Procs => Made(i, pick[text[i]]) /\ pc[text[i]] \in Past)'
  <2> SUFFICES ASSUME NEW i \in Procs, text'[i] \in Procs
               PROVE  (Made(i, pick[text[i]]) /\ pc[text[i]] \in Past)'
    OBVIOUS
  <2>1. text'[i] = text[i] BY <1>1, <1>2, <1>5 DEF TypeOK
  <2> QED BY <1>1, <1>3, <2>1 DEF NamesInv, Made
<1>9. \A q \in Procs : (pc[q] = "probe" /\ seen[q] \in Procs =>
        pick[seen[q]] = Head(todo[q]) /\ pc[seen[q]] \in Past)'
  <2> SUFFICES ASSUME NEW q \in Procs, pc'[q] = "probe", seen[q] \in Procs
               PROVE  pick[seen[q]] = Head(todo[q]) /\ pc'[seen[q]] \in Past
    BY <1>1
  <2>1. pc[q] = "probe" BY <1>1 DEF TypeOK
  <2> QED BY <1>3, <2>1 DEF NamesInv
<1> QED BY <1>6, <1>7, <1>8, <1>9 DEF NamesInv

LEMMA NamesWrite ==
  ASSUME TypeOK, NamesInv, NEW p \in Procs, NEW to \in {"newline", "tunnel"},
         pc[p] \in {"write", "newline"}, pc' = [pc EXCEPT ![p] = to],
         NEW left \in Over(p, text[fd[p]]), text' = [text EXCEPT ![fd[p]] = left],
         UNCHANGED <<todo, pick, seen, fd, entry>>
  PROVE  NamesInv'
<1>1. fd[p] \in Procs /\ Made(fd[p], pick[p]) BY DEF NamesInv, TypeOK
<1>2. \A q \in Procs : pc[q] \in {"write"} \cup Past => pc'[q] \in {"write"} \cup Past
  BY DEF TypeOK, Past, Running
<1>3. \A q \in Procs : pc[q] \in Past => pc'[q] \in Past
  BY DEF TypeOK, Past, Running
<1>4. pc'[p] \in Past BY DEF TypeOK, Past, Running
<1>5. "garbled" \notin Procs /\ "mixed" \notin Procs BY OwnedAssumption
<1>6. \A e \in Subdomains : (entry[e] # NoFile => Made(entry[e], e))'
  BY <1>2 DEF NamesInv, Made, TypeOK
<1>7. \A q \in Procs : (pc[q] \in {"write", "newline"} => Made(fd[q], pick[q]))'
  <2> SUFFICES ASSUME NEW q \in Procs, pc'[q] \in {"write", "newline"}
               PROVE  Made(fd[q], pick[q])'
    OBVIOUS
  <2>1. pc[q] \in {"write", "newline"} BY DEF TypeOK
  <2>2. fd[q] \in Procs /\ Made(fd[q], pick[q]) BY <2>1 DEF NamesInv, TypeOK
  <2> QED BY <1>2, <2>2 DEF Made
<1>8. \A i \in Procs : (text[i] \in Procs => Made(i, pick[text[i]]) /\ pc[text[i]] \in Past)'
  <2> SUFFICES ASSUME NEW i \in Procs, text'[i] \in Procs
               PROVE  (Made(i, pick[text[i]]) /\ pc[text[i]] \in Past)'
    OBVIOUS
  <2>1. CASE i = fd[p] /\ text'[i] = p BY <1>1, <1>2, <1>4, <2>1 DEF Made
  <2>2. CASE text'[i] = text[i] BY <1>2, <1>3, <2>2 DEF NamesInv, Made
  <2>3. i = fd[p] => text'[i] = left BY <1>1 DEF TypeOK
  <2>4. i # fd[p] => text'[i] = text[i] BY <1>1 DEF TypeOK
  <2> QED BY <1>5, <2>1, <2>2, <2>3, <2>4 DEF Over
<1>9. \A q \in Procs : (pc[q] = "probe" /\ seen[q] \in Procs =>
         pick[seen[q]] = Head(todo[q]) /\ pc[seen[q]] \in Past)'
  <2> SUFFICES ASSUME NEW q \in Procs, pc'[q] = "probe", seen[q] \in Procs
               PROVE  pick[seen[q]] = Head(todo[q]) /\ pc'[seen[q]] \in Past
    OBVIOUS
  <2>1. pc[q] = "probe" BY DEF TypeOK
  <2> QED BY <1>3, <2>1 DEF NamesInv
<1> QED BY <1>6, <1>7, <1>8, <1>9 DEF NamesInv

LEMMA NamesStep == ASSUME TypeOK, NamesInv, NEW p \in Procs, Step(p) PROVE NamesInv'
<1> USE DEF Past, Running
<1>1. CASE Start(p)
  <2>1. pc[p] = "start" /\ pc' = [pc EXCEPT ![p] = "check"] /\ UNCHANGED <<pick, seen, fd, fileVars>>
    BY <1>1 DEF Start
  <2>2. \A q \in Procs : q # p => todo'[q] = todo[q] BY <1>1 DEF Start, TypeOK
  <2>3. pick' = [pick EXCEPT ![p] = pick[p]] BY <2>1 DEF TypeOK
  <2> QED BY <2>1, <2>2, <2>3, NamesMove
<1>2. CASE ReadMissing(p) \/ ReadFails(p)
  BY <1>2, NamesVerdict DEF ReadMissing, ReadFails
<1>3. CASE ReadLock(p) BY <1>3, NamesReadLock
<1>4. CASE ProbeAlive(p)
  <2>1. Verdict(p, FALSE) /\ pc[p] = "probe" /\ UNCHANGED <<text, fd, seen, entry>>
    BY <1>4 DEF ProbeAlive
  <2> QED BY <2>1, NamesVerdict
<1>5. CASE UnlinkStale(p)
  <2>1. \A d \in Subdomains : entry'[d] \in {entry[d], NoFile} BY <1>5 DEF UnlinkStale, TypeOK
  <2>2. Verdict(p, TRUE) /\ pc[p] = "unlink" /\ UNCHANGED <<text, fd, seen>>
    BY <1>5 DEF UnlinkStale
  <2> QED BY <2>1, <2>2, NamesVerdict
<1>6. CASE Create(p) BY <1>6, NamesCreate
<1>7. CASE WriteDigits(p)
  <2>1. PICK left \in Over(p, text[fd[p]]) : text' = [text EXCEPT ![fd[p]] = left]
    BY <1>7 DEF WriteDigits
  <2> QED BY <1>7, <2>1, NamesWrite DEF WriteDigits
<1>8. CASE WriteNewline(p)
  <2>1. PICK left \in Over(p, text[fd[p]]) : text' = [text EXCEPT ![fd[p]] = left]
    BY <1>8 DEF WriteNewline
  <2> QED BY <1>8, <2>1, NamesWrite DEF WriteNewline
<1>9. CASE DropLock(p)
  <2>1. \A d \in Subdomains : entry'[d] \in {entry[d], NoFile} BY <1>9 DEF DropLock, TypeOK
  <2>2. pick' = [pick EXCEPT ![p] = pick[p]] BY <1>9 DEF DropLock, TypeOK
  <2>3. pc[p] = "drop" /\ pc' = [pc EXCEPT ![p] = "exited"] /\ UNCHANGED <<todo, text, fd, seen>>
    BY <1>9 DEF DropLock
  <2>4. pc[p] \in {"write"} \cup Past => "exited" \in Past /\ pick[p] = pick[p] OBVIOUS
  <2>5. \A q \in Procs : q # p => todo'[q] = todo[q] BY <2>3
  <2>6. "exited" \notin {"probe", "write", "newline"} OBVIOUS
  <2> QED BY <2>1, <2>2, <2>3, <2>4, <2>5, <2>6, NamesMove, Zenon
<1>10. CASE \/ Denied(p) \/ ProbeStale(p) \/ Refuse(p) \/ Choose(p) \/ AcquireFails(p)
          \/ TunnelEnds(p) \/ Crash(p)
  <2>1. UNCHANGED <<todo, pick, text, fd, seen, entry>>
    BY <1>10 DEF Denied, ProbeStale, Refuse, Choose, AcquireFails, TunnelEnds, Crash
  <2>2. pick' = [pick EXCEPT ![p] = pick[p]] BY <2>1 DEF TypeOK
  <2>3. PICK to \in {"unlink", "refused", "create", "tunnel", "drop", "exited", "crashed"} :
          /\ pc' = [pc EXCEPT ![p] = to]
          /\ pc[p] \in {"write"} \cup Past => to \in Past
    BY <1>10 DEF Denied, ProbeStale, Refuse, Choose, AcquireFails, TunnelEnds, Crash
  <2>4. /\ \A d \in Subdomains : entry'[d] \in {entry[d], NoFile}
        /\ \A q \in Procs : q # p => todo'[q] = todo[q]
        /\ to \notin {"probe", "write", "newline"}
    BY <2>1, <2>3
  <2>5. pc[p] \in {"write"} \cup Past => to \in Past /\ pick[p] = pick[p] BY <2>3
  <2>6. UNCHANGED <<text, fd, seen>> /\ pc' = [pc EXCEPT ![p] = to] BY <2>1, <2>3
  <2> QED BY <2>2, <2>4, <2>5, <2>6, NamesMove, Zenon
<1>11. CASE PidReused(p) BY <1>11 DEF PidReused, NamesInv, Made
<1>12. CASE WithUrl(p)
  <2>1. PICK d \in Subdomains : pick' = [pick EXCEPT ![p] = d] BY <1>12 DEF WithUrl
  <2>2. /\ pc[p] = "start" /\ pc' = [pc EXCEPT ![p] = "tunnel"]
        /\ UNCHANGED <<todo, text, fd, seen, entry>>
    BY <1>12 DEF WithUrl
  <2>3. pc[p] \in {"write"} \cup Past => "tunnel" \in Past /\ d = pick[p] BY <2>2
  <2>4. \A e \in Subdomains : entry'[e] \in {entry[e], NoFile} BY <2>2
  <2>5. \A q \in Procs : q # p => todo'[q] = todo[q] BY <2>2
  <2>6. "tunnel" \notin {"probe", "write", "newline"} OBVIOUS
  <2> QED BY <2>1, <2>2, <2>3, <2>4, <2>5, <2>6, NamesMove, Zenon
<1> QED
  BY <1>1, <1>2, <1>3, <1>4, <1>5, <1>6, <1>7, <1>8, <1>9, <1>10, <1>11, <1>12 DEF Step

LEMMA NamesCorrect == Spec => [](TypeOK /\ NamesInv)
<1>1. Init => NamesInv
  <2> SUFFICES ASSUME Init PROVE NamesInv OBVIOUS
  <2>1. /\ pc = [p \in Procs |-> "start"] /\ entry = [d \in Subdomains |-> NoFile]
        /\ text = [p \in Procs |-> "empty"]
    BY Zenon DEF Init
  <2> QED BY <2>1, OwnedAssumption DEF NamesInv
<1>2. TypeOK /\ NamesInv /\ [Next]_vars => NamesInv'
  <2> SUFFICES ASSUME TypeOK, NamesInv, [Next]_vars PROVE NamesInv' OBVIOUS
  <2>1. ASSUME NEW p \in Procs, Step(p) PROVE NamesInv' BY <2>1, NamesStep
  <2>2. CASE UNCHANGED vars BY <2>2 DEF vars, NamesInv, Made
  <2> QED BY <2>1, <2>2 DEF Next
<1> QED BY <1>1, <1>2, LockTypeCorrect, PTL DEF Spec

-----------------------------------------------------------------------------
(* Exclusion *)

Guarded(d) == d \notin misread /\ \E p \in Procs : Tunnels(p, d)

\* What the process c that chooses may assume, of a subdomain no read of whose
\* lock failed: it has read the lock of the guarded tunnel of the one in hand, if
\* there is one, it is not about to unlink or truncate the lock of a guarded
\* tunnel, and the file it writes to is its lock.
Careful(c) ==
  /\ pc[c] = "probe" =>
       /\ seen[c] # "mixed"
       /\ \/ Head(todo[c]) \in misread
          \/ \A p \in Procs : Tunnels(p, Head(todo[c])) => seen[c] = p
  /\ pc[c] = "unlink" => ~Guarded(Head(todo[c]))
  /\ pc[c] \in Choosing /\ pick[c] # AnyFree => ~Guarded(pick[c])
  /\ pc[c] = "write" => text[fd[c]] = "empty"
  /\ pc[c] = "newline" => text[fd[c]] = c
  /\ pc[c] \in {"write", "newline"} => pick[c] \in misread \/ entry[pick[c]] = fd[c]

\* As long as no two processes chose at the same time, a guarded tunnel is what
\* its lock says.
AloneInv ==
  /\ \A p, q \in Procs : pc[p] \in Choosing /\ pc[q] \in Choosing => p = q
  /\ \A p \in locked : pc[p] \in Running
  /\ \A p \in Procs : pc[p] = "drop" => p \in locked
  /\ \A p \in Procs : pc[p] = "start" => pick[p] = AnyFree
  /\ \A i \in Procs : text[i] # "mixed"
  /\ \A p \in Procs : \A d \in Subdomains \ misread :
       Tunnels(p, d) => entry[d] # NoFile /\ Content(d) = p
  /\ \A c \in Procs : Careful(c)

\* A step of p that touches no file, after which it tunnels nothing new.
LEMMA AloneMove ==
  ASSUME TypeOK, AloneInv, NEW p \in Procs, NEW to,
         UNCHANGED <<todo, pick, seen, entry, text, fd, misread>>,
         pc' = [pc EXCEPT ![p] = to], to \notin {"start", "probe", "write", "newline"},
         locked' \subseteq locked, \A q \in Procs \ {p} : q \in locked => q \in locked',
         p \in locked' => pc[p] \in Running /\ to \in Running,
         to = "drop" => p \in locked',
         to \in Choosing => pc[p] \in Choosing,
         to = "unlink" => ~Guarded(Head(todo[p]))
  PROVE  AloneInv'
<1> USE DEF Choosing, Running
<1>1. \A q \in Procs : q # p => pc'[q] = pc[q] BY DEF TypeOK
<1>2. pc'[p] = to BY DEF TypeOK
<1>3. \A q \in Procs : \A d : Tunnels(q, d)' => Tunnels(q, d)
  BY <1>1, <1>2 DEF Tunnels
<1>4. \A d : Guarded(d)' => Guarded(d) BY <1>3 DEF Guarded
<1>5. \A q \in Procs : \A d \in Subdomains \ misread' :
        Tunnels(q, d)' => entry'[d] # NoFile /\ text'[entry'[d]] = q
  BY <1>3 DEF AloneInv, Content
<1>6. \A c \in Procs : Careful(c)'
  <2> SUFFICES ASSUME NEW c \in Procs PROVE Careful(c)' OBVIOUS
  <2>1. CASE c = p BY <1>2, <1>4, <2>1 DEF AloneInv, Careful
  <2>2. CASE c # p BY <1>1, <1>3, <1>4, <2>2 DEF AloneInv, Careful
  <2> QED BY <2>1, <2>2
<1>7. \A q \in locked' : pc'[q] \in Running BY <1>1, <1>2 DEF AloneInv, TypeOK
<1>8. \A q \in Procs : (pc'[q] = "drop" => q \in locked') /\ (pc'[q] = "start" => pick'[q] = AnyFree)
  BY <1>1, <1>2 DEF AloneInv
<1>9. \A q, r \in Procs : pc'[q] \in Choosing /\ pc'[r] \in Choosing => q = r
  BY <1>1, <1>2 DEF AloneInv
<1> QED BY <1>5, <1>6, <1>7, <1>8, <1>9 DEF AloneInv, Content

\* The chooser is done with a subdomain: found free, it is not guarded.
LEMMA AloneVerdict ==
  ASSUME TypeOK, AloneInv, NEW p \in Procs, NEW free \in BOOLEAN, Verdict(p, free),
         pc[p] \in {"check", "probe", "unlink"}, todo[p] # <<>>,
         UNCHANGED <<seen, text, fd, locked>>, misread \subseteq misread',
         \A d \in Subdomains : entry'[d] = entry[d] \/ ~Guarded(d),
         free => Head(todo[p]) \in misread' \/ ~Guarded(Head(todo[p]))
  PROVE  AloneInv'
<1> USE DEF Choosing, Running
<1>1. \A q \in Procs : q # p => pc'[q] = pc[q] /\ pick'[q] = pick[q] /\ todo'[q] = todo[q]
  BY VerdictEffect DEF TypeOK
<1>2. pc'[p] = "check" BY VerdictEffect DEF TypeOK
<1>3. pick'[p] = pick[p] \/ (free /\ pick'[p] = Head(todo[p]))
  BY VerdictEffect DEF TypeOK
<1>4. p \notin locked BY DEF AloneInv
<1>5. \A q \in Procs : \A d : Tunnels(q, d)' => Tunnels(q, d)
  BY <1>1, <1>2 DEF Tunnels
<1>6. \A d : Guarded(d)' => Guarded(d) BY <1>5 DEF Guarded
<1>7. \A q \in Procs : \A d \in Subdomains \ misread' :
        Tunnels(q, d)' => entry'[d] # NoFile /\ text'[entry'[d]] = q
  BY <1>5 DEF AloneInv, Content, Guarded
<1>8. \A d : d = pick'[p] /\ d # AnyFree => ~Guarded(d)'
  BY <1>3, <1>6 DEF AloneInv, Careful, Guarded
<1>9. \A c \in Procs : c # p => pc[c] \notin Choosing BY DEF AloneInv
<1>10. \A c \in Procs : Careful(c)'
  <2> SUFFICES ASSUME NEW c \in Procs PROVE Careful(c)' OBVIOUS
  <2>1. CASE c = p BY <1>2, <1>8, <2>1 DEF Careful
  <2>2. CASE c # p BY <1>1, <1>9, <2>2 DEF Careful
  <2> QED BY <2>1, <2>2
<1>11. \A q \in locked' : pc'[q] \in Running BY <1>1, <1>4 DEF AloneInv, TypeOK
<1>12. \A q \in Procs : (pc'[q] = "drop" => q \in locked') /\ (pc'[q] = "start" => pick'[q] = AnyFree)
  BY <1>1, <1>2 DEF AloneInv
<1>13. \A q, r \in Procs : pc'[q] \in Choosing /\ pc'[r] \in Choosing => q = r
  BY <1>1, <1>9
<1> QED BY <1>7, <1>10, <1>11, <1>12, <1>13 DEF AloneInv, Content

LEMMA AloneStart ==
  ASSUME TypeOK, AloneInv, NEW p \in Procs, Start(p), ~raced'
  PROVE  AloneInv'
<1> USE DEF Choosing, Running
<1>1. /\ pc[p] = "start" /\ pc' = [pc EXCEPT ![p] = "check"]
      /\ UNCHANGED <<pick, seen, fd, locked, entry, text, misread>>
  BY DEF Start
<1>2. \A q \in Procs : pc[q] \notin Choosing
  <2>1. raced' = (raced \/ \E q \in Procs : pc[q] \in Choosing) BY Zenon DEF Start
  <2> QED BY <2>1
<1>3. \A q \in Procs : q # p => pc'[q] = pc[q] BY <1>1 DEF TypeOK
<1>4. pc'[p] = "check" /\ pick'[p] = AnyFree BY <1>1 DEF AloneInv, TypeOK
<1>5. \A q \in Procs : \A d : Tunnels(q, d)' => Tunnels(q, d)
  BY <1>1, <1>3, <1>4 DEF Tunnels
<1>6. \A c \in Procs : Careful(c)' BY <1>2, <1>3, <1>4 DEF Careful
<1>7. \A q \in locked' : pc'[q] \in Running BY <1>1, <1>3 DEF AloneInv, TypeOK
<1>8. \A q \in Procs : (pc'[q] = "drop" => q \in locked') /\ (pc'[q] = "start" => pick'[q] = AnyFree)
  BY <1>1, <1>3, <1>4 DEF AloneInv
<1>9. \A q, r \in Procs : pc'[q] \in Choosing /\ pc'[r] \in Choosing => q = r
  BY <1>2, <1>3
<1> QED BY <1>1, <1>5, <1>6, <1>7, <1>8, <1>9 DEF AloneInv, Content

\* A tunnel without a guard claims nothing.
LEMMA AloneUrl ==
  ASSUME TypeOK, AloneInv, NEW p \in Procs, WithUrl(p)
  PROVE  AloneInv'
<1> USE DEF Choosing, Running
<1>1. /\ pc[p] = "start" /\ pc' = [pc EXCEPT ![p] = "tunnel"]
      /\ UNCHANGED <<todo, seen, fd, locked, entry, text, misread>>
  BY DEF WithUrl
<1>2. \A q \in Procs : q # p => pc'[q] = pc[q] /\ pick'[q] = pick[q] BY <1>1 DEF WithUrl, TypeOK
<1>3. pc'[p] = "tunnel" /\ p \notin locked BY <1>1 DEF AloneInv, TypeOK
<1>4. \A q \in Procs : \A d : Tunnels(q, d)' => Tunnels(q, d)
  BY <1>1, <1>2, <1>3 DEF Tunnels
<1>5. \A d : Guarded(d)' => Guarded(d) BY <1>1, <1>4 DEF Guarded
<1>6. \A c \in Procs : Careful(c)'
  <2> SUFFICES ASSUME NEW c \in Procs PROVE Careful(c)' OBVIOUS
  <2>1. CASE c = p BY <1>3, <2>1 DEF Careful
  <2>2. CASE c # p BY <1>1, <1>2, <1>4, <1>5, <2>2 DEF AloneInv, Careful
  <2> QED BY <2>1, <2>2
<1>7. \A q \in locked' : pc'[q] \in Running BY <1>1, <1>2, <1>3 DEF AloneInv, TypeOK
<1>8. \A q \in Procs : (pc'[q] = "drop" => q \in locked') /\ (pc'[q] = "start" => pick'[q] = AnyFree)
  BY <1>1, <1>2, <1>3 DEF AloneInv
<1>9. \A q, r \in Procs : pc'[q] \in Choosing /\ pc'[r] \in Choosing => q = r
  BY <1>2, <1>3 DEF AloneInv
<1> QED BY <1>1, <1>4, <1>6, <1>7, <1>8, <1>9 DEF AloneInv, Content

LEMMA AloneReadLock ==
  ASSUME TypeOK, AloneInv, NEW p \in Procs, ReadLock(p)
  PROVE  AloneInv'
<1> USE DEF Choosing, Running
<1>1. /\ pc[p] = "check" /\ pc' = [pc EXCEPT ![p] = "probe"] /\ Head(todo[p]) \in Subdomains
      /\ seen' = [seen EXCEPT ![p] = Content(Head(todo[p]))]
      /\ UNCHANGED <<todo, pick, fd, locked, entry, text, misread>>
  BY InHand DEF ReadLock
<1>2. \A q \in Procs : q # p => pc'[q] = pc[q] BY <1>1 DEF TypeOK
<1>3. pc'[p] = "probe" /\ seen'[p] = Content(Head(todo[p])) BY <1>1 DEF TypeOK
<1>4. \A q \in Procs : \A d : Tunnels(q, d)' => Tunnels(q, d)
  BY <1>1, <1>2, <1>3 DEF Tunnels, AloneInv
<1>5. \A d : Guarded(d)' => Guarded(d) BY <1>1, <1>4 DEF Guarded
<1>6. \A c \in Procs : c # p => pc'[c] \notin Choosing BY <1>1, <1>2 DEF AloneInv
<1>7. \A c \in Procs : Careful(c)'
  <2> SUFFICES ASSUME NEW c \in Procs PROVE Careful(c)' OBVIOUS
  <2>1. CASE c = p
    <3>1. seen'[p] # "mixed" BY <1>1, <1>3 DEF ReadLock, Content, AloneInv, TypeOK
    <3> QED BY <1>1, <1>3, <1>4, <1>5, <2>1, <3>1 DEF AloneInv, Careful
  <2>2. CASE c # p BY <1>6, <2>2 DEF Careful
  <2> QED BY <2>1, <2>2
<1>8. \A q \in locked' : pc'[q] \in Running BY <1>1, <1>2 DEF AloneInv, TypeOK
<1>9. \A q \in Procs : (pc'[q] = "drop" => q \in locked') /\ (pc'[q] = "start" => pick'[q] = AnyFree)
  BY <1>1, <1>2, <1>3 DEF AloneInv
<1>10. \A q, r \in Procs : pc'[q] \in Choosing /\ pc'[r] \in Choosing => q = r
  BY <1>6
<1> QED BY <1>1, <1>4, <1>7, <1>8, <1>9, <1>10 DEF AloneInv, Content

\* The inode that is created or truncated is the lock of no guarded tunnel:
\* two paths never lead to one inode (NamesInv).
LEMMA AloneCreate ==
  ASSUME TypeOK, NamesInv, AloneInv, NEW p \in Procs, Create(p)
  PROVE  AloneInv'
<1> USE DEF Choosing, Running
<1> DEFINE d == pick[p]
           inode == IF entry[d] = NoFile THEN p ELSE entry[d]
<1>1. /\ entry' = [entry EXCEPT ![d] = inode] /\ text' = [text EXCEPT ![inode] = "empty"]
      /\ fd' = [fd EXCEPT ![p] = inode] /\ pc' = [pc EXCEPT ![p] = "write"]
      /\ pc[p] = "create" /\ UNCHANGED <<todo, pick, seen, locked, misread>>
  BY DEF Create
<1>2. d \in Subdomains /\ inode \in Procs /\ d # AnyFree BY <1>1 DEF TypeOK
<1>3. \A e \in Subdomains : e # d /\ entry[e] # NoFile => entry[e] # inode
  BY <1>1, <1>2 DEF NamesInv, Made, Past
<1>4. \A q \in Procs : q # p => pc'[q] = pc[q] BY <1>1 DEF TypeOK
<1> HIDE DEF inode
<1>5. pc'[p] = "write" /\ entry'[d] = inode /\ text'[inode] = "empty" /\ fd'[p] = inode
  BY <1>1, <1>2 DEF TypeOK
<1>6. \A q \in Procs : \A e : Tunnels(q, e)' => Tunnels(q, e)
  BY <1>1, <1>4, <1>5 DEF Tunnels
<1>7. ~Guarded(d) BY <1>1, <1>2 DEF AloneInv, Careful
<1>8. \A e : e = d => ~Guarded(e)' BY <1>1, <1>6, <1>7 DEF Guarded
<1>9. \A q \in Procs : \A e \in Subdomains \ misread' :
        Tunnels(q, e)' => entry'[e] # NoFile /\ text'[entry'[e]] = q
  <2> SUFFICES ASSUME NEW q \in Procs, NEW e \in Subdomains \ misread', Tunnels(q, e)'
               PROVE  entry'[e] # NoFile /\ text'[entry'[e]] = q
    OBVIOUS
  <2>1. e # d BY <1>8 DEF Guarded
  <2>2. entry[e] # NoFile /\ text[entry[e]] = q BY <1>1, <1>6 DEF AloneInv, Content
  <2>3. entry'[e] = entry[e] /\ entry[e] \in Procs BY <1>1, <2>1, <2>2 DEF TypeOK
  <2> QED BY <1>1, <1>2, <1>3, <2>1, <2>2, <2>3 DEF TypeOK
<1>10. \A c \in Procs : c # p => pc'[c] \notin Choosing BY <1>1, <1>4 DEF AloneInv
<1>11. \A c \in Procs : Careful(c)'
  <2> SUFFICES ASSUME NEW c \in Procs PROVE Careful(c)' OBVIOUS
  <2>1. CASE c = p BY <1>1, <1>5, <1>8, <2>1 DEF Careful
  <2>2. CASE c # p BY <1>10, <2>2 DEF Careful
  <2> QED BY <2>1, <2>2
<1>12. \A q \in locked' : pc'[q] \in Running BY <1>1, <1>4 DEF AloneInv, TypeOK
<1>13. \A q \in Procs : (pc'[q] = "drop" => q \in locked') /\ (pc'[q] = "start" => pick'[q] = AnyFree)
  BY <1>1, <1>4, <1>5 DEF AloneInv
<1>14. \A q, r \in Procs : pc'[q] \in Choosing /\ pc'[r] \in Choosing => q = r
  BY <1>10
<1>15. \A i \in Procs : text'[i] # "mixed" BY <1>1 DEF AloneInv, TypeOK
<1> QED BY <1>9, <1>11, <1>12, <1>13, <1>14, <1>15 DEF AloneInv, Content

\* A file that is written belongs to no guarded tunnel but, in the end, to the writer's.
LEMMA AloneDigits ==
  ASSUME TypeOK, AloneInv, NEW p \in Procs, WriteDigits(p)
  PROVE  AloneInv'
<1> USE DEF Choosing, Running
<1>1. /\ pc[p] = "write" /\ pc' = [pc EXCEPT ![p] = "newline"]
      /\ UNCHANGED <<todo, pick, seen, fd, locked, entry, misread>>
  BY DEF WriteDigits
<1>2. fd[p] \in Procs /\ text[fd[p]] = "empty" BY <1>1 DEF AloneInv, Careful, TypeOK
<1>3. text' = [text EXCEPT ![fd[p]] = p] BY <1>2 DEF WriteDigits
<1>4. \A q \in Procs : q # p => pc'[q] = pc[q] BY <1>1 DEF TypeOK
<1>5. pc'[p] = "newline" /\ text'[fd[p]] = p BY <1>1, <1>2, <1>3 DEF TypeOK
<1>6. \A q \in Procs : \A e : Tunnels(q, e)' => Tunnels(q, e)
  BY <1>1, <1>4, <1>5 DEF Tunnels
<1>7. \A e : Guarded(e)' => Guarded(e) BY <1>1, <1>6 DEF Guarded
<1>8. \A q \in Procs : \A e \in Subdomains \ misread' :
        Tunnels(q, e)' => entry'[e] # NoFile /\ text'[entry'[e]] = q
  <2> SUFFICES ASSUME NEW q \in Procs, NEW e \in Subdomains \ misread', Tunnels(q, e)'
               PROVE  entry'[e] # NoFile /\ text'[entry'[e]] = q
    OBVIOUS
  <2>1. entry[e] # NoFile /\ text[entry[e]] = q /\ entry[e] \in Procs
    BY <1>1, <1>6 DEF AloneInv, Content, TypeOK
  <2>2. entry[e] # fd[p] BY <1>2, <2>1, OwnedAssumption
  <2> QED BY <1>1, <1>2, <1>3, <2>1, <2>2 DEF TypeOK
<1>9. \A c \in Procs : Careful(c)'
  <2> SUFFICES ASSUME NEW c \in Procs PROVE Careful(c)' OBVIOUS
  <2>1. CASE c = p BY <1>1, <1>5, <1>7, <2>1 DEF AloneInv, Careful
  <2>2. CASE c # p BY <1>1, <1>4, <2>2 DEF AloneInv, Careful
  <2> QED BY <2>1, <2>2
<1>10. \A q \in locked' : pc'[q] \in Running BY <1>1, <1>4 DEF AloneInv, TypeOK
<1>11. \A q \in Procs : (pc'[q] = "drop" => q \in locked') /\ (pc'[q] = "start" => pick'[q] = AnyFree)
  BY <1>1, <1>4, <1>5 DEF AloneInv
<1>12. \A q, r \in Procs : pc'[q] \in Choosing /\ pc'[r] \in Choosing => q = r
  BY <1>1, <1>4 DEF AloneInv
<1>13. \A i \in Procs : text'[i] # "mixed"
  BY <1>2, <1>3, OwnedAssumption DEF AloneInv, TypeOK
<1> QED BY <1>8, <1>9, <1>10, <1>11, <1>12, <1>13 DEF AloneInv, Content

LEMMA AloneNewline ==
  ASSUME TypeOK, AloneInv, NEW p \in Procs, WriteNewline(p)
  PROVE  AloneInv'
<1> USE DEF Choosing, Running
<1>1. /\ pc[p] = "newline" /\ pc' = [pc EXCEPT ![p] = "tunnel"] /\ locked' = locked \cup {p}
      /\ UNCHANGED <<todo, pick, seen, fd, entry, misread>>
  BY DEF WriteNewline
<1>2. fd[p] \in Procs /\ pick[p] \in Subdomains /\ pick[p] # AnyFree /\ text[fd[p]] = p
  BY <1>1 DEF AloneInv, Careful, TypeOK
<1>3. pick[p] \in misread \/ entry[pick[p]] = fd[p] BY <1>1 DEF AloneInv, Careful
<1>4. text' = text
  <2>1. text' = [text EXCEPT ![fd[p]] = p] BY <1>2 DEF WriteNewline
  <2> QED BY <1>2, <2>1 DEF TypeOK
<1>5. \A q \in Procs : q # p => pc'[q] = pc[q] BY <1>1 DEF TypeOK
<1>6. pc'[p] = "tunnel" BY <1>1 DEF TypeOK
<1>7. \A q \in Procs : \A e : q # p /\ Tunnels(q, e)' => Tunnels(q, e)
  BY <1>1, <1>5 DEF Tunnels
<1>8. \A q \in Procs : \A e \in Subdomains \ misread' :
        Tunnels(q, e)' => entry'[e] # NoFile /\ text'[entry'[e]] = q
  <2> SUFFICES ASSUME NEW q \in Procs, NEW e \in Subdomains \ misread', Tunnels(q, e)'
               PROVE  entry'[e] # NoFile /\ text'[entry'[e]] = q
    OBVIOUS
  <2>1. CASE q = p
    <3>1. e = pick[p] BY <1>1, <2>1 DEF Tunnels
    <3> QED BY <1>1, <1>2, <1>3, <1>4, <2>1, <3>1, OwnedAssumption
  <2>2. CASE q # p BY <1>1, <1>4, <1>7, <2>2 DEF AloneInv, Content
  <2> QED BY <2>1, <2>2
<1>9. \A c \in Procs : pc'[c] \notin Choosing BY <1>1, <1>5, <1>6 DEF AloneInv
<1>10. \A c \in Procs : Careful(c)' BY <1>9 DEF Careful
<1>11. \A q \in locked' : pc'[q] \in Running BY <1>1, <1>5, <1>6 DEF AloneInv, TypeOK
<1>12. \A q \in Procs : (pc'[q] = "drop" => q \in locked') /\ (pc'[q] = "start" => pick'[q] = AnyFree)
  BY <1>1, <1>5, <1>6 DEF AloneInv
<1> QED BY <1>4, <1>8, <1>9, <1>10, <1>11, <1>12 DEF AloneInv, Content

\* The file a guard removes is its own.
LEMMA AloneDrop ==
  ASSUME TypeOK, AloneInv, NEW p \in Procs, DropLock(p)
  PROVE  AloneInv'
<1> USE DEF Choosing, Running
<1>1. /\ pc[p] = "drop" /\ pc' = [pc EXCEPT ![p] = "exited"] /\ locked' = locked \ {p}
      /\ entry' = [entry EXCEPT ![pick[p]] = NoFile]
      /\ UNCHANGED <<todo, pick, seen, fd, text, misread>>
  BY DEF DropLock
<1>2. Tunnels(p, pick[p]) /\ pick[p] \in Subdomains
  BY <1>1 DEF AloneInv, Tunnels, TypeOK
<1>3. \A q \in Procs : q # p => pc'[q] = pc[q] BY <1>1 DEF TypeOK
<1>4. pc'[p] = "exited" BY <1>1 DEF TypeOK
<1>5. \A q \in Procs : \A e : Tunnels(q, e)' => q # p /\ Tunnels(q, e)
  BY <1>1, <1>3 DEF Tunnels
<1>6. \A e : Guarded(e)' => Guarded(e) BY <1>1, <1>5 DEF Guarded
<1>7. \A q \in Procs : \A e \in Subdomains \ misread' :
        Tunnels(q, e)' => entry'[e] # NoFile /\ text'[entry'[e]] = q
  <2> SUFFICES ASSUME NEW q \in Procs, NEW e \in Subdomains \ misread', Tunnels(q, e)'
               PROVE  entry'[e] # NoFile /\ text'[entry'[e]] = q
    OBVIOUS
  <2>1. entry[e] # NoFile /\ text[entry[e]] = q BY <1>1, <1>5 DEF AloneInv, Content
  <2>2. e # pick[p] BY <1>1, <1>2, <1>5, <2>1 DEF AloneInv, Content
  <2> QED BY <1>1, <2>1, <2>2 DEF TypeOK
<1>8. \A c \in Procs : Careful(c)'
  <2> SUFFICES ASSUME NEW c \in Procs PROVE Careful(c)' OBVIOUS
  <2>1. CASE pc[c] \in Choosing /\ c # p
    <3>1. Careful(c) /\ pc'[c] = pc[c] BY <1>3, <2>1 DEF AloneInv
    <3>2. pc[c] \in {"write", "newline"} /\ pick[c] \notin misread =>
            entry'[pick[c]] = entry[pick[c]]
      <4> SUFFICES ASSUME pc[c] \in {"write", "newline"}, pick[c] \notin misread
                   PROVE  entry'[pick[c]] = entry[pick[c]]
        OBVIOUS
      <4>1. pick[c] \in Subdomains /\ pick[c] # AnyFree BY DEF TypeOK
      <4>2. pick[c] # pick[p] BY <1>2, <3>1, <4>1 DEF Careful, Guarded
      <4> QED BY <1>1, <4>1, <4>2 DEF TypeOK
    <3> QED BY <1>1, <1>5, <1>6, <3>1, <3>2 DEF Careful
  <2>2. CASE ~(pc[c] \in Choosing /\ c # p) BY <1>3, <1>4, <2>2 DEF Careful
  <2> QED BY <2>1, <2>2
<1>9. \A q \in locked' : pc'[q] \in Running BY <1>1, <1>3 DEF AloneInv, TypeOK
<1>10. \A q \in Procs : (pc'[q] = "drop" => q \in locked') /\ (pc'[q] = "start" => pick'[q] = AnyFree)
  BY <1>1, <1>3, <1>4 DEF AloneInv
<1>11. \A q, r \in Procs : pc'[q] \in Choosing /\ pc'[r] \in Choosing => q = r
  BY <1>3, <1>4 DEF AloneInv
<1> QED BY <1>1, <1>7, <1>8, <1>9, <1>10, <1>11 DEF AloneInv, Content

LEMMA AloneStep ==
  ASSUME TypeOK, NamesInv, AloneInv, NEW p \in Procs, Step(p), ~raced'
  PROVE  AloneInv'
<1>1. CASE Start(p) BY <1>1, AloneStart
<1>2. CASE ReadMissing(p)
  <2>1. Head(todo[p]) \in Subdomains BY <1>2, InHand DEF ReadMissing
  <2>2. ~Guarded(Head(todo[p])) BY <1>2, <2>1 DEF ReadMissing, AloneInv, Guarded
  <2> QED BY <1>2, <2>2, AloneVerdict DEF ReadMissing
<1>3. CASE ReadFails(p)
  <2>1. misread \subseteq misread' /\ Head(todo[p]) \in misread' BY <1>3 DEF ReadFails
  <2> QED BY <1>3, <2>1, AloneVerdict DEF ReadFails
<1>4. CASE ReadLock(p) BY <1>4, AloneReadLock
<1>5. CASE ProbeAlive(p)
  <2>1. /\ Verdict(p, FALSE) /\ pc[p] = "probe"
        /\ UNCHANGED <<seen, text, fd, locked, entry, misread>>
    BY <1>5 DEF ProbeAlive
  <2> QED BY <2>1, AloneVerdict DEF TypeOK
<1>6. CASE ProbeStale(p)
  <2>1. /\ pc[p] = "probe" /\ (seen[p] \in Procs => ~PidAlive(seen[p]))
        /\ pc' = [pc EXCEPT ![p] = "unlink"]
        /\ UNCHANGED <<todo, pick, seen, entry, text, fd, locked, misread>>
    BY <1>6 DEF ProbeStale
  <2>2. ~Guarded(Head(todo[p]))
    <3> SUFFICES ASSUME NEW q \in Procs, Tunnels(q, Head(todo[p])), Head(todo[p]) \notin misread
                 PROVE  FALSE
      BY DEF Guarded
    <3>1. seen[p] = q BY <2>1 DEF AloneInv, Careful
    <3> QED BY <2>1, <3>1 DEF Tunnels, PidAlive, Exists
  <2>3. p \notin locked BY <2>1 DEF AloneInv, Running
  <2> QED BY <2>1, <2>2, <2>3, AloneMove DEF Choosing
<1>7. CASE UnlinkStale(p)
  <2>1. /\ Verdict(p, TRUE) /\ pc[p] = "unlink" /\ UNCHANGED <<seen, text, fd, locked, misread>>
        /\ entry' \in {entry, [entry EXCEPT ![Head(todo[p])] = NoFile]}
    BY <1>7 DEF UnlinkStale
  <2>2. ~Guarded(Head(todo[p])) BY <2>1 DEF AloneInv, Careful
  <2>3. \A d \in Subdomains : entry'[d] = entry[d] \/ ~Guarded(d) BY <2>1, <2>2 DEF TypeOK
  <2> QED BY <2>1, <2>2, <2>3, AloneVerdict DEF TypeOK
<1>8. CASE Refuse(p) \/ Choose(p) \/ AcquireFails(p)
  <2>1. PICK to \in {"refused", "create", "tunnel"} :
          /\ pc' = [pc EXCEPT ![p] = to] /\ pc[p] \in Choosing
          /\ UNCHANGED <<todo, pick, seen, entry, text, fd, locked, misread>>
    BY <1>8 DEF Refuse, Choose, AcquireFails, Choosing
  <2>2. p \notin locked BY <2>1 DEF AloneInv, Running, Choosing
  <2> QED BY <2>1, <2>2, AloneMove DEF Choosing
<1>9. CASE Create(p) BY <1>9, AloneCreate
<1>10. CASE WriteDigits(p) BY <1>10, AloneDigits
<1>11. CASE WriteNewline(p) BY <1>11, AloneNewline
<1>12. CASE TunnelEnds(p)
  <2>1. /\ pc[p] = "tunnel" /\ UNCHANGED <<todo, pick, seen, entry, text, fd, locked, misread>>
        /\ pc' = [pc EXCEPT ![p] = IF p \in locked THEN "drop" ELSE "exited"]
    BY <1>12 DEF TunnelEnds
  <2>2. CASE p \in locked BY <2>1, <2>2, AloneMove DEF Running, Choosing
  <2>3. CASE p \notin locked BY <2>1, <2>3, AloneMove DEF Running, Choosing
  <2> QED BY <2>2, <2>3
<1>13. CASE DropLock(p) BY <1>13, AloneDrop
<1>14. CASE Crash(p)
  <2>1. /\ pc' = [pc EXCEPT ![p] = "crashed"] /\ locked' = locked \ {p}
        /\ UNCHANGED <<todo, pick, seen, entry, text, fd, misread>>
    BY <1>14 DEF Crash
  <2> QED BY <2>1, AloneMove DEF Choosing
<1>15. CASE PidReused(p)
  BY <1>15 DEF PidReused, AloneInv, Careful, Guarded, Tunnels, Content
<1>16. CASE Denied(p)
  <2>1. /\ pc[p] = "start" /\ pc' = [pc EXCEPT ![p] = "refused"]
        /\ UNCHANGED <<todo, pick, seen, entry, text, fd, locked, misread>>
    BY <1>16 DEF Denied
  <2>2. p \notin locked BY <2>1 DEF AloneInv, Running
  <2> QED BY <2>1, <2>2, AloneMove DEF Choosing
<1>17. CASE WithUrl(p) BY <1>17, AloneUrl
<1> QED
  BY <1>1, <1>2, <1>3, <1>4, <1>5, <1>6, <1>7, <1>8, <1>9, <1>10, <1>11, <1>12, <1>13, <1>14,
     <1>15, <1>16, <1>17 DEF Step

AloneUnlessRaced == raced \/ AloneInv

LEMMA RacedStays == ASSUME NEW p \in Procs, Step(p) PROVE raced => raced'
BY DEF Step, Denied, WithUrl, Start, ReadMissing, ReadFails, ReadLock, ProbeAlive, ProbeStale,
   UnlinkStale, Refuse, Choose, Create, WriteDigits, WriteNewline, AcquireFails, TunnelEnds, DropLock,
   Crash, PidReused

LEMMA AloneInvariant == Spec => []AloneUnlessRaced
<1> DEFINE Inv == AloneUnlessRaced
<1> USE DEF AloneUnlessRaced
<1>1. Init => Inv
  <2> SUFFICES ASSUME Init PROVE AloneInv OBVIOUS
  <2>1. pc = [p \in Procs |-> "start"] /\ pick = [p \in Procs |-> AnyFree] /\ locked = {}
        /\ text = [p \in Procs |-> "empty"]
    BY Zenon DEF Init
  <2> QED BY <2>1 DEF AloneInv, Careful, Guarded, Tunnels, Choosing, Running
<1>2. TypeOK /\ NamesInv /\ Inv /\ [Next]_vars => Inv'
  <2> SUFFICES ASSUME TypeOK, NamesInv, Inv, [Next]_vars, ~raced' PROVE AloneInv'
    OBVIOUS
  <2>1. ASSUME NEW p \in Procs, Step(p) PROVE AloneInv'
    <3>1. raced => raced' BY <2>1, RacedStays
    <3> QED BY <2>1, <3>1, AloneStep
  <2>2. CASE UNCHANGED vars
    BY <2>2 DEF vars, AloneInv, Careful, Guarded, Tunnels, Content
  <2> QED BY <2>1, <2>2 DEF Next
<1> QED BY <1>1, <1>2, NamesCorrect, PTL DEF Spec

\* As long as no two processes choose at the same time, no second one takes the
\* subdomain of a guarded tunnel, for any number of processes and through any
\* crashes, failed writes and reused PIDs, unless a read of that subdomain's own
\* lock failed (active.rs:51-91).
THEOREM ExclusionCorrect == Spec => []ExclusiveUnlessRaced
<1>1. AloneUnlessRaced => ExclusiveUnlessRaced
  BY DEF AloneUnlessRaced, AloneInv, ExclusiveUnlessRaced, OneTunnelPerSubdomain,
     Exclusive
<1> QED BY <1>1, AloneInvariant, PTL

\* Nor does a guarded tunnel lose its lockfile, to the Drop of another guard, to
\* a process that takes it for stale, or to one that tunnels without a guard,
\* with the same exception (active.rs:19-26, 51-75).
THEOREM VisibilityCorrect == Spec => []VisibleUnlessRaced
<1>1. AloneUnlessRaced => VisibleUnlessRaced
  BY DEF AloneUnlessRaced, AloneInv, VisibleUnlessRaced
<1> QED BY <1>1, AloneInvariant, PTL

\* Whatever the interleaving, the crashes and the errors, a process is turned
\* away from a subdomain only by one that tunnels it or is about to, by a PID
\* used again, or by a number that two writers made, who raced (active.rs:51-75).
THEOREM SkipsCorrect == Spec => SkipsOnlyTunnelled
<1>1. ASSUME TypeOK, NamesInv, AloneUnlessRaced, Next, NEW p \in Procs PROVE SkipJustified(p)
  <2> SUFFICES ASSUME pc[p] = "probe", pc'[p] = "check"
               PROVE  IF seen[p] = "mixed" THEN raced
                      ELSE \/ seen[p] \in reused
                           \/ pc[seen[p]] \in {"newline"} \cup Running /\ pick[seen[p]] = Head(todo[p])
    BY DEF SkipJustified
  <2>1. PICK q \in Procs : Step(q) BY <1>1 DEF Next
  <2>2. q = p /\ ProbeAlive(p)
    BY <1>1, <2>1 DEF Step, Denied, WithUrl, Start, ReadMissing, ReadFails, ReadLock, ProbeAlive, ProbeStale,
       UnlinkStale, Verdict, Refuse, Choose, Create, WriteDigits, WriteNewline, AcquireFails, TunnelEnds,
       DropLock, Crash, PidReused, TypeOK
  <2>3. CASE seen[p] = "mixed" BY <1>1, <2>3 DEF AloneUnlessRaced, AloneInv, Careful
  <2>4. CASE seen[p] # "mixed"
    <3>1. seen[p] \in Procs /\ (Exists(seen[p]) \/ seen[p] \in reused)
      BY <2>2, <2>4 DEF ProbeAlive, PidAlive
    <3>2. pick[seen[p]] = Head(todo[p]) /\ pc[seen[p]] \in Past
      BY <1>1, <3>1 DEF NamesInv
    <3> QED BY <2>4, <3>1, <3>2 DEF Exists, Past, Running, Choosing
  <2> QED BY <2>3, <2>4
<1>2. TypeOK /\ NamesInv /\ AloneUnlessRaced /\ [Next]_vars => [\A p \in Procs : SkipJustified(p)]_vars
  BY <1>1
<1> QED BY <1>2, NamesCorrect, AloneInvariant, PTL DEF Spec, SkipsOnlyTunnelled

-----------------------------------------------------------------------------
(* Ownership *)

\* The loop of owns_it accepts only names below an owned one.
LEMMA OwnedMeansBelow ==
  ASSUME NEW name \in Seq(Labels), NEW owned, OwnsIt(name, owned)
  PROVE  \E o \in owned : Below(name, o)
<1>1. PICK i \in 1..Len(name) : SubSeq(name, i, Len(name)) \in owned BY DEF OwnsIt
<1> DEFINE o == SubSeq(name, i, Len(name))
<1>2. /\ Len(name) \in Nat /\ Len(o) = Len(name) - i + 1
      /\ \A j \in 1..Len(name) - i + 1 : o[j] = name[i + j - 1]
  BY SubSeqProperties
<1>3. \A k \in 0..Len(o) - 1 : name[Len(name) - k] = o[Len(o) - k]
  <2> HIDE DEF o
  <2> SUFFICES ASSUME NEW k \in 0..Len(o) - 1 PROVE name[Len(name) - k] = o[Len(o) - k]
    OBVIOUS
  <2>1. Len(o) - k \in 1..Len(name) - i + 1 BY <1>2
  <2>2. i + (Len(o) - k) - 1 = Len(name) - k BY <1>2
  <2> QED BY <1>2, <2>1, <2>2
<1>4. Len(o) <= Len(name) BY <1>2
<1> HIDE DEF o
<1> QED BY <1>1, <1>3, <1>4 DEF Below, o

LEMMA StrippedName == ASSUME NEW t \in Seq(Labels) PROVE Stripped(t) \in Seq(Labels)
<1>1. Len(t) > 2 => SubSeq(t, 1, Len(t) - 2) \in Seq(Labels)
  BY LenProperties, SubSeqProperties
<1> QED BY <1>1 DEF Stripped

LEMMA SubdomainsOwned == ASSUME NEW d \in Subdomains PROVE \E o \in Claimed : Below(d, o)
<1>1. CASE d \in Claimed
  <2>1. d \in Seq(Labels) BY <1>1, OwnedAssumption, ElementOfSeq DEF Claimed
  <2>2. Len(d) \in Nat BY <2>1, LenProperties
  <2>3. Below(d, d) BY <2>2 DEF Below
  <2> QED BY <1>1, <2>3
<1>2. CASE d \in Wanted
  <2>1. PICK t \in Typed : d = Stripped(t) /\ OwnsIt(Stripped(t), Claimed)
    BY <1>2 DEF Wanted
  <2>2. d \in Seq(Labels) BY <2>1, StrippedName, OwnedAssumption
  <2> QED BY <2>1, <2>2, OwnedMeansBelow
<1> QED BY <1>1, <1>2 DEF Subdomains

\* Whatever is typed, a guard is for a name of the account or one below it
\* (main.rs:220-253).
THEOREM OwnershipCorrect == Spec => []GuardsOnlyOwned
<1> DEFINE Inv == \A p \in locked : pc[p] \in Running
<1>1. Init => Inv BY DEF Init
<1>2. TypeOK /\ Inv /\ [Next]_vars => Inv'
  <2> SUFFICES ASSUME TypeOK, Inv, [Next]_vars, NEW q \in locked' PROVE pc'[q] \in Running
    OBVIOUS
  <2>1. ASSUME NEW p \in Procs, Step(p) PROVE pc'[q] \in Running
    <3> USE DEF Running, TypeOK
    <3>1. CASE WriteNewline(p) BY <3>1 DEF WriteNewline
    <3>2. CASE TunnelEnds(p) BY <3>2 DEF TunnelEnds
    <3>3. CASE DropLock(p) \/ Crash(p) BY <3>3 DEF DropLock, Crash
    <3>4. CASE ReadMissing(p) \/ ReadFails(p) \/ ProbeAlive(p) \/ UnlinkStale(p)
      <4>1. pc[p] \in Choosing /\ locked' = locked /\ \A r \in Procs : r # p => pc'[r] = pc[r]
        BY <3>4 DEF ReadMissing, ReadFails, ProbeAlive, UnlinkStale, Verdict, Choosing
      <4>2. q # p BY <4>1 DEF Choosing
      <4> QED BY <4>1, <4>2
    <3>5. CASE \/ Denied(p) \/ WithUrl(p) \/ Start(p) \/ ReadLock(p) \/ ProbeStale(p) \/ Refuse(p)
               \/ Choose(p) \/ Create(p) \/ WriteDigits(p) \/ AcquireFails(p)
      <4>1. /\ pc[p] \in {"start"} \cup Choosing /\ locked' = locked
            /\ \A r \in Procs : r # p => pc'[r] = pc[r]
        BY <3>5 DEF Denied, WithUrl, Start, ReadLock, ProbeStale, Refuse, Choose, Create,
           WriteDigits, AcquireFails, Choosing
      <4>2. q # p BY <4>1 DEF Choosing
      <4> QED BY <4>1, <4>2
    <3>6. CASE PidReused(p) BY <3>6 DEF PidReused
    <3> QED BY <2>1, <3>1, <3>2, <3>3, <3>4, <3>5, <3>6 DEF Step
  <2>2. CASE UNCHANGED vars BY <2>2 DEF vars
  <2> QED BY <2>1, <2>2 DEF Next
<1>3. TypeOK /\ Inv => GuardsOnlyOwned
  BY SubdomainsOwned DEF TypeOK, GuardsOnlyOwned, Running
<1> QED BY <1>1, <1>2, <1>3, LockTypeCorrect, PTL DEF Spec

-----------------------------------------------------------------------------
(* Leases *)

\* A PID in a file, or read from one, is that of a process that opened a lockfile;
\* who takes a lock has looked at all of its list.
LeaseInv ==
  /\ \A i \in Procs : text[i] \in Procs => fd[text[i]] # NoFile
  /\ \A p \in Procs : pc[p] = "probe" /\ seen[p] \in Procs => fd[seen[p]] # NoFile
  /\ \A p \in Procs : pc[p] \in {"create", "write", "newline"} => todo[p] = <<>>

\* A step of p that reads no PID, and writes none but its own.
LEMMA LeaseMove ==
  ASSUME TypeOK, LeaseInv, NEW p \in Procs, NEW to,
         pc' = [pc EXCEPT ![p] = to], to # "probe", UNCHANGED seen,
         \A q \in Procs : fd[q] # NoFile => fd'[q] # NoFile,
         \A i \in Procs : text'[i] \in Procs =>
           text'[i] = text[i] \/ (text'[i] = p /\ fd'[p] # NoFile),
         \A q \in Procs : q # p => todo'[q] = todo[q],
         to \in {"create", "write", "newline"} => todo'[p] = <<>>
  PROVE  LeaseInv'
<1>1. /\ \A q \in Procs : q # p => pc'[q] = pc[q]
      /\ pc'[p] = to
  BY DEF TypeOK
<1>2. \A i \in Procs : (text[i] \in Procs => fd[text[i]] # NoFile)' BY DEF LeaseInv
<1>3. \A q \in Procs : (pc[q] = "probe" /\ seen[q] \in Procs => fd[seen[q]] # NoFile)'
  BY <1>1 DEF LeaseInv
<1>4. \A q \in Procs : (pc[q] \in {"create", "write", "newline"} => todo[q] = <<>>)'
  BY <1>1 DEF LeaseInv
<1> QED BY <1>2, <1>3, <1>4 DEF LeaseInv

\* What is written to a file, and to it alone.
LEMMA LeaseWrite ==
  ASSUME TypeOK, LeaseInv, NEW p \in Procs, pc[p] \in {"write", "newline"},
         NEW left \in Over(p, text[fd[p]]), text' = [text EXCEPT ![fd[p]] = left]
  PROVE  /\ todo[p] = <<>> /\ fd[p] # NoFile
         /\ \A i \in Procs : text'[i] \in Procs => text'[i] \in {text[i], p}
<1>1. "mixed" \notin Procs /\ "garbled" \notin Procs BY OwnedAssumption
<1>2. \A i \in Procs : text'[i] = text[i] \/ (i = fd[p] /\ text'[i] = left) BY DEF TypeOK
<1> QED BY <1>1, <1>2 DEF Over, TypeOK, LeaseInv

LEMMA LeaseStep == ASSUME TypeOK, LeaseInv, NEW p \in Procs, Step(p) PROVE LeaseInv'
<1>1. CASE \/ Denied(p) \/ WithUrl(p) \/ ProbeStale(p) \/ Refuse(p) \/ TunnelEnds(p) \/ Choose(p)
          \/ AcquireFails(p) \/ DropLock(p) \/ Crash(p)
  BY <1>1, LeaseMove DEF Denied, WithUrl, ProbeStale, Refuse, TunnelEnds, Choose, AcquireFails,
     DropLock, Crash
<1>2. CASE Start(p)
  <2>1. \A q \in Procs : q # p => todo'[q] = todo[q] BY <1>2 DEF Start, TypeOK
  <2> QED BY <1>2, <2>1, LeaseMove DEF Start
<1>3. CASE ReadMissing(p) \/ ReadFails(p) \/ ProbeAlive(p) \/ UnlinkStale(p)
  <2>1. PICK free : Verdict(p, free)
    BY <1>3 DEF ReadMissing, ReadFails, ProbeAlive, UnlinkStale
  <2>2. /\ pc' = [pc EXCEPT ![p] = "check"]
        /\ \A q \in Procs : q # p => todo'[q] = todo[q]
    BY <2>1, VerdictEffect
  <2>3. UNCHANGED <<seen, text, fd>> BY <1>3 DEF ReadMissing, ReadFails, ProbeAlive, UnlinkStale
  <2> QED BY <2>2, <2>3, LeaseMove
<1>4. CASE ReadLock(p)
  <2> DEFINE d == Head(todo[p])
  <2>1. /\ entry[d] \in Procs /\ seen' = [seen EXCEPT ![p] = text[entry[d]]]
        /\ pc' = [pc EXCEPT ![p] = "probe"] /\ UNCHANGED <<todo, fd, text>>
    BY <1>4, InHand DEF ReadLock, Content, TypeOK
  <2>2. text[entry[d]] \in Procs => fd[text[entry[d]]] # NoFile BY <2>1 DEF LeaseInv
  <2>3. \A q \in Procs : (pc[q] = "probe" /\ seen[q] \in Procs => fd[seen[q]] # NoFile)'
    BY <2>1, <2>2 DEF LeaseInv, TypeOK
  <2>4. \A q \in Procs : (pc[q] \in {"create", "write", "newline"} => todo[q] = <<>>)'
    BY <2>1 DEF LeaseInv, TypeOK
  <2> QED BY <2>1, <2>3, <2>4 DEF LeaseInv
<1>5. CASE Create(p)
  <2> DEFINE inode == IF entry[pick[p]] = NoFile THEN p ELSE entry[pick[p]]
  <2>1. /\ text' = [text EXCEPT ![inode] = "empty"] /\ fd' = [fd EXCEPT ![p] = inode]
        /\ pc[p] = "create" /\ pc' = [pc EXCEPT ![p] = "write"] /\ UNCHANGED <<todo, seen>>
    BY <1>5 DEF Create
  <2>2. inode # NoFile /\ "empty" \notin Procs BY OwnedAssumption
  <2> HIDE DEF inode
  <2>3. \A q \in Procs : fd[q] # NoFile => fd'[q] # NoFile BY <2>1, <2>2 DEF TypeOK
  <2>4. \A i \in Procs : text'[i] \in Procs => text'[i] = text[i] BY <2>1, <2>2 DEF TypeOK
  <2>5. todo'[p] = <<>> BY <2>1 DEF LeaseInv
  <2> QED BY <2>1, <2>3, <2>4, <2>5, LeaseMove
<1>6. CASE WriteDigits(p) \/ WriteNewline(p)
  <2>1. /\ pc[p] \in {"write", "newline"} /\ UNCHANGED <<todo, seen, fd>>
        /\ \E to \in {"newline", "tunnel"} : pc' = [pc EXCEPT ![p] = to]
    BY <1>6 DEF WriteDigits, WriteNewline
  <2>2. PICK left \in Over(p, text[fd[p]]) : text' = [text EXCEPT ![fd[p]] = left]
    BY <1>6 DEF WriteDigits, WriteNewline
  <2>3. /\ todo[p] = <<>> /\ fd[p] # NoFile
        /\ \A i \in Procs : text'[i] \in Procs => text'[i] \in {text[i], p}
    BY <2>1, <2>2, LeaseWrite
  <2> QED BY <2>1, <2>3, LeaseMove
<1>7. CASE PidReused(p) BY <1>7 DEF PidReused, LeaseInv
<1> QED BY <1>1, <1>2, <1>3, <1>4, <1>5, <1>6, <1>7 DEF Step

LEMMA LeaseInvariant == Spec => []LeaseInv
<1>1. Init => LeaseInv
  <2> SUFFICES ASSUME Init PROVE LeaseInv OBVIOUS
  <2>1. pc = [q \in Procs |-> "start"] /\ text = [q \in Procs |-> "empty"] BY Zenon DEF Init
  <2> QED BY <2>1, OwnedAssumption DEF LeaseInv
<1>2. TypeOK /\ LeaseInv /\ [Next]_vars => LeaseInv'
  <2> SUFFICES ASSUME TypeOK, LeaseInv, [Next]_vars PROVE LeaseInv' OBVIOUS
  <2>1. ASSUME NEW p \in Procs, Step(p) PROVE LeaseInv' BY <2>1, LeaseStep
  <2>2. CASE UNCHANGED vars BY <2>2 DEF vars, LeaseInv
  <2> QED BY <2>1, <2>2 DEF Next
<1> QED BY <1>1, <1>2, LockTypeCorrect, PTL DEF Spec

-----------------------------------------------------------------------------
(* The lockfiles implement the leases *)

States == [q \in Procs |-> State(q)]

\* A step of p moves p alone.
LEMMA StateMoves ==
  ASSUME TypeOK, NEW p \in Procs, NEW to, pc' = [pc EXCEPT ![p] = to]
  PROVE  /\ States' = [States EXCEPT ![p] = State(p)']
         /\ State(p)' = State(p) => States' = States
<1>1. \A q \in Procs : q # p => State(q)' = State(q) BY DEF TypeOK, State
<1> QED BY <1>1 DEF States

LEMMA StateIs ==
  ASSUME NEW p \in Procs
  PROVE  /\ pc[p] = "start" <=> State(p) = "new"
         /\ pc[p] \in Choosing <=> State(p) = "looking"
         /\ pc[p] \in Running <=> State(p) = "running"
         /\ pc[p] \in {"refused", "exited", "crashed"} => State(p) = "gone"
BY DEF State, Choosing, Running

\* Who holds a lease tunnels.
LEMMA LeasedMeansGuarded ==
  ASSUME TypeOK, AloneInv, NEW d
  PROVE  Leasing!Leased(d) => Guarded(d) \/ d \in misread
BY DEF TypeOK, AloneInv, Leasing!Leased, Guarded, Tunnels

Opened == {q \in Procs : fd[q] # NoFile}

LEMMA MapsSeesFree ==
  ASSUME TypeOK, NEW p \in Procs, pc[p] \in {"check", "unlink"}, todo[p] # <<>>,
         Verdict(p, TRUE), UNCHANGED <<locked, reused, fd>>
  PROVE  Leasing!SeesFree(p)
<1>1. pc' = [pc EXCEPT ![p] = "check"] /\ pc'[p] = "check" BY VerdictEffect DEF TypeOK
<1>2. States[p] = "looking" /\ State(p)' = State(p)
  BY <1>1, StateIs DEF States, State, Choosing, Running
<1>3. States' = States BY <1>1, <1>2, StateMoves
<1>4. /\ todo' = [todo EXCEPT ![p] = Tail(@)]
      /\ pick' = [pick EXCEPT ![p] = IF @ = AnyFree THEN Head(todo[p]) ELSE @]
  BY DEF Verdict
<1>5. Opened' = Opened BY DEF Opened
<1> QED BY <1>2, <1>3, <1>4, <1>5 DEF Leasing!SeesFree, Leasing!Looks, States, Opened

\* Found free: no process has the lease, or the name was overlooked once before.
LEMMA MapsFree ==
  ASSUME TypeOK, AloneInv, NEW p \in Procs, pc[p] \in {"check", "unlink"}, todo[p] # <<>>,
         Verdict(p, TRUE), ~Guarded(Head(todo[p])), UNCHANGED <<locked, reused, fd, misread>>
  PROVE  Leasing!FindsFree(p) \/ Leasing!Overlooks(p)
<1>1. Leasing!SeesFree(p) BY MapsSeesFree
<1>2. CASE Head(todo[p]) \in misread
  <2>1. misread' = misread \cup {Head(todo[p])} BY <1>2
  <2> QED BY <1>1, <2>1 DEF Leasing!Overlooks
<1>3. CASE Head(todo[p]) \notin misread
  BY <1>1, <1>3, LeasedMeansGuarded DEF Leasing!FindsFree
<1> QED BY <1>2, <1>3

LEMMA MapsInUse ==
  ASSUME TypeOK, NamesInv, AloneInv, LeaseInv, NEW p \in Procs, ProbeAlive(p)
  PROVE  Leasing!FindsInUse(p)
<1>1. /\ pc[p] = "probe" /\ Verdict(p, FALSE) /\ UNCHANGED <<locked, reused, fd, misread>>
  BY DEF ProbeAlive
<1>2. seen[p] \in Procs /\ PidAlive(seen[p])
  BY <1>1 DEF ProbeAlive, AloneInv, Careful
<1>3. pc' = [pc EXCEPT ![p] = "check"] /\ pc'[p] = "check"
  BY <1>1, VerdictEffect DEF TypeOK
<1>4. States[p] = "looking" /\ State(p)' = State(p)
  BY <1>1, <1>3, StateIs DEF States, State, Choosing, Running
<1>5. States' = States BY <1>3, <1>4, StateMoves
<1>6. todo[p] # <<>> /\ todo' = [todo EXCEPT ![p] = Tail(@)] BY <1>1 DEF Verdict, TypeOK
<1>7. pick' = pick BY <1>1 DEF Verdict, TypeOK
<1>8. pick[seen[p]] = Head(todo[p]) /\ pc[seen[p]] \in Past /\ fd[seen[p]] # NoFile
  BY <1>1, <1>2 DEF NamesInv, LeaseInv
<1>9. States[seen[p]] = "running" \/ seen[p] \in reused
  <2>1. pc[seen[p]] \notin Choosing
    BY <1>1, <1>2, <1>8 DEF AloneInv, Choosing, Past, Running
  <2> QED BY <1>2, <2>1, StateIs DEF PidAlive, Exists, States
<1>10. Opened' = Opened /\ seen[p] \in Opened BY <1>1, <1>2, <1>8 DEF Opened
<1> QED BY <1>1, <1>4, <1>5, <1>6, <1>7, <1>8, <1>9, <1>10
      DEF Leasing!FindsInUse, Leasing!Looks, States, Opened

LEMMA MapsMark ==
  ASSUME TypeOK, LeaseInv, NEW p \in Procs, Create(p)
  PROVE  Leasing!Mark(p)
<1>1. /\ pc[p] = "create" /\ pc' = [pc EXCEPT ![p] = "write"]
      /\ UNCHANGED <<todo, pick, locked, reused, misread>>
  BY DEF Create
<1>2. States[p] = "looking" /\ State(p)' = State(p)
  BY <1>1, StateIs DEF States, State, Choosing, Running, TypeOK
<1>3. States' = States BY <1>1, <1>2, StateMoves
<1>4. todo[p] = <<>> /\ pick[p] # AnyFree BY <1>1 DEF LeaseInv, TypeOK
<1>5. Opened' = Opened \cup {p}
  <2> DEFINE inode == IF entry[pick[p]] = NoFile THEN p ELSE entry[pick[p]]
  <2>1. fd' = [fd EXCEPT ![p] = inode] BY DEF Create
  <2>2. inode # NoFile BY OwnedAssumption
  <2> HIDE DEF inode
  <2> QED BY <2>1, <2>2 DEF Opened, TypeOK
<1> QED BY <1>1, <1>2, <1>3, <1>4, <1>5 DEF Leasing!Mark, Leasing!Decided, States, Opened

LEMMA MapsTake ==
  ASSUME TypeOK, AloneInv, LeaseInv, NEW p \in Procs, WriteNewline(p)
  PROVE  Leasing!Take(p)
<1>1. /\ pc[p] = "newline" /\ pc' = [pc EXCEPT ![p] = "tunnel"] /\ locked' = locked \cup {p}
      /\ UNCHANGED <<todo, pick, reused, fd, misread>>
  BY DEF WriteNewline
<1>2. States[p] = "looking" /\ State(p)' = "running"
  BY <1>1, StateIs DEF States, State, Choosing, Running, TypeOK
<1>3. States' = [States EXCEPT ![p] = "running"] BY <1>1, <1>2, StateMoves
<1>4. todo[p] = <<>> /\ pick[p] # AnyFree BY <1>1 DEF LeaseInv, TypeOK
<1>5. ~Leasing!Leased(pick[p]) \/ pick[p] \in misread
  BY <1>1, <1>4, LeasedMeansGuarded DEF AloneInv, Careful, Choosing
<1>6. p \in Opened /\ Opened' = Opened BY <1>1 DEF Opened, TypeOK
<1> QED BY <1>1, <1>2, <1>3, <1>4, <1>5, <1>6
      DEF Leasing!Take, Leasing!Decided, Leasing!Becomes, States, Opened

LEMMA MapsUnleased ==
  ASSUME TypeOK, LeaseInv, NEW p \in Procs, WithUrl(p) \/ AcquireFails(p)
  PROVE  Leasing!RunUnleased(p)
<1>1. pc' = [pc EXCEPT ![p] = "tunnel"] /\ UNCHANGED <<todo, locked, reused, fd, misread>>
  BY DEF WithUrl, AcquireFails
<1>2. State(p)' = "running" BY <1>1 DEF State, Choosing, Running, TypeOK
<1>3. States' = [States EXCEPT ![p] = "running"] BY <1>1, <1>2, StateMoves
<1>4. CASE WithUrl(p)
  <2>1. pc[p] = "start" /\ \E d \in Subdomains : pick' = [pick EXCEPT ![p] = d]
    BY <1>4 DEF WithUrl
  <2>2. States[p] = "new" BY <2>1, StateIs DEF States
  <2> QED BY <1>1, <1>3, <2>1, <2>2 DEF Leasing!RunUnleased, Leasing!Becomes, States
<1>5. CASE AcquireFails(p)
  <2>1. pc[p] \in {"create", "write", "newline"} /\ UNCHANGED pick BY <1>5 DEF AcquireFails
  <2>2. States[p] = "looking" /\ todo[p] = <<>> /\ pick[p] # AnyFree
    BY <2>1, StateIs DEF States, Choosing, LeaseInv, TypeOK
  <2> QED BY <1>1, <1>3, <2>1, <2>2
        DEF Leasing!RunUnleased, Leasing!Decided, Leasing!Becomes, States
<1> QED BY <1>4, <1>5

LEMMA MapsEnd ==
  ASSUME TypeOK, NEW p \in Procs, NEW to \in {"exited", "crashed"}, Exists(p),
         pc' = [pc EXCEPT ![p] = to], locked' = locked \ {p},
         UNCHANGED <<todo, pick, reused, fd, misread>>
  PROVE  Leasing!End(p)
<1>1. States[p] \in {"looking", "running"} BY StateIs DEF States, Exists
<1>2. State(p)' = "gone" BY DEF State, Choosing, Running, TypeOK
<1>3. States' = [States EXCEPT ![p] = "gone"] BY <1>2, StateMoves
<1> QED BY <1>1, <1>3 DEF Leasing!End, Leasing!Becomes, States

LEMMA MapsLeave ==
  ASSUME TypeOK, NEW p \in Procs, Denied(p) \/ Refuse(p)
  PROVE  Leasing!Leave(p)
<1>1. /\ pc' = [pc EXCEPT ![p] = "refused"] /\ UNCHANGED <<todo, pick, locked, reused, fd, misread>>
      /\ pc[p] = "start" \/ (pc[p] = "check" /\ todo[p] = <<>> /\ pick[p] = AnyFree)
  BY DEF Denied, Refuse
<1>2. States[p] = "new" \/ (States[p] = "looking" /\ todo[p] = <<>> /\ pick[p] = AnyFree)
  BY <1>1, StateIs DEF States, Choosing
<1>3. State(p)' = "gone" BY <1>1 DEF State, Choosing, Running, TypeOK
<1>4. States' = [States EXCEPT ![p] = "gone"] BY <1>1, <1>3, StateMoves
<1> QED BY <1>1, <1>2, <1>4 DEF Leasing!Leave, Leasing!Becomes, States

LEMMA MapsCome ==
  ASSUME TypeOK, NEW p \in Procs, Start(p)
  PROVE  Leasing!Come(p)
<1>1. /\ pc[p] = "start" /\ pc' = [pc EXCEPT ![p] = "check"]
      /\ UNCHANGED <<pick, locked, reused, fd, misread>>
  BY DEF Start
<1>2. \E list \in AskedFor : todo' = [todo EXCEPT ![p] = list]
  <2>1. PICK wanted \in Wanted \cup {AnyFree} :
          todo' = [todo EXCEPT ![p] = IF wanted = AnyFree THEN Owned ELSE <<wanted>>]
    BY Zenon DEF Start
  <2>2. CASE wanted = AnyFree BY <2>1, <2>2 DEF AskedFor
  <2>3. CASE wanted # AnyFree BY <2>1, <2>3 DEF AskedFor
  <2> QED BY <2>2, <2>3
<1>3. States[p] = "new" BY <1>1, StateIs DEF States
<1>4. State(p)' = "looking" BY <1>1 DEF State, Choosing, Running, TypeOK
<1>5. States' = [States EXCEPT ![p] = "looking"] BY <1>1, <1>4, StateMoves
<1> QED BY <1>1, <1>2, <1>3, <1>5 DEF Leasing!Come, Leasing!Becomes, States

\* Reading, judging, choosing and writing change no lease.
LEMMA MapsStutter ==
  ASSUME TypeOK, NEW p \in Procs, NEW to,
         UNCHANGED <<todo, pick, locked, reused, fd, misread>>, pc' = [pc EXCEPT ![p] = to],
         \/ pc[p] \in Choosing /\ to \in Choosing
         \/ pc[p] \in Running /\ to \in Running
  PROVE  UNCHANGED Leasing!leaseVars
<1>1. State(p)' = State(p) BY DEF TypeOK, State, Choosing, Running
<1>2. States' = States BY <1>1, StateMoves
<1> QED BY <1>2 DEF Leasing!leaseVars, States

LEMMA MapsStep ==
  ASSUME TypeOK, NamesInv, AloneInv, LeaseInv, NEW p \in Procs, Step(p)
  PROVE  Leasing!Next \/ UNCHANGED Leasing!leaseVars
<1>1. CASE Denied(p) \/ Refuse(p) BY <1>1, MapsLeave DEF Leasing!Next
<1>2. CASE WithUrl(p) \/ AcquireFails(p) BY <1>2, MapsUnleased DEF Leasing!Next
<1>3. CASE Start(p) BY <1>3, MapsCome DEF Leasing!Next
<1>4. CASE ReadMissing(p)
  <2>1. Head(todo[p]) \in Subdomains BY <1>4, InHand DEF ReadMissing
  <2>2. ~Guarded(Head(todo[p])) BY <1>4, <2>1 DEF ReadMissing, AloneInv, Guarded
  <2> QED BY <1>4, <2>2, MapsFree DEF ReadMissing, Leasing!Next
<1>5. CASE ReadFails(p)
  BY <1>5, MapsSeesFree DEF ReadFails, Leasing!Overlooks, Leasing!Next
<1>6. CASE UnlinkStale(p)
  <2>1. pc[p] = "unlink" /\ Verdict(p, TRUE) /\ UNCHANGED <<locked, reused, fd, misread>>
    BY <1>6 DEF UnlinkStale
  <2>2. ~Guarded(Head(todo[p])) /\ todo[p] # <<>> BY <2>1 DEF AloneInv, Careful, TypeOK
  <2> QED BY <2>1, <2>2, MapsFree DEF Leasing!Next
<1>7. CASE ProbeAlive(p) BY <1>7, MapsInUse DEF Leasing!Next
<1>8. CASE ReadLock(p) \/ ProbeStale(p) \/ Choose(p) \/ WriteDigits(p)
  BY <1>8, MapsStutter DEF ReadLock, ProbeStale, Choose, WriteDigits, Choosing
<1>9. CASE Create(p) BY <1>9, MapsMark DEF Leasing!Next
<1>10. CASE WriteNewline(p) BY <1>10, MapsTake DEF Leasing!Next
<1>11. CASE TunnelEnds(p)
  <2>1. CASE p \in locked BY <1>11, <2>1, MapsStutter DEF TunnelEnds, Running
  <2>2. CASE p \notin locked
    <3>1. locked' = locked \ {p} BY <1>11, <2>2 DEF TunnelEnds
    <3> QED BY <1>11, <2>2, <3>1, MapsEnd DEF TunnelEnds, Exists, Running, Leasing!Next
  <2> QED BY <2>1, <2>2
<1>12. CASE DropLock(p) BY <1>12, MapsEnd DEF DropLock, Exists, Running, Leasing!Next
<1>13. CASE Crash(p) BY <1>13, MapsEnd DEF Crash, Leasing!Next
<1>14. CASE PidReused(p)
  <2>1. /\ pc[p] \in {"refused", "exited", "crashed"} /\ reused' = reused \cup {p}
        /\ UNCHANGED <<pc, todo, pick, locked, fd, misread>>
    BY <1>14 DEF PidReused
  <2>2. States[p] = "gone" /\ States' = States BY <2>1, StateIs DEF States, State
  <2>3. Leasing!Haunt(p) BY <2>1, <2>2 DEF Leasing!Haunt, States
  <2> QED BY <2>3 DEF Leasing!Next
<1> QED
  BY <1>1, <1>2, <1>3, <1>4, <1>5, <1>6, <1>7, <1>8, <1>9, <1>10, <1>11, <1>12, <1>13,
     <1>14 DEF Step

\* As long as no two processes choose at the same time, what is done to the
\* lockfiles amounts to marking names and taking, keeping and ending leases, for
\* any number of processes and any list of names; a lock that could not be read
\* is a name overlooked (active.rs:15-91, main.rs:258-312).
THEOREM LeaseCorrect == Spec => LeaseUnlessRaced
<1>1. Init => Leasing!Init
  <2> SUFFICES ASSUME Init PROVE Leasing!Init OBVIOUS
  <2>1. /\ pc = [p \in Procs |-> "start"] /\ todo = [p \in Procs |-> <<>>]
        /\ pick = [p \in Procs |-> AnyFree] /\ locked = {} /\ reused = {} /\ misread = {}
        /\ fd = [p \in Procs |-> NoFile]
    BY Zenon DEF Init
  <2>2. States = [p \in Procs |-> "new"] BY <2>1, StateIs DEF States
  <2> QED BY <2>1, <2>2 DEF Leasing!Init, States
<1>2. TypeOK /\ NamesInv /\ AloneUnlessRaced /\ LeaseInv /\ [Next]_vars
        => [~raced' => [Leasing!Next]_(Leasing!leaseVars)]_vars
  <2> SUFFICES ASSUME TypeOK, NamesInv, AloneUnlessRaced, LeaseInv, Next, ~raced'
               PROVE  Leasing!Next \/ UNCHANGED Leasing!leaseVars
    OBVIOUS
  <2>1. PICK p \in Procs : Step(p) BY DEF Next
  <2>2. ~raced BY <2>1, RacedStays
  <2> QED BY <2>1, <2>2, MapsStep DEF AloneUnlessRaced
<1> QED BY <1>1, <1>2, NamesCorrect, AloneInvariant, LeaseInvariant, PTL DEF Spec, LeaseUnlessRaced
=============================================================================
