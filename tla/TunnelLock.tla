----------------------------- MODULE TunnelLock -----------------------------
(***************************************************************************)
(* The per-subdomain lockfiles of the dodev CLI (active.rs) and the        *)
(* subdomain selection of cmd_start that reads them (main.rs): several     *)
(* `dodev local http` processes of one user on one unix machine, each      *)
(* system call on a lockfile a step of its own.                            *)
(*                                                                         *)
(* A lockfile is an inode and a directory entry. A process keeps writing   *)
(* to the inode it opened after the entry is gone. Inodes are named by the *)
(* process that created them: a process creates one at most.               *)
(***************************************************************************)
EXTENDS Hostname

CONSTANTS
  Labels,     \* of the names
  Procs,      \* the invocations of the CLI; a process is also its PID
  Owned,      \* the owned subdomains, assigned then reserved, a sequence
  Typed,      \* the names users give with -s
  NoFile,     \* no directory entry
  AnyFree     \* no -s flag: pick the first free subdomain

Claimed == {Owned[i] : i \in 1..Len(Owned)}
\* Those an account may ask for: its own and the nested ones below them.
Wanted == {Stripped(t) : t \in {u \in Typed : OwnsIt(Stripped(u), Claimed)}}
Subdomains == Claimed \cup Wanted

ASSUME OwnedAssumption ==
  /\ Owned \in Seq(Seq(Labels)) /\ Typed \subseteq Seq(Labels)
  /\ Owned \in Seq(Subdomains) /\ AnyFree \notin Subdomains /\ NoFile \notin Procs
  /\ {"empty", "garbled", "mixed"} \cap Procs = {}

VARIABLES
  pc,       \* where each process is
  todo,     \* the subdomains it still has to check
  pick,     \* the first one it found free, or AnyFree
  seen,     \* what it read in the lockfile it checks
  entry,    \* the inode each lock path leads to
  text,     \* what each inode holds: a PID, nothing, "garbled" bytes, or a number
            \* "mixed" of several PIDs, which may be the PID of anyone or no one
  fd,       \* the inode each process writes its PID to
  locked,   \* the processes that hold a TunnelLock guard
  reused,   \* the dead processes whose PID some other program has now
  misread,  \* history: the subdomains whose lock was there and could not be read
  raced     \* history: two processes were choosing at the same time

procVars == <<pc, todo, pick, seen, fd, locked>>
fileVars == <<entry, text>>
vars == <<procVars, fileVars, reused, misread, raced>>

Choosing == {"check", "probe", "unlink", "create", "write", "newline"}
Running == {"tunnel", "drop"}
Texts == Procs \cup {"empty", "garbled", "mixed"}

TypeOK ==
  /\ pc \in [Procs -> Choosing \cup Running \cup {"start", "refused", "exited", "crashed"}]
  /\ todo \in [Procs -> Seq(Subdomains)]
  /\ pick \in [Procs -> Subdomains \cup {AnyFree}]
  /\ seen \in [Procs -> Texts]
  /\ entry \in [Subdomains -> Procs \cup {NoFile}]
  /\ text \in [Procs -> Texts]
  /\ fd \in [Procs -> Procs \cup {NoFile}]
  /\ locked \in SUBSET Procs
  /\ reused \in SUBSET Procs
  /\ misread \in SUBSET Subdomains
  /\ raced \in BOOLEAN
  /\ \A p \in Procs : pc[p] \in {"probe", "unlink"} => todo[p] # <<>>
  /\ \A p \in Procs : pc[p] \in {"create", "write", "newline"} \cup Running => pick[p] # AnyFree
  /\ \A p \in Procs : pc[p] \in {"write", "newline"} => fd[p] # NoFile

Init ==
  /\ pc = [p \in Procs |-> "start"]
  /\ todo = [p \in Procs |-> <<>>]
  /\ pick = [p \in Procs |-> AnyFree]
  /\ seen = [p \in Procs |-> "empty"]
  /\ entry = [d \in Subdomains |-> NoFile]
  /\ text = [p \in Procs |-> "empty"]
  /\ fd = [p \in Procs |-> NoFile]
  /\ locked = {} /\ reused = {} /\ misread = {} /\ raced = FALSE

-----------------------------------------------------------------------------
Exists(p) == pc[p] \in Choosing \cup Running

\* kill(pid, 0) = 0
PidAlive(p) == Exists(p) \/ p \in reused

\* What a reader finds behind the path of d.
Content(d) == text[entry[d]]

\* No token, no answer of /api/cli/me, or a name the account does not own.
Denied(p) ==
  /\ pc[p] = "start" /\ pc' = [pc EXCEPT ![p] = "refused"]
  /\ UNCHANGED <<todo, pick, seen, fd, locked, fileVars, reused, misread, raced>>

\* --ws-url: no lockfile is read or made, whatever the name.
WithUrl(p) ==
  /\ pc[p] = "start" /\ pc' = [pc EXCEPT ![p] = "tunnel"]
  /\ \E d \in Subdomains : pick' = [pick EXCEPT ![p] = d]
  /\ UNCHANGED <<todo, seen, fd, locked, fileVars, reused, misread, raced>>

\* The owned name a process was asked for, or all subdomains in order.
Start(p) ==
  /\ pc[p] = "start"
  /\ \E wanted \in Wanted \cup {AnyFree} :
       todo' = [todo EXCEPT ![p] = IF wanted = AnyFree THEN Owned ELSE <<wanted>>]
  /\ pc' = [pc EXCEPT ![p] = "check"]
  /\ raced' = (raced \/ \E q \in Procs : pc[q] \in Choosing)
  /\ UNCHANGED <<pick, seen, fd, locked, fileVars, reused, misread>>

\* Mutant: the last free one is remembered.
Verdict_Last(p, free) ==
  /\ todo' = [todo EXCEPT ![p] = Tail(@)]
  /\ pick' = [pick EXCEPT ![p] = IF free THEN Head(todo[p]) ELSE @]
  /\ pc' = [pc EXCEPT ![p] = "check"]

\* is_in_use is over for the subdomain in hand: remember the first free one.
Verdict(p, free) ==
  /\ todo' = [todo EXCEPT ![p] = Tail(@)]
  /\ pick' = [pick EXCEPT ![p] = IF free /\ @ = AnyFree THEN Head(todo[p]) ELSE @]
  /\ pc' = [pc EXCEPT ![p] = "check"]

\* read_to_string: any error makes the subdomain free. No file is there, ...
ReadMissing(p) ==
  /\ pc[p] = "check" /\ todo[p] # <<>>
  /\ entry[Head(todo[p])] = NoFile
  /\ Verdict(p, TRUE)
  /\ UNCHANGED <<seen, fd, locked, fileVars, reused, misread, raced>>

\* ... or one is that cannot be read just now, though it may be another's lock.
ReadFails(p) ==
  /\ pc[p] = "check" /\ todo[p] # <<>>
  /\ entry[Head(todo[p])] # NoFile
  /\ Verdict(p, TRUE)
  /\ misread' = misread \cup {Head(todo[p])}
  /\ UNCHANGED <<seen, fd, locked, fileVars, reused, raced>>

ReadLock(p) ==
  /\ pc[p] = "check" /\ todo[p] # <<>>
  /\ entry[Head(todo[p])] # NoFile
  /\ seen' = [seen EXCEPT ![p] = Content(Head(todo[p]))]
  /\ pc' = [pc EXCEPT ![p] = "probe"]
  /\ UNCHANGED <<todo, pick, fd, locked, fileVars, reused, misread, raced>>

\* Mutant: a PID is believed without a probe.
ProbeAlive_Believes(p) ==
  /\ pc[p] = "probe" /\ seen[p] \in Procs
  /\ Verdict(p, FALSE)
  /\ UNCHANGED <<seen, fd, locked, fileVars, reused, misread, raced>>

\* Mutant: the filter keeps what is in use.
ProbeAlive_Inverted(p) ==
  /\ pc[p] = "probe" /\ seen[p] \in Procs /\ PidAlive(seen[p])
  /\ Verdict(p, TRUE)
  /\ UNCHANGED <<seen, fd, locked, fileVars, reused, misread, raced>>

\* The PID that was read is alive: in use.
ProbeAlive(p) ==
  /\ pc[p] = "probe"
  /\ seen[p] = "mixed" \/ (seen[p] \in Procs /\ PidAlive(seen[p]))
  /\ Verdict(p, FALSE)
  /\ UNCHANGED <<seen, fd, locked, fileVars, reused, misread, raced>>

\* No PID was read, or a dead one: the file is to be removed.
ProbeStale(p) ==
  /\ pc[p] = "probe" /\ (seen[p] \in Procs => ~PidAlive(seen[p]))
  /\ pc' = [pc EXCEPT ![p] = "unlink"]
  /\ UNCHANGED <<todo, pick, seen, fd, locked, fileVars, reused, misread, raced>>

\* remove_file, by path: whatever file is there by now. Its failure is ignored.
UnlinkStale(p) ==
  /\ pc[p] = "unlink"
  /\ entry' \in {entry, [entry EXCEPT ![Head(todo[p])] = NoFile]}
  /\ Verdict(p, TRUE)
  /\ UNCHANGED <<text, seen, fd, locked, reused, misread, raced>>

\* Every subdomain was in use.
Refuse(p) ==
  /\ pc[p] = "check" /\ todo[p] = <<>> /\ pick[p] = AnyFree
  /\ pc' = [pc EXCEPT ![p] = "refused"]
  /\ UNCHANGED <<todo, pick, seen, fd, locked, fileVars, reused, misread, raced>>

\* Mutant: nothing has to be free.
Choose_Unchecked(p) ==
  /\ pc[p] = "check" /\ todo[p] = <<>>
  /\ pc' = [pc EXCEPT ![p] = "create"]
  /\ UNCHANGED <<todo, pick, seen, fd, locked, fileVars, reused, misread, raced>>

Choose(p) ==
  /\ pc[p] = "check" /\ todo[p] = <<>> /\ pick[p] # AnyFree
  /\ pc' = [pc EXCEPT ![p] = "create"]
  /\ UNCHANGED <<todo, pick, seen, fd, locked, fileVars, reused, misread, raced>>

\* File::create: a new empty file, or the one that is there, truncated.
Create(p) ==
  /\ pc[p] = "create"
  /\ LET found == entry[pick[p]]
         inode == IF found = NoFile THEN p ELSE found
     IN /\ entry' = [entry EXCEPT ![pick[p]] = inode]
        /\ text' = [text EXCEPT ![inode] = "empty"]
        /\ fd' = [fd EXCEPT ![p] = inode]
  /\ pc' = [pc EXCEPT ![p] = "write"]
  /\ UNCHANGED <<todo, pick, seen, locked, reused, misread, raced>>

\* What may be left of a file that held t when p has written over a part of it.
Over(p, t) == {p, t, "mixed", "garbled"}

\* Mutant: the PID never reaches the file.
WriteDigits_Empty(p) ==
  /\ pc[p] = "write"
  /\ pc' = [pc EXCEPT ![p] = "newline"]
  /\ UNCHANGED <<todo, pick, seen, fd, locked, fileVars, reused, misread, raced>>

\* writeln!(pid) on a File is two writes. The first puts the digits at offset 0.
WriteDigits(p) ==
  /\ pc[p] = "write"
  /\ \E left \in Over(p, text[fd[p]]) :
       /\ text[fd[p]] = "empty" => left = p
       /\ text' = [text EXCEPT ![fd[p]] = left]
  /\ pc' = [pc EXCEPT ![p] = "newline"]
  /\ UNCHANGED <<todo, pick, seen, fd, locked, entry, reused, misread, raced>>

\* The second adds the newline behind them, wherever the file ends by then; in
\* one that was truncated meanwhile, after zeros.
WriteNewline(p) ==
  /\ pc[p] = "newline"
  /\ \E left \in Over(p, text[fd[p]]) :
       /\ text[fd[p]] = p => left = p
       /\ text[fd[p]] = "empty" => left = "garbled"
       /\ text' = [text EXCEPT ![fd[p]] = left]
  /\ pc' = [pc EXCEPT ![p] = "tunnel"]
  /\ locked' = locked \cup {p}
  /\ UNCHANGED <<todo, pick, seen, fd, entry, reused, misread, raced>>

\* A filesystem error at any of the calls: proceed without a guard.
AcquireFails(p) ==
  /\ pc[p] \in {"create", "write", "newline"}
  /\ pc' = [pc EXCEPT ![p] = "tunnel"]
  /\ UNCHANGED <<todo, pick, seen, fd, locked, fileVars, reused, misread, raced>>

\* run_tunnel returned: the guard, if there is one, is dropped.
TunnelEnds(p) ==
  /\ pc[p] = "tunnel"
  /\ pc' = [pc EXCEPT ![p] = IF p \in locked THEN "drop" ELSE "exited"]
  /\ UNCHANGED <<todo, pick, seen, fd, locked, fileVars, reused, misread, raced>>

\* Drop: remove_file, by path. If it fails the file stays, as after a crash here.
DropLock(p) ==
  /\ pc[p] = "drop"
  /\ entry' = [entry EXCEPT ![pick[p]] = NoFile]
  /\ locked' = locked \ {p}
  /\ pc' = [pc EXCEPT ![p] = "exited"]
  /\ UNCHANGED <<todo, pick, seen, fd, text, reused, misread, raced>>

\* Ctrl+C (no handler is installed), kill, a panic: no Drop runs.
Crash(p) ==
  /\ Exists(p)
  /\ pc' = [pc EXCEPT ![p] = "crashed"]
  /\ locked' = locked \ {p}
  /\ UNCHANGED <<todo, pick, seen, fd, fileVars, reused, misread, raced>>

PidReused(p) ==
  /\ pc[p] \in {"refused", "exited", "crashed"} /\ p \notin reused
  /\ reused' = reused \cup {p}
  /\ UNCHANGED <<procVars, fileVars, misread, raced>>

Step(p) ==
  \/ Denied(p) \/ WithUrl(p) \/ Start(p) \/ ReadMissing(p) \/ ReadFails(p) \/ ReadLock(p)
  \/ ProbeAlive(p) \/ ProbeStale(p) \/ UnlinkStale(p)
  \/ Refuse(p) \/ Choose(p) \/ Create(p) \/ WriteDigits(p) \/ WriteNewline(p) \/ AcquireFails(p)
  \/ TunnelEnds(p) \/ DropLock(p) \/ Crash(p) \/ PidReused(p)

Next == \E p \in Procs : Step(p)

Spec == Init /\ [][Next]_vars

-----------------------------------------------------------------------------
\* A process that holds a guard and runs its tunnel.
Tunnels(p, d) == p \in locked /\ pc[p] \in Running /\ pick[p] = d

Exclusive(d) == \A p, q \in Procs : Tunnels(p, d) /\ Tunnels(q, d) => p = q

\* No two processes tunnel the same subdomain with a guard each, where every lock
\* that is there can be read. main.rs:305-306 "Acquire the per-subdomain lockfile
\* so a second `dodev local http` in another terminal will skip this one".
OneTunnelPerSubdomain == \A d \in Subdomains \ misread : Exclusive(d)

\* They do not, as long as no two processes ever chose at the same time: crashes,
\* failed writes, stale files and reused PIDs alone never break it, and a failed
\* read of a lock breaks it for its own subdomain only.
ExclusiveUnlessRaced == raced \/ OneTunnelPerSubdomain

\* Nor does a guarded tunnel lose its file then: whoever reads it next sees it
\* (active.rs:19-26, 51-75).
VisibleUnlessRaced ==
  raced \/ \A p \in Procs : \A d \in Subdomains \ misread :
             Tunnels(p, d) => entry[d] # NoFile /\ Content(d) = p

\* A guard is only ever taken for a name of the account or one below such a
\* name, whatever was typed (main.rs:220-253).
GuardsOnlyOwned == \A p \in locked : \E o \in Claimed : Below(pick[p], o)

SkipJustified(p) ==
  pc[p] = "probe" /\ pc'[p] = "check" =>
    IF seen[p] = "mixed" THEN raced
    ELSE \/ seen[p] \in reused
         \/ pc[seen[p]] \in {"newline"} \cup Running /\ pick[seen[p]] = Head(todo[p])

\* A lock makes a process skip a subdomain only if the process it names does
\* tunnel it, or is about to, in any interleaving: no crash, failed write or
\* failed read wedges a subdomain. Only the reuse of a PID can, and a number that
\* two processes made together, writing at once (active.rs:8-10, 61-74, 88).
SkipsOnlyTunnelled == [][ \A p \in Procs : SkipJustified(p) ]_vars
=============================================================================
