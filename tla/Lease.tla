-------------------------------- MODULE Lease --------------------------------
(***************************************************************************)
(* What the lockfiles promise (active.rs, and cmd_start in main.rs), with  *)
(* no file, PID or system call in it: a name is leased to one process at a *)
(* time. A process comes with a list of names, passes over those that are  *)
(* in use, takes the lease of the first it found free, and goes away empty *)
(* handed only if it found none. Before it has the lease it leaves a mark, *)
(* which makes the name look in use as long as it runs, lease or not; a    *)
(* lease ends with its process, however that ends. A dead process may be   *)
(* taken for a living one, and a look may fail: it overlooks what it does  *)
(* not see, and of that name nothing is promised from then on.             *)
(*                                                                         *)
(* Not promised: a lease to every process that runs (it may be told where  *)
(* to connect, or fail to write its lock), and that a name found free is   *)
(* free still when all the list was looked at.                             *)
(***************************************************************************)
EXTENDS Sequences

CONSTANTS
  Procs,     \* the processes
  Names,     \* what can be leased
  Lists,     \* the lists of names a process may come with
  Nothing    \* no name

VARIABLES
  state,       \* of a process: "new", "looking", "running" or "gone"
  left,        \* the names it still has to look at
  found,       \* the first it found free; the name it runs
  marks,       \* the processes that left their mark on that name
  leases,      \* the processes that hold the lease of the name they run
  undead,      \* those gone that are taken for living ones
  overlooked   \* the names at which a look failed

leaseVars == <<state, left, found, marks, leases, undead, overlooked>>

Init ==
  /\ state = [p \in Procs |-> "new"]
  /\ left = [p \in Procs |-> <<>>] /\ found = [p \in Procs |-> Nothing]
  /\ marks = {} /\ leases = {} /\ undead = {} /\ overlooked = {}

Leased(n) == \E p \in leases : found[p] = n

Becomes(p, s) == state' = [state EXCEPT ![p] = s]

-----------------------------------------------------------------------------
Come(p) ==
  /\ state[p] = "new" /\ Becomes(p, "looking")
  /\ \E list \in Lists : left' = [left EXCEPT ![p] = list]
  /\ UNCHANGED <<found, marks, leases, undead, overlooked>>

Looks(p) ==
  /\ state[p] = "looking" /\ left[p] # <<>>
  /\ left' = [left EXCEPT ![p] = Tail(@)]

SeesFree(p) ==
  /\ Looks(p)
  /\ found' = [found EXCEPT ![p] = IF @ = Nothing THEN Head(left[p]) ELSE @]
  /\ UNCHANGED <<state, marks, leases, undead>>

\* A name is found free only if no process has the lease, ...
FindsFree(p) ==
  /\ SeesFree(p) /\ ~Leased(Head(left[p]))
  /\ UNCHANGED overlooked

\* ... or by a look that failed.
Overlooks(p) ==
  /\ SeesFree(p)
  /\ overlooked' = overlooked \cup {Head(left[p])}

\* It is found in use only if a process that left its mark runs it, or seems to.
FindsInUse(p) ==
  /\ Looks(p)
  /\ \E q \in marks : found[q] = Head(left[p]) /\ (state[q] = "running" \/ q \in undead)
  /\ UNCHANGED <<state, found, marks, leases, undead, overlooked>>

Decided(p) == state[p] = "looking" /\ left[p] = <<>> /\ found[p] # Nothing

Mark(p) ==
  /\ Decided(p) /\ marks' = marks \cup {p}
  /\ UNCHANGED <<state, left, found, leases, undead, overlooked>>

Take(p) ==
  /\ Decided(p) /\ p \in marks
  /\ ~Leased(found[p]) \/ found[p] \in overlooked
  /\ leases' = leases \cup {p} /\ Becomes(p, "running")
  /\ UNCHANGED <<left, found, marks, undead, overlooked>>

\* Without a lease: the lock could not be written, or none was asked for.
RunUnleased(p) ==
  /\ \/ Decided(p) /\ UNCHANGED found
     \/ state[p] = "new" /\ \E n \in Names : found' = [found EXCEPT ![p] = n]
  /\ Becomes(p, "running")
  /\ UNCHANGED <<left, marks, leases, undead, overlooked>>

\* Sent away: denied before it looked, or nothing was free.
Leave(p) ==
  /\ state[p] = "new" \/ (state[p] = "looking" /\ left[p] = <<>> /\ found[p] = Nothing)
  /\ Becomes(p, "gone")
  /\ UNCHANGED <<left, found, marks, leases, undead, overlooked>>

\* Its tunnel ends, or it is killed at any point.
End(p) ==
  /\ state[p] \in {"looking", "running"} /\ Becomes(p, "gone")
  /\ leases' = leases \ {p}
  /\ UNCHANGED <<left, found, marks, undead, overlooked>>

Haunt(p) ==
  /\ state[p] = "gone" /\ undead' = undead \cup {p}
  /\ UNCHANGED <<state, left, found, marks, leases, overlooked>>

Next ==
  \E p \in Procs :
    \/ Come(p) \/ FindsFree(p) \/ Overlooks(p) \/ FindsInUse(p) \/ Mark(p) \/ Take(p)
    \/ RunUnleased(p) \/ Leave(p) \/ End(p) \/ Haunt(p)

Spec == Init /\ [][Next]_leaseVars
=============================================================================
