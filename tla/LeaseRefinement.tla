--------------------------- MODULE LeaseRefinement ---------------------------
(***************************************************************************)
(* The lockfiles of TunnelLock implement Lease, until two processes choose *)
(* at the same time. A lease is a guard, a mark an opened lockfile, what   *)
(* was overlooked a lock that could not be read; the files, and what a     *)
(* process reads in them, do not occur in it.                              *)
(***************************************************************************)
EXTENDS TunnelLock

\* The lists that filter and find go through: all owned names, or the one typed.
AskedFor == {Owned} \cup {<<wanted>> : wanted \in Wanted}

State(p) ==
  CASE pc[p] = "start" -> "new"
    [] pc[p] \in Choosing -> "looking"
    [] pc[p] \in Running -> "running"
    [] OTHER -> "gone"

Leasing == INSTANCE Lease WITH
  Procs   <- Procs,
  Names   <- Subdomains,
  Lists   <- AskedFor,
  Nothing <- AnyFree,
  state   <- [p \in Procs |-> State(p)],
  left    <- todo,
  found   <- pick,
  marks   <- {p \in Procs : fd[p] # NoFile},
  leases  <- locked,
  undead  <- reused,
  overlooked <- misread

\* As long as no two processes choose at once, checking, unlinking, creating and
\* writing lockfiles amounts to taking leases: the first name found free is
\* taken, no leased one is unless a read of its lock failed, and a process is
\* refused only if every name it may have is run, or seems to be, by a process
\* that opened its lockfile (active.rs:15-91, main.rs:258-312).
LeaseUnlessRaced ==
  Leasing!Init /\ [][~raced' => [Leasing!Next]_(Leasing!leaseVars)]_vars
=============================================================================
