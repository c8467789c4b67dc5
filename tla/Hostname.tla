------------------------------ MODULE Hostname ------------------------------
(***************************************************************************)
(* The hostname cmd_start (main.rs) takes from the -s flag, and its test   *)
(* that the account owns it. A name is the sequence of its labels, in      *)
(* lower case, without the dots: talk.dev is <<"talk", "dev">>.            *)
(***************************************************************************)
EXTENDS Integers, Sequences

EndsWith(name, tail) ==
  /\ Len(tail) <= Len(name)
  /\ SubSeq(name, Len(name) - Len(tail) + 1, Len(name)) = tail

\* strip_suffix(".local.dev"), whose dot needs a label before it.
Stripped(typed) ==
  IF EndsWith(typed, <<"local", "dev">>) /\ Len(typed) > 2
  THEN SubSeq(typed, 1, Len(typed) - 2) ELSE typed

\* Mutant: the labels are dropped from the right.
OwnsIt_Prefix(name, owned) == \E i \in 1..Len(name) : SubSeq(name, 1, i) \in owned

\* parts[i..].join(".") is owned, for some i.
OwnsIt(name, owned) == \E i \in 1..Len(name) : SubSeq(name, i, Len(name)) \in owned

\* A name is that of a namespace, or one below it.
Below(name, o) ==
  /\ Len(o) <= Len(name)
  /\ \A k \in 0..Len(o) - 1 : name[Len(name) - k] = o[Len(o) - k]
=============================================================================
