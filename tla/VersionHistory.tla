---------------------------- MODULE VersionHistory ----------------------------
(* What a table of SQL versions promises its readers, whatever requests     *)
(* race: a history that only grows.  A version keeps the number and the text *)
(* it was committed with, a commit clears older versions before younger      *)
(* ones and makes its own active, and nothing but a commit activates one.    *)
EXTENDS Naturals, Sequences

CONSTANTS
  Texts,
  Serial            \* no two transactions on the table overlap

VARIABLES
  history,          \* the versions in order of commit
  active            \* the positions of the active ones

vars == <<history, active>>

Init == history = <<>> /\ active = {}

(* A transaction that overlaps others may have missed versions: it repeats  *)
(* a number, or leaves the youngest ones active beside its own.              *)
Commit(text, version, cleared) ==
  /\ Serial => version = Len(history) + 1 /\ cleared = Len(history)
  /\ history' = Append(history, [version |-> version, text |-> text])
  /\ active' = {i \in active : i > cleared} \cup {Len(history) + 1}

Next ==
  \E text \in Texts, version \in 1..(Len(history) + 1), cleared \in 0..Len(history) :
    Commit(text, version, cleared)

Spec == Init /\ [][Next]_vars
==============================================================================
