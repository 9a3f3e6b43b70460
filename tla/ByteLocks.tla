------------------------------ MODULE ByteLocks ------------------------------
(***************************************************************************)
(* What record locking promises, byte by byte: every process has one mode  *)
(* on every byte of every file.  A process takes or drops a mode on a      *)
(* whole range at once, never against a conflicting mode of another, and   *)
(* loses all it holds on a file when it closes it, execs or exits.         *)
(***************************************************************************)
EXTENDS Integers

CONSTANTS Process, File, END

Mode == {"none", "read", "write"}
Byte == 0..(END - 1)

VARIABLE held

HeldType == held \in [File -> [Byte -> [Process -> Mode]]]

Init == held = [f \in File |-> [b \in Byte |-> [p \in Process |-> "none"]]]

\* Closing, exec and exit: the modes of these (process, file) pairs.
Without(lost) ==
  [f \in File |-> [b \in Byte |-> [p \in Process |->
     IF <<p, f>> \in lost THEN "none" ELSE held[f][b][p]]]]

Conflict(a, b) == a # "none" /\ b # "none" /\ (a = "write" \/ b = "write")

\* A request is decided after the losses it has just learnt of.
Change(lost, p, f, first, last, mode) ==
  LET before == Without(lost)
  IN  /\ \A b \in first..last, q \in Process \ {p} : ~Conflict(mode, before[f][b][q])
      /\ held' = [before EXCEPT ![f] =
                    [b \in Byte |-> IF b \in first..last
                                      THEN [before[f][b] EXCEPT ![p] = mode]
                                      ELSE before[f][b]]]

Lose(lost) == held' = Without(lost)

Next ==
  \E lost \in SUBSET (Process \X File) :
    \/ Lose(lost)
    \/ \E p \in Process, f \in File, first, last \in Byte, mode \in Mode :
         first <= last /\ Change(lost, p, f, first, last, mode)

Spec == Init /\ [][Next]_held
=============================================================================
