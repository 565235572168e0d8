---------------------------- MODULE InputStream -----------------------------
(***************************************************************************)
(* What an input stream promises the program that reads it: the characters *)
(* that were typed, in order, each once, and at most a line at a time.     *)
(***************************************************************************)
EXTENDS Integers, Sequences

CONSTANTS
  Char,       (* what can be typed                                         *)
  Newline     (* the one that ends a line                                  *)

VARIABLES
  fed,        (* what was typed                                            *)
  received    (* what the program was given                                *)

Init == fed = <<>> /\ received = <<>>

Type(c) == fed' = Append(fed, c) /\ UNCHANGED received

(* The program is given what comes next, up to position n, with no newline *)
(* before the last character.                                              *)
Deliver(n) ==
  /\ received' = SubSeq(fed, 1, n)
  /\ \A i \in (Len(received) + 1) .. (n - 1) : fed[i] # Newline
  /\ UNCHANGED fed

Next ==
  \/ \E c \in Char : Type(c)
  \/ \E n \in (Len(received) + 1) .. Len(fed) : Deliver(n)

Spec == Init /\ [][Next]_<<fed, received>>

=============================================================================
