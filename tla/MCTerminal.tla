---------------------------- MODULE MCTerminal ------------------------------
(***************************************************************************)
(* Terminal for the model checker: the console's stdin, a pipe, and the    *)
(* two streams an interactive host may use.                                *)
(***************************************************************************)
EXTENDS Terminal

AllKinds == [interactive : BOOLEAN, blocking : BOOLEAN]

=============================================================================
