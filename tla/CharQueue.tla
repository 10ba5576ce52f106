------------------------------ MODULE CharQueue ------------------------------
(***************************************************************************)
(* What the keyboard driver promises its readers: a bounded first-in       *)
(* first-out queue of characters, from which a reader takes one at a time  *)
(* and which can be emptied.                                               *)
(***************************************************************************)
EXTENDS Integers, Sequences

CONSTANTS Chars, Capacity
VARIABLES q,        \* the queue
          out,      \* the character last handed to a reader
          mode      \* "clearing" while a reader is emptying the queue

qvars == <<q, out, mode>>

QInit == q = <<>> /\ out \in Chars /\ mode = "open"

Put(c) == Len(q) < Capacity /\ q' = Append(q, c) /\ UNCHANGED <<out, mode>>
Get == mode = "open" /\ q # <<>> /\ out' = Head(q) /\ q' = Tail(q) /\ UNCHANGED mode
Clear == mode = "open" /\ mode' = "clearing" /\ q' = <<>> /\ UNCHANGED out
Cleared == mode = "clearing" /\ mode' = "open" /\ UNCHANGED <<q, out>>

QNext == (\E c \in Chars : Put(c)) \/ Get \/ Clear \/ Cleared

QSpec == QInit /\ [][QNext]_qvars
=============================================================================
