------------------------------ MODULE TaskFIFO ------------------------------
(***************************************************************************)
(* What a client of the task queue relies on (types.TaskQueue): tasks get  *)
(* consecutive numbers, are received once and in order, and nothing moves  *)
(* any more once the queue is shut.                                        *)
(***************************************************************************)
EXTENDS Naturals, Sequences

VARIABLES q,     \* the numbers of the tasks put and not taken
          n,     \* the last number given
          out,   \* the numbers taken
          open   \* the queue still serves

fvars == <<q, n, out, open>>

Init == q = <<>> /\ n = 0 /\ out = <<>> /\ open = TRUE

Put ==
  /\ open
  /\ n' = n + 1
  /\ q' = Append(q, n + 1)
  /\ UNCHANGED <<out, open>>

Take ==
  /\ open /\ q # <<>>
  /\ out' = Append(out, Head(q))
  /\ q' = Tail(q)
  /\ UNCHANGED <<n, open>>

Shut ==
  /\ open
  /\ open' = FALSE
  /\ UNCHANGED <<q, n, out>>

Next == Put \/ Take \/ Shut

Spec == Init /\ [][Next]_fvars
=============================================================================
