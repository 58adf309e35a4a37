------------------------------- MODULE Memory -------------------------------
(***************************************************************************)
(* What a user program expects of its memory: every page of every process  *)
(* has the contents that were last written to it, and nothing but a write  *)
(* of that process, while it runs, changes them.                           *)
(***************************************************************************)
CONSTANTS Process, Page,
          Stored,       \* what programs write
          First,        \* the process that runs from the start
          Initial       \* what the program loader promises for each page

VARIABLES running, contents

Init == running = First /\ contents = Initial

Write(v, x) ==
    /\ contents' = [contents EXCEPT ![running][v] = x]
    /\ UNCHANGED running

SwitchTo(p) == running' = p /\ UNCHANGED contents

Next ==
    \/ \E v \in Page, x \in Stored : Write(v, x)
    \/ \E p \in Process : SwitchTo(p)

Spec == Init /\ [][Next]_<<running, contents>>

=============================================================================
