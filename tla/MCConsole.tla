----------------------------- MODULE MCConsole -----------------------------
(***************************************************************************)
(* Small instances of Console.                                             *)
(***************************************************************************)
EXTENDS Console, TLC

CONSTANTS t1, t2

Symmetry == Permutations(Tasks)

\* No key reads the busy flag, so what clears it is one kind of answer; the last frame is of no use
\* once its key is handled; and nothing happens in a console that has quit.
WhatKeysRead ==
    IF app.running
    THEN <<store, [app EXCEPT !.busy = FALSE],
           [i \in DOMAIN queue |-> IF queue[i].kind \in {"done", "error"} THEN "answer" ELSE queue[i]],
           task, loop,
           IF loop = "key" THEN drawn.screen ELSE "", IF loop = "key" THEN drawn.bundle ELSE {}>>
    ELSE <<>>
=============================================================================
