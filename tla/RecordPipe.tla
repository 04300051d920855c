----------------------------- MODULE RecordPipe -----------------------------
(***************************************************************************)
(* What the logging of the agent promises those who log: a pipe that keeps *)
(* the order.  A record that is put in while the pipe is open is written   *)
(* once, after those put in before it, also when the pipe is closed in the *)
(* meantime; one put into a closed pipe is dropped, and never turns up     *)
(* later.  The pipe is not opened again before it has run empty.           *)
(* AgentLogging implements this with a queue, a sentinel and a listener.   *)
(***************************************************************************)
EXTENDS Integers, Sequences

VARIABLES
    up,         \* the process runs
    open,       \* what is put in now will be written
    taken,      \* records put in so far; a record is the number of its turn
    waiting,    \* the records that are still to be written
    written     \* the records written

vars == <<up, open, taken, waiting, written>>

Init == up = TRUE /\ open = FALSE /\ taken = 0 /\ waiting = <<>> /\ written = <<>>

Put ==
    /\ up /\ open
    /\ taken' = taken + 1
    /\ waiting' = Append(waiting, taken')
    /\ UNCHANGED <<up, open, written>>

(* Whoever puts it in may write it, if it is its turn. *)
PutThrough ==
    /\ up /\ open /\ waiting = <<>>
    /\ taken' = taken + 1
    /\ written' = Append(written, taken')
    /\ UNCHANGED <<up, open, waiting>>

Drop ==
    /\ up /\ ~open
    /\ taken' = taken + 1
    /\ UNCHANGED <<up, open, waiting, written>>

Write ==
    /\ up /\ waiting # <<>>
    /\ waiting' = Tail(waiting)
    /\ written' = Append(written, Head(waiting))
    /\ UNCHANGED <<up, open, taken>>

Open ==
    /\ up /\ waiting = <<>>
    /\ open' = TRUE
    /\ UNCHANGED <<up, taken, waiting, written>>

Close ==
    /\ up
    /\ open' = FALSE
    /\ UNCHANGED <<up, taken, waiting, written>>

Exit == up /\ up' = FALSE /\ UNCHANGED <<open, taken, waiting, written>>

Next == Put \/ PutThrough \/ Drop \/ Write \/ Open \/ Close \/ Exit

Spec == Init /\ [][Next]_vars
=============================================================================
