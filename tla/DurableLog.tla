----------------------------- MODULE DurableLog -----------------------------
(***************************************************************************)
(* What the append only file promises to the clients of a Redis server,    *)
(* whatever buffers, files, threads and children it uses for it.           *)
(*                                                                         *)
(* The server holds a log of the write commands it executed.  A prefix of  *)
(* it is stable: it survives the death of the process.  A prefix of that   *)
(* is promised: it was acknowledged under "appendfsync always" and         *)
(* survives the failure of the machine as well.  A damaged log promises    *)
(* nothing until it is repaired.                                           *)
(***************************************************************************)
EXTENDS Integers, Sequences

CONSTANT Entries    \* what a log entry may be

VARIABLES
    log,        \* the write commands the server executed, in order
    stable,     \* how many of them survive the death of the process
    promised,   \* how many of them survive the failure of the machine
    up,         \* the server runs
    damaged     \* what is stable is not a prefix of the log

vars == <<log, stable, promised, up, damaged>>

Init ==
    /\ log = <<>>
    /\ stable = 0
    /\ promised = 0
    /\ up = TRUE
    /\ damaged = FALSE

(* A command is executed; its effect need not be stable yet. *)
Execute ==
    /\ up /\ up'
    /\ \E e \in Entries : log' = Append(log, e)
    /\ stable' = stable
    /\ promised' = promised

(* More of the log becomes stable, more of the stable log is promised. *)
Persist ==
    /\ up /\ up'
    /\ log' = log
    /\ stable' \in stable .. Len(log)
    /\ promised' \in promised .. stable'

(* The process dies, perhaps after it made more of the log stable. *)
Die ==
    /\ up /\ ~up'
    /\ stable' \in stable .. Len(log)
    /\ UNCHANGED <<log, promised>>

(* The machine fails: only what was promised is sure to be left. *)
LosePower ==
    /\ up /\ ~up'
    /\ stable' \in promised .. stable
    /\ UNCHANGED <<log, promised>>

(* The server starts again with the stable part of the log. *)
Recover ==
    /\ ~up /\ up'
    /\ log' = SubSeq(log, 1, stable)
    /\ UNCHANGED <<stable, promised>>

Whole == ~damaged /\ ~damaged' /\ (Execute \/ Persist \/ Die \/ LosePower \/ Recover)

(* A whole copy of the log replaces the damaged one. *)
Repair ==
    /\ damaged /\ ~damaged'
    /\ up /\ up'
    /\ log' = log
    /\ stable' \in 0 .. Len(log)
    /\ promised' \in 0 .. stable'

Next == Whole \/ Repair \/ damaged'

Spec == Init /\ [][Next]_vars

=============================================================================
