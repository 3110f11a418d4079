--------------------------- MODULE FaultIsolation ---------------------------
(***************************************************************************)
(* What one execution of a black start promises about faulted cabins:      *)
(* "when a black start is executing and a Level-1 anomaly is reported on a *)
(* participating cabin that has not yet been energized, dispatch locks     *)
(* that cabin, isolates the fault first, then resumes startup so the       *)
(* faulted cabin is skipped" (README.md, Concurrency boundary).            *)
(*                                                                         *)
(* The promise the code keeps has a point of no return, Commit: a fault    *)
(* declared before it leads to the cabin being skipped, whereas one        *)
(* declared after it may come too late.                                    *)
(***************************************************************************)
CONSTANT Cabins

VARIABLES
    phase,    \* where the execution is
    plan,     \* the cabins to restore
    fate,     \* what has become of each cabin
    faulted   \* cabins declared faulted before the point of no return

vars == <<phase, plan, fate, faulted>>

Init ==
    /\ phase = "idle"
    /\ plan = {}
    /\ fate = [c \in Cabins |-> "pending"]
    /\ faulted = {}

\* An earlier execution of the same black start may have decided some cabins.
Begin ==
    /\ phase = "idle"
    /\ phase' = "running"
    /\ plan' \in SUBSET Cabins
    /\ fate' \in [Cabins -> {"pending", "energized", "skipped"}]
    /\ UNCHANGED faulted

Declare(c) ==
    /\ phase = "running" /\ c \in plan /\ fate[c] = "pending"
    /\ faulted' = faulted \cup {c}
    /\ UNCHANGED <<phase, plan, fate>>

Becomes(c, before, after) ==
    /\ phase = "running" /\ c \in plan /\ fate[c] \in before
    /\ fate' = [fate EXCEPT ![c] = after]
    /\ UNCHANGED <<phase, plan, faulted>>

Commit(c) == c \notin faulted /\ Becomes(c, {"pending"}, "committed")

Energize(c) == Becomes(c, {"committed"}, "energized")

Skip(c) == Becomes(c, {"pending", "committed"}, "skipped")

Finish ==
    /\ phase = "running"
    /\ \A c \in plan : fate[c] \in {"energized", "skipped"}
    /\ phase' = "over"
    /\ UNCHANGED <<plan, fate, faulted>>

Advance == Finish \/ \E c \in Cabins : Commit(c) \/ Energize(c) \/ Skip(c)

Next == Begin \/ Advance \/ \E c \in Cabins : Declare(c)

Spec == Init /\ [][Next]_vars /\ WF_vars(Advance)

=============================================================================
