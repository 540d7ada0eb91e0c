-------------------------- MODULE WindowedReduction --------------------------
(***************************************************************************)
(* What a stage that reduces a log to event-time windows promises to the   *)
(* next one, however it decides when a window is over: it takes an input   *)
(* at most once, gives out every window whole and once, in the order of    *)
(* the windows' ends, never takes an input for a window it gave out or     *)
(* went past, and when it is over holds nothing back.                      *)
(*                                                                         *)
(* PartitionAggregator and GlobalAggregator implement it.  An input that   *)
(* is refused, recognised as a duplicate or dropped as late is not taken.  *)
(* A window is known by its end.                                           *)
(***************************************************************************)
EXTENDS Integers

CONSTANTS
    Input,
    End      \* the end of the window an input belongs to

VARIABLES
    held,      \* the inputs of the windows still open
    results,   \* the windows given out, each as the set of its inputs
    over

vars == <<held, results, over>>

Init == held = {} /\ results = {} /\ over = FALSE

\* The inputs of the same window as i.
Window(inputs, i) == {j \in inputs : End[j] = End[i]}

(***************************************************************************)
(* One call: it takes at most one new input, and gives out some of the     *)
(* windows it then holds, the earliest ones.                               *)
(***************************************************************************)
Reduce(new) ==
    LET inputs == held \cup new
        out == inputs \ held'
    IN
    /\ ~over
    /\ new \cap (held \cup UNION results) = {}
    /\ \A i \in new : \A r \in results : \A j \in r : End[j] < End[i]
    /\ held' \subseteq inputs
    /\ \A i \in held', j \in out : End[j] < End[i]
    /\ results' = results \cup {Window(out, i) : i \in out}
    /\ over' \in BOOLEAN
    /\ over' => held' = {}

Next == Reduce({}) \/ \E i \in Input : Reduce({i})

Spec == Init /\ [][Next]_vars
=============================================================================
