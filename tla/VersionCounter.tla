--------------------------- MODULE VersionCounter ---------------------------
(***************************************************************************)
(* What the table of version counters promises its callers: one counter per  *)
(* graph, and calls that take effect in one step between their beginning and *)
(* their return.  The slots, the lock and the remembered indexes are gone.   *)
(* The promise is for calls that no removal of their graph overlaps; what    *)
(* is left for the others is that they disturb at most one counter, by one.  *)
(***************************************************************************)
EXTENDS Integers, FiniteSets

CONSTANTS Backends, Graphs, InvalidOid, MaxSlots

VARIABLES
    counter,  \* changes of each graph since it was first counted, 0 for none
    phase,    \* "idle", "pending" or "applied"
    op,       \* "get", "inc" or "rem"
    arg,
    before,   \* a lower bound for the counter when the call began
    removed,  \* the graph lost its counter during the call
    full,     \* the increment was not counted: the table was full
    result    \* of the last get

vars == <<counter, phase, op, arg, before, removed, full, result>>

Init ==
    /\ counter = [g \in Graphs |-> 0]
    /\ phase = [b \in Backends |-> "idle"]
    /\ op = [b \in Backends |-> "get"]
    /\ arg = [b \in Backends |-> InvalidOid]
    /\ before = [b \in Backends |-> 0]
    /\ removed = [b \in Backends |-> FALSE]
    /\ full = [b \in Backends |-> FALSE]
    /\ result = [b \in Backends |-> 0]

\* A graph that is being counted for the first time may not be seen yet.
Call(b, o, g) ==
    /\ phase[b] = "idle"
    /\ phase' = [phase EXCEPT ![b] = "pending"]
    /\ op' = [op EXCEPT ![b] = o]
    /\ arg' = [arg EXCEPT ![b] = g]
    /\ before' \in {[before EXCEPT ![b] = v] : v \in {0, counter[g]}}
    /\ removed' = [removed EXCEPT ![b] = FALSE]
    /\ full' = [full EXCEPT ![b] = FALSE]
    /\ UNCHANGED <<counter, result>>

Apply(b, o) ==
    /\ phase[b] = "pending" /\ op[b] = o
    /\ phase' = [phase EXCEPT ![b] = "applied"]
    /\ UNCHANGED <<op, arg, before>>

\* Only g's counter changes: by one if it was there, to some value if not.
Raised(g) ==
    /\ counter' = [counter EXCEPT ![g] = counter'[g]]
    /\ counter'[g] > counter[g]
    /\ counter[g] > 0 => counter'[g] = counter[g] + 1

\* The counter of the graph is raised.  A call that is overlapped by a removal
\* may raise another graph's, or none.
Increment(b) ==
    /\ Apply(b, "inc")
    /\ \/ Raised(arg[b])
       \/ removed[b] /\ \E h \in Graphs : counter[h] > 0 /\ Raised(h)
       \/ removed[b] /\ UNCHANGED counter
    /\ UNCHANGED <<removed, full, result>>

\* All slots have a graph, this one has none: nothing is counted.
TableFull(b) ==
    /\ Apply(b, "inc")
    /\ counter[arg[b]] = 0
    /\ Cardinality({g \in Graphs : counter[g] > 0}) = MaxSlots
    /\ full' = [full EXCEPT ![b] = TRUE]
    /\ UNCHANGED <<counter, removed, result>>

\* A version the graph had during the call.
Get(b) ==
    /\ Apply(b, "get")
    /\ result' = [result EXCEPT ![b] = result'[b]]
    /\ removed[b] \/ (before[b] <= result'[b] /\ result'[b] <= counter[arg[b]])
    /\ UNCHANGED <<counter, removed, full>>

Remove(b) ==
    /\ Apply(b, "rem")
    /\ counter' = [counter EXCEPT ![arg[b]] = 0]
    /\ removed' = [c \in Backends |-> removed[c] \/ (counter[arg[b]] > 0 /\ arg[c] = arg[b])]
    /\ UNCHANGED <<full, result>>

Return(b) ==
    /\ phase[b] = "applied"
    /\ phase' = [phase EXCEPT ![b] = "idle"]
    /\ UNCHANGED <<counter, op, arg, before, removed, full, result>>

Next ==
    \E b \in Backends :
       \/ \E o \in {"get", "inc", "rem"}, g \in Graphs : Call(b, o, g)
       \/ Increment(b) \/ TableFull(b) \/ Get(b) \/ Remove(b) \/ Return(b)

Spec == Init /\ [][Next]_vars
=============================================================================
