---------------------------- MODULE GraphVersion ----------------------------
(***************************************************************************)
(* The shared table of per-graph version counters of age_global_graph.c:   *)
(* get_graph_version, increment_graph_version and remove_graph_version, one *)
(* TLA+ step per access to shared memory that another backend can observe.  *)
(* A lock-free scan reads num_entries and then one slot, in two steps; a   *)
(* scan made while the LWLock is held is one step, because num_entries and *)
(* the slots' OIDs are written by the holder of the lock only.  Memory is  *)
(* sequentially consistent: the write barriers of the code order the       *)
(* writes, the absence of read barriers is not modelled.                   *)
(***************************************************************************)
EXTENDS Integers, FiniteSets, TLC

CONSTANTS
    Backends,    \* server processes attached to the segment
    Graphs,      \* valid graph OIDs
    InvalidOid,  \* an unused slot, or an empty private cache
    NoBackend,   \* the LWLock is free
    MaxSlots,    \* AGE_MAX_GRAPHS
    MaxCalls     \* bound: calls made in one behaviour

ASSUME SlotAssumption == MaxSlots \in Nat \ {0}
ASSUME CallAssumption == MaxCalls \in Nat
ASSUME OidAssumption == InvalidOid \notin Graphs
ASSUME BackendAssumption == NoBackend \notin Backends

VARIABLES
    oid,           \* entries[i].graph_oid
    version,       \* entries[i].version
    num_entries,   \* high-water mark of the slots in use
    lock,          \* holder of state->lock
    pc,            \* where each backend is in its call
    op,            \* the call it makes: "get", "inc" or "rem"
    arg,           \* its graph_oid argument
    idx,           \* the slot it looks at (i, or idx once a slot is chosen)
    cached_oid,    \* cached_version_graph_oid of each backend
    cached_index,  \* cached_version_graph_index of each backend
    result,        \* what the backend's last get_graph_version returned
    calls,         \* calls made so far (bounded)
    start,         \* history: the version of arg visible when the call began
    removed,       \* history: arg lost its slot while the call was running
    full           \* history: the call ended in the "table full" warning

shared == <<oid, version, num_entries, lock>>
private == <<cached_oid, cached_index>>
history == <<calls, start, removed, full>>
vars == <<oid, version, num_entries, lock, pc, op, arg, idx, cached_oid,
          cached_index, result, calls, start, removed, full>>

Slots == 0 .. MaxSlots - 1
Oids == Graphs \cup {InvalidOid}
Locked == {"recheck", "init", "publish", "extend", "unpublish", "zero",
           "shrink", "release"}
LockFree == {"fast", "fastProbe", "scan", "probe", "touch", "acquire"}
PCs == Locked \cup LockFree \cup {"idle", "done"}

\* The version a scan of the visible slots would find for g, 0 for none.
Visible(g) ==
    IF \E i \in Slots : i < num_entries /\ oid[i] = g
    THEN version[CHOOSE i \in Slots : i < num_entries /\ oid[i] = g]
    ELSE 0

\* The version in the slot that carries g's OID, 0 when no slot does.
Published(g) ==
    IF \E i \in Slots : oid[i] = g
    THEN version[CHOOSE i \in Slots : oid[i] = g]
    ELSE 0

Goto(b, l) == pc' = [pc EXCEPT ![b] = l]
Remember(b, g, i) ==
    /\ cached_oid' = [cached_oid EXCEPT ![b] = g]
    /\ cached_index' = [cached_index EXCEPT ![b] = i]
Forget(b) == Remember(b, InvalidOid, -1)

-----------------------------------------------------------------------------

\* age_dsm_init_callback: an empty table; every backend starts with no
\* remembered slot.
Init ==
    /\ oid = [i \in Slots |-> InvalidOid]
    /\ version = [i \in Slots |-> 0]
    /\ num_entries = 0
    /\ lock = NoBackend
    /\ pc = [b \in Backends |-> "idle"]
    /\ op = [b \in Backends |-> "get"]
    /\ arg = [b \in Backends |-> InvalidOid]
    /\ idx = [b \in Backends |-> 0]
    /\ cached_oid = [b \in Backends |-> InvalidOid]
    /\ cached_index = [b \in Backends |-> -1]
    /\ result = [b \in Backends |-> 0]
    /\ calls = 0
    /\ start = [b \in Backends |-> 0]
    /\ removed = [b \in Backends |-> FALSE]
    /\ full = [b \in Backends |-> FALSE]

\* Backend b enters get_graph_version(g) or increment_graph_version(g), which
\* try the remembered slot first, or remove_graph_version(g), which locks.
Call(b, o, g) ==
    /\ pc[b] = "idle"
    /\ calls < MaxCalls
    /\ calls' = calls + 1
    /\ op' = [op EXCEPT ![b] = o]
    /\ arg' = [arg EXCEPT ![b] = g]
    /\ start' = [start EXCEPT ![b] = Visible(g)]
    /\ removed' = [removed EXCEPT ![b] = FALSE]
    /\ full' = [full EXCEPT ![b] = FALSE]
    /\ Goto(b, IF o = "rem" THEN "acquire" ELSE "fast")
    /\ UNCHANGED <<shared, private, idx, result>>

\* The first half of the fast path: the remembered slot is for this graph and
\* lies below num_entries.  Otherwise the scan starts at slot 0.
FastBound(b) ==
    /\ pc[b] = "fast"
    /\ IF /\ cached_oid[b] = arg[b]
          /\ cached_index[b] >= 0
          /\ cached_index[b] < num_entries
       THEN Goto(b, "fastProbe") /\ idx' = [idx EXCEPT ![b] = cached_index[b]]
       ELSE Goto(b, "scan") /\ idx' = [idx EXCEPT ![b] = 0]
    /\ UNCHANGED <<shared, private, history, op, arg, result>>

\* Mutant: the remembered slot is taken for the graph's without a look at its OID.
FastProbe_Trust(b) ==
    /\ pc[b] = "fastProbe"
    /\ Goto(b, "touch")
    /\ UNCHANGED <<shared, private, history, op, arg, idx, result>>

\* The second half: the remembered slot still carries the graph's OID.
FastProbe(b) ==
    /\ pc[b] = "fastProbe"
    /\ IF oid[idx[b]] = arg[b]
       THEN Goto(b, "touch") /\ UNCHANGED idx
       ELSE Goto(b, "scan") /\ idx' = [idx EXCEPT ![b] = 0]
    /\ UNCHANGED <<shared, private, history, op, arg, result>>

\* The loop test of the lock-free scan.  A get that runs out of slots forgets
\* its remembered slot and returns 0, an increment goes for the lock.
ScanBound(b) ==
    /\ pc[b] = "scan"
    /\ \/ /\ idx[b] < num_entries
          /\ Goto(b, "probe")
          /\ UNCHANGED <<private, result>>
       \/ /\ idx[b] >= num_entries /\ op[b] = "get"
          /\ Goto(b, "done")
          /\ Forget(b)
          /\ result' = [result EXCEPT ![b] = 0]
       \/ /\ idx[b] >= num_entries /\ op[b] = "inc"
          /\ Goto(b, "acquire")
          /\ UNCHANGED <<private, result>>
    /\ UNCHANGED <<shared, history, op, arg, idx>>

\* Mutant: the loop body forgets to go to the next slot.
ScanProbe_NoAdvance(b) ==
    /\ pc[b] = "probe"
    /\ IF oid[idx[b]] = arg[b]
       THEN Goto(b, "touch") /\ Remember(b, arg[b], idx[b])
       ELSE Goto(b, "scan") /\ UNCHANGED private
    /\ UNCHANGED <<shared, history, op, arg, idx, result>>

\* The loop body: remember a slot that carries the OID, or go to the next.
ScanProbe(b) ==
    /\ pc[b] = "probe"
    /\ IF oid[idx[b]] = arg[b]
       THEN Goto(b, "touch") /\ Remember(b, arg[b], idx[b]) /\ UNCHANGED idx
       ELSE /\ Goto(b, "scan")
            /\ idx' = [idx EXCEPT ![b] = @ + 1]
            /\ UNCHANGED private
    /\ UNCHANGED <<shared, history, op, arg, result>>

\* Mutant: an increment that finds the slot only refreshes the remembered index.
Touch_NoAdd(b) ==
    /\ pc[b] = "touch"
    /\ Goto(b, "done")
    /\ result' = [result EXCEPT ![b] = IF op[b] = "get" THEN version[idx[b]] ELSE @]
    /\ UNCHANGED <<oid, version, num_entries, lock, private, history, op, arg, idx>>

\* The atomic read or fetch-and-add of the slot found.
Touch(b) ==
    /\ pc[b] = "touch"
    /\ Goto(b, "done")
    /\ \/ /\ op[b] = "get"
          /\ result' = [result EXCEPT ![b] = version[idx[b]]]
          /\ UNCHANGED version
       \/ /\ op[b] = "inc"
          /\ version' = [version EXCEPT ![idx[b]] = @ + 1]
          /\ UNCHANGED result
    /\ UNCHANGED <<oid, num_entries, lock, private, history, op, arg, idx>>

\* LWLockAcquire(&state->lock, LW_EXCLUSIVE).
Acquire(b) ==
    /\ pc[b] = "acquire"
    /\ lock = NoBackend
    /\ lock' = b
    /\ Goto(b, "recheck")
    /\ UNCHANGED <<oid, version, num_entries, private, history, op, arg, idx,
                   result>>

Holes == {i \in Slots : i < num_entries /\ oid[i] = InvalidOid}
IsLeast(i, S) == i \in S /\ \A j \in S : i <= j

\* Mutant: no re-check after the lock was acquired.
RecheckIncrement_NoRecheck(b) ==
    /\ pc[b] = "recheck" /\ op[b] = "inc"
    /\ \/ /\ \E i \in Slots :
                 /\ IF Holes # {} THEN IsLeast(i, Holes) ELSE i = num_entries
                 /\ idx' = [idx EXCEPT ![b] = i]
          /\ Goto(b, "init")
          /\ UNCHANGED full
       \/ /\ Holes = {} /\ num_entries = MaxSlots
          /\ full' = [full EXCEPT ![b] = TRUE]
          /\ Goto(b, "release")
          /\ UNCHANGED idx
    /\ UNCHANGED <<shared, private, calls, start, removed, op, arg, result>>

\* The scan of increment_graph_version under the lock: another backend may have
\* added the graph (release, remember, increment outside the lock); else the
\* first hole, else the slot after the last, else the table is full.
RecheckIncrement(b) ==
    /\ pc[b] = "recheck" /\ op[b] = "inc"
    /\ \/ \E i \in Slots :
              /\ i < num_entries /\ oid[i] = arg[b]
              /\ lock' = NoBackend
              /\ Remember(b, arg[b], i)
              /\ idx' = [idx EXCEPT ![b] = i]
              /\ Goto(b, "touch")
              /\ UNCHANGED full
       \/ /\ \A i \in Slots : i < num_entries => oid[i] # arg[b]
          /\ \E i \in Slots :
                 /\ IF Holes # {} THEN IsLeast(i, Holes) ELSE i = num_entries
                 /\ idx' = [idx EXCEPT ![b] = i]
          /\ Goto(b, "init")
          /\ UNCHANGED <<lock, private, full>>
       \/ /\ \A i \in Slots : i < num_entries => oid[i] # arg[b]
          /\ Holes = {} /\ num_entries = MaxSlots
          /\ full' = [full EXCEPT ![b] = TRUE]
          /\ Goto(b, "release")
          /\ UNCHANGED <<lock, private, idx>>
    /\ UNCHANGED <<oid, version, num_entries, calls, start, removed, op, arg,
                   result>>

\* Mutant: the counter of a reused slot is left as the last owner left it.
InitVersion_ReuseStale(b) ==
    /\ pc[b] = "init"
    /\ version' = [version EXCEPT ![idx[b]] =
                       IF idx[b] = num_entries THEN 1 ELSE @]
    /\ Goto(b, "publish")
    /\ UNCHANGED <<oid, num_entries, lock, private, history, op, arg, idx,
                   result>>

\* The counter of a new slot is set before the slot's OID is published.
InitVersion(b) ==
    /\ pc[b] = "init"
    /\ version' = [version EXCEPT ![idx[b]] = 1]
    /\ Goto(b, "publish")
    /\ UNCHANGED <<oid, num_entries, lock, private, history, op, arg, idx,
                   result>>

\* Publish the OID; a slot past the high-water mark also needs "extend".
PublishOid(b) ==
    /\ pc[b] = "publish"
    /\ oid' = [oid EXCEPT ![idx[b]] = arg[b]]
    /\ Remember(b, arg[b], idx[b])
    /\ Goto(b, IF idx[b] = num_entries THEN "extend" ELSE "release")
    /\ UNCHANGED <<version, num_entries, lock, history, op, arg, idx, result>>

\* num_entries++.
Extend(b) ==
    /\ pc[b] = "extend"
    /\ num_entries' = num_entries + 1
    /\ Goto(b, "release")
    /\ UNCHANGED <<oid, version, lock, private, history, op, arg, idx, result>>

\* The scan of remove_graph_version under the lock.
RecheckRemove(b) ==
    /\ pc[b] = "recheck" /\ op[b] = "rem"
    /\ \/ \E i \in Slots :
              /\ i < num_entries /\ oid[i] = arg[b]
              /\ idx' = [idx EXCEPT ![b] = i]
              /\ Goto(b, "unpublish")
       \/ /\ \A i \in Slots : i < num_entries => oid[i] # arg[b]
          /\ Goto(b, "release")
          /\ UNCHANGED idx
    /\ UNCHANGED <<shared, private, history, op, arg, result>>

\* Mutant: the array is kept dense by moving the last entry into the hole.
Unpublish_MoveLast(b) ==
    /\ pc[b] = "unpublish"
    /\ oid' = [oid EXCEPT ![idx[b]] = oid[num_entries - 1],
                          ![num_entries - 1] = InvalidOid]
    /\ version' = [version EXCEPT ![idx[b]] = version[num_entries - 1]]
    /\ idx' = [idx EXCEPT ![b] = num_entries - 1]
    /\ removed' = [c \in Backends |-> removed[c] \/ arg[c] = arg[b]]
    /\ Goto(b, "zero")
    /\ UNCHANGED <<num_entries, lock, private, calls, start, full, op, arg,
                   result>>

\* entries[i].graph_oid = InvalidOid; from here on the slot is a hole.
Unpublish(b) ==
    /\ pc[b] = "unpublish"
    /\ oid' = [oid EXCEPT ![idx[b]] = InvalidOid]
    /\ removed' = [c \in Backends |-> removed[c] \/ arg[c] = arg[b]]
    /\ Goto(b, "zero")
    /\ UNCHANGED <<version, num_entries, lock, private, calls, start, full, op,
                   arg, idx, result>>

\* The counter goes back to 0; the remover forgets the slot.
ZeroVersion(b) ==
    /\ pc[b] = "zero"
    /\ version' = [version EXCEPT ![idx[b]] = 0]
    /\ IF cached_oid[b] = arg[b] THEN Forget(b) ELSE UNCHANGED private
    /\ Goto(b, "shrink")
    /\ UNCHANGED <<oid, num_entries, lock, history, op, arg, idx, result>>

\* Mutant: the loop does not lower num_entries.
Shrink_Spin(b) ==
    /\ pc[b] = "shrink"
    /\ IF num_entries > 0 /\ oid[num_entries - 1] = InvalidOid
       THEN UNCHANGED pc
       ELSE Goto(b, "release")
    /\ UNCHANGED <<oid, version, num_entries, lock, private, history, op, arg, idx, result>>

\* One turn of the loop that lowers num_entries past trailing holes.
Shrink(b) ==
    /\ pc[b] = "shrink"
    /\ IF num_entries > 0 /\ oid[num_entries - 1] = InvalidOid
       THEN num_entries' = num_entries - 1 /\ UNCHANGED pc
       ELSE Goto(b, "release") /\ UNCHANGED num_entries
    /\ UNCHANGED <<oid, version, lock, private, history, op, arg, idx, result>>

\* LWLockRelease(&state->lock).
Release(b) ==
    /\ pc[b] = "release"
    /\ lock' = NoBackend
    /\ Goto(b, "done")
    /\ UNCHANGED <<oid, version, num_entries, private, history, op, arg, idx,
                   result>>

\* The call returns to its caller.
Return(b) ==
    /\ pc[b] = "done"
    /\ Goto(b, "idle")
    /\ UNCHANGED <<shared, private, history, op, arg, idx, result>>

Step(b) ==
    \/ FastBound(b) \/ FastProbe(b) \/ ScanBound(b) \/ ScanProbe(b) \/ Touch(b)
    \/ Acquire(b) \/ RecheckIncrement(b) \/ InitVersion(b) \/ PublishOid(b)
    \/ Extend(b) \/ RecheckRemove(b) \/ Unpublish(b) \/ ZeroVersion(b)
    \/ Shrink(b) \/ Release(b) \/ Return(b)

\* The bound on calls is used up and everyone has returned.
Quiesce ==
    /\ calls = MaxCalls
    /\ \A b \in Backends : pc[b] = "idle"
    /\ UNCHANGED vars

Next ==
    \/ \E b \in Backends :
           \/ \E o \in {"get", "inc", "rem"}, g \in Graphs : Call(b, o, g)
           \/ Step(b)
    \/ Quiesce

Spec == Init /\ [][Next]_vars

\* A backend inside a call is scheduled; nothing obliges it to begin one, and
\* nothing is assumed of who wins the LWLock.
Fairness == \A b \in Backends : WF_vars(Step(b))
FairSpec == Spec /\ Fairness

-----------------------------------------------------------------------------

\* Every variable has its type; indexes stay inside the array.
TypeOK ==
    /\ oid \in [Slots -> Oids]
    /\ version \in [Slots -> Nat]
    /\ num_entries \in 0 .. MaxSlots
    /\ lock \in Backends \cup {NoBackend}
    /\ pc \in [Backends -> PCs]
    /\ op \in [Backends -> {"get", "inc", "rem"}]
    /\ arg \in [Backends -> Oids]
    /\ idx \in [Backends -> 0 .. MaxSlots]
    /\ cached_oid \in [Backends -> Oids]
    /\ cached_index \in [Backends -> Slots \cup {-1}]
    /\ result \in [Backends -> Nat]
    /\ calls \in Nat
    /\ start \in [Backends -> Nat]
    /\ removed \in [Backends -> BOOLEAN]
    /\ full \in [Backends -> BOOLEAN]

\* A graph has at most one slot, whatever the increments that race to add it:
\* the re-check of increment_graph_version under the lock is what makes it so.
SlotUnique ==
    \A i, j \in Slots : oid[i] \in Graphs /\ oid[i] = oid[j] => i = j

\* "readers cannot observe a new OID with a stale version": a slot whose OID is
\* published has a counter of at least 1, at every instant between two writes
\* of an allocation, a removal and the increments that arrive late.
NewOidNeverStale ==
    \A i \in Slots : oid[i] \in Graphs => version[i] >= 1

\* With the lock free, num_entries is exactly one past the last slot in use, so
\* a scan misses no graph and a dropped table shrinks past all trailing holes.
HighWaterMark ==
    lock = NoBackend =>
        /\ \A i \in Slots : i >= num_entries => oid[i] = InvalidOid
        /\ num_entries > 0 => oid[num_entries - 1] # InvalidOid

\* A lock-free get_graph_version(g) that overlaps no removal of g returns a
\* version g had during the call: not less than the one visible when it began,
\* not more than the one there now.  Slots that are freed, reused and cut off
\* under the scan do not make it miss the graph ("readers never need to follow
\* moved entries").
GetWithinWindow ==
    \A b \in Backends :
        pc[b] = "done" /\ op[b] = "get" /\ ~removed[b] =>
            start[b] <= result[b] /\ result[b] <= Published(arg[b])

\* A finished increment_graph_version(g) that overlaps no removal of g and did
\* not meet a full table has raised g's counter above what it was when the call
\* began: no increment is lost to the race between two backends adding g, nor
\* to a slot remembered from before.  (The counter is in a published slot, not
\* necessarily a visible one: an increment through a remembered index can end
\* while another backend is between publishing the slot and num_entries++.)
IncrementTakesEffect ==
    \A b \in Backends :
        pc[b] = "done" /\ op[b] = "inc" /\ ~removed[b] /\ ~full[b] =>
            start[b] < Published(arg[b])

\* While a graph keeps its slot its counter never goes down ("monotonic change
\* counter"), so a version seen once is never seen again after a change.
VersionMonotonic ==
    [][\A i \in Slots : oid[i] \in Graphs /\ oid'[i] = oid[i] =>
           version'[i] >= version[i]]_vars

\* Whoever takes the LWLock gives it back.
LockReleased == \A b \in Backends : lock = b ~> lock # b

\* get_graph_version ends whatever the other backends do: it never waits.
GetWaitFree ==
    \A b \in Backends : pc[b] = "fast" /\ op[b] = "get" ~> pc[b] = "done"

\* A call has taken effect once its write to the table is visible, or once it
\* is settled that there will be none.
Phase(b) ==
    IF pc[b] = "idle" THEN "idle"
    ELSE IF pc[b] \in {"extend", "zero", "shrink", "release", "done"} THEN "applied"
    ELSE "pending"

Abstract == INSTANCE VersionCounter WITH
    counter <- [g \in Graphs |-> Published(g)],
    phase <- [b \in Backends |-> Phase(b)],
    before <- start

\* The table implements VersionCounter: every increment, get and removal takes
\* effect on the counter of its own graph in one step between its call and its
\* return, whatever slots are added, freed, reused and remembered meanwhile.
ImplementsCounter == Abstract!Spec

-----------------------------------------------------------------------------
(***************************************************************************)
(* The inductive invariant behind the properties above.                    *)
(***************************************************************************)

\* The lock is held by the backend that is between acquire and release.
LockInv == \A b \in Backends : pc[b] \in Locked <=> lock = b

\* A backend in a call has a graph, and is on a path of its own operation.
OpInv ==
    \A b \in Backends :
        /\ pc[b] # "idle" => arg[b] \in Graphs
        /\ pc[b] \in LockFree \ {"acquire"} => op[b] \in {"get", "inc"}
        /\ pc[b] \in {"acquire", "recheck"} => op[b] \in {"inc", "rem"}
        /\ pc[b] \in {"init", "publish", "extend"} => op[b] = "inc"
        /\ pc[b] \in {"unpublish", "zero", "shrink"} => op[b] = "rem"
        /\ pc[b] = "release" => op[b] \in {"inc", "rem"}
        /\ pc[b] \notin {"idle", "release", "done"} => ~full[b]

\* Where a backend's index points at each point of its call.
IdxInv ==
    \A b \in Backends :
        /\ pc[b] \in {"fastProbe", "probe", "touch"} => idx[b] \in Slots
        /\ pc[b] \in {"init", "publish"} =>
               /\ idx[b] \in Slots /\ idx[b] <= num_entries
               /\ oid[idx[b]] = InvalidOid
               /\ \A i \in Slots : oid[i] # arg[b]
        /\ pc[b] = "publish" => version[idx[b]] >= 1
        /\ pc[b] = "extend" =>
               /\ idx[b] \in Slots /\ idx[b] = num_entries
               /\ oid[idx[b]] = arg[b]
        /\ pc[b] = "unpublish" =>
               /\ idx[b] \in Slots /\ idx[b] < num_entries
               /\ oid[idx[b]] = arg[b]
        /\ pc[b] = "zero" => idx[b] \in Slots /\ oid[idx[b]] = InvalidOid

\* Slots past the high-water mark are empty, but for the one being added; the
\* last slot below it is in use, but for a removal that is not finished.
MarkInv ==
    /\ \A i \in Slots : i >= num_entries /\ oid[i] # InvalidOid =>
           lock \in Backends /\ pc[lock] = "extend" /\ idx[lock] = i
    /\ num_entries > 0 /\ oid[num_entries - 1] = InvalidOid =>
           lock \in Backends /\ pc[lock] \in {"zero", "shrink"}

\* What a call that no removal of its graph overlaps can rely on.  A graph
\* visible when it began still is, at a slot the scan has not passed;
StillVisible(b) ==
    start[b] >= 1 =>
        \E i \in Slots :
            /\ i < num_entries /\ oid[i] = arg[b] /\ version[i] >= start[b]
            /\ pc[b] \in {"scan", "probe"} => idx[b] <= i

\* the slot it found is still the graph's;
StillFound(b) == pc[b] = "touch" => oid[idx[b]] = arg[b]

\* an increment that has been made is in the table;
Incremented(b) ==
    pc[b] \in {"extend", "release", "done"} /\ op[b] = "inc" /\ ~full[b] =>
        \E i \in Slots : oid[i] = arg[b] /\ version[i] > start[b]

\* and the version read is between the first visible and the present one.
GotWithin(b) ==
    pc[b] = "done" /\ op[b] = "get" =>
        /\ start[b] <= result[b]
        /\ \/ result[b] = 0
           \/ \E i \in Slots : oid[i] = arg[b] /\ version[i] >= result[b]

Undisturbed(b) == pc[b] # "idle" /\ op[b] # "rem" /\ ~removed[b]

WindowInv ==
    \A b \in Backends : Undisturbed(b) =>
        StillVisible(b) /\ StillFound(b) /\ Incremented(b) /\ GotWithin(b)

IInv ==
    /\ TypeOK /\ LockInv /\ OpInv /\ IdxInv /\ MarkInv
    /\ SlotUnique /\ NewOidNeverStale /\ WindowInv
=============================================================================
