------------------------------ MODULE KVStore ------------------------------
(***************************************************************************)
(* What the storage engine (src/src/engine/db.h) promises its callers: a   *)
(* map from keys to values whose writes are atomic and durable.  A write   *)
(* that a crash interrupts either happened or did not; a write that        *)
(* returned is never undone.                                               *)
(***************************************************************************)
CONSTANTS Keys, Values, Empty

VARIABLES
    kv,     \* the value of every key, Empty when it has none
    op      \* the write in progress, or none

NoOp == [key |-> Empty, value |-> Empty, done |-> TRUE]

Init == kv = [k \in Keys |-> Empty] /\ op = NoOp

Written == [kv EXCEPT ![op.key] = op.value]

\* Put or Delete is called; Delete writes Empty.
Begin(k, v) ==
    /\ op = NoOp
    /\ op' = [key |-> k, value |-> v, done |-> FALSE]
    /\ UNCHANGED kv

\* The write takes effect between its call and its return.
Effect ==
    /\ op # NoOp /\ ~ op.done
    /\ kv' = Written
    /\ op' \in {NoOp, [op EXCEPT !.done = TRUE]}

Return ==
    /\ op # NoOp /\ op.done
    /\ op' = NoOp
    /\ UNCHANGED kv

\* A crash ends the write, if there is one, with or without its effect.
Crash ==
    /\ op' = NoOp
    /\ kv' \in {kv} \cup IF op.done THEN {} ELSE {Written}

Next ==
    \/ \E k \in Keys, v \in Values \cup {Empty} : Begin(k, v)
    \/ Effect
    \/ Return
    \/ Crash

Spec == Init /\ [][Next]_<<kv, op>>
=============================================================================
