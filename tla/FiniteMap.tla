------------------------------ MODULE FiniteMap ------------------------------
(***************************************************************************)
(* What a map promises: it remembers for each key the value inserted last, *)
(* until the key is erased.  One operation is under way at a time; it      *)
(* takes effect once, on the key it was called with, and returns what that *)
(* key had before.                                                         *)
(***************************************************************************)
CONSTANTS Keys, Values,
          Nothing     \* std::nullopt

VARIABLES map,        \* the value of each key, or Nothing
          result,     \* what the operation returns
          op,         \* the operation under way, or "none"
          argument,   \* its key,
          given,      \* and the value that the key gets: of erase() Nothing
          done        \* it has taken effect

vars == <<map, result, op, argument, given, done>>

Init ==
    /\ map = [k \in Keys |-> Nothing] /\ result = Nothing
    /\ op = "none" /\ argument = Nothing /\ given = Nothing /\ done = FALSE

Call(name, k, v) ==
    /\ op = "none"
    /\ op' = name /\ argument' = k /\ given' = v
    /\ UNCHANGED <<map, result, done>>

End == op' = "none" /\ argument' = Nothing /\ given' = Nothing /\ done' = FALSE

\* find() returns as it takes effect.
Find ==
    /\ op = "find"
    /\ result' = map[argument]
    /\ End
    /\ UNCHANGED map

Assign ==
    /\ op \in {"insert", "erase"} /\ ~done
    /\ result' = map[argument]
    /\ map' = [map EXCEPT ![argument] = given]
    /\ done' = TRUE
    /\ UNCHANGED <<op, argument, given>>

Return == done /\ End /\ UNCHANGED <<map, result>>

Next ==
    \/ \E k \in Keys : \/ Call("find", k, Nothing) \/ Call("erase", k, Nothing)
                       \/ \E v \in Values : Call("insert", k, v)
    \/ Find \/ Assign \/ Return

Spec == Init /\ [][Next]_vars

=============================================================================
