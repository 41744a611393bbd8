---------------------------- MODULE WriteMessage ----------------------------
(***************************************************************************)
(* async_write_message of test/asio_write_fsm, a state machine, and of     *)
(* test/asio_write_coro, the same as a coroutine that is resumed where it  *)
(* yielded.  The body runs when the operation is started and whenever the  *)
(* operation it has started itself completes.                              *)
(***************************************************************************)
EXTENDS Integers

CONSTANT MaxCount     \* bound: the repeat count it is called with

VARIABLES program,        \* "fsm" or "coroutine"
          repeat_count,
          state,          \* the state, or where the coroutine is
          outstanding,    \* "none", "timer" or "write"
          err,            \* what the body is called with
          ready,          \* the body is about to run
          completed,      \* how often self.complete was called
          freed           \* encoded_message and delay_timer are reset

vars == <<program, repeat_count, state, outstanding, err, ready, completed, freed>>

\* asio::async_compose calls the body at once.
Init ==
    /\ program \in {"fsm", "coroutine"}
    /\ repeat_count \in 0..MaxCount
    /\ state = "starting"
    /\ outstanding = "none"
    /\ err = FALSE
    /\ ready = TRUE
    /\ completed = 0
    /\ freed = FALSE

Starts(what) == outstanding' = what /\ UNCHANGED <<completed, freed>>

Completes ==
    /\ freed' = TRUE
    /\ completed' = completed + 1
    /\ UNCHANGED outstanding

\* Mutation: the state after the first write is not one that repeats.
Repeats_Starting == state = "starting"

\* case state::starting: case state::writing:
Repeats == state \in {"starting", "writing"}

RunStateMachine ==
    \/ /\ ~err /\ Repeats /\ repeat_count > 0
       /\ repeat_count' = repeat_count - 1
       /\ state' = "waiting"
       /\ Starts("timer")
    \/ /\ ~err /\ state = "waiting"
       /\ state' = "writing"
       /\ Starts("write")
       /\ UNCHANGED repeat_count
    \/ /\ err \/ (state # "waiting" /\ ~(Repeats /\ repeat_count > 0))
       /\ Completes
       /\ UNCHANGED <<state, repeat_count>>

\* The yields of the loop are the places "waiting" and "writing"; after the
\* loop, which an error leaves, the coroutine is at its end.
RunCoroutine ==
    \/ /\ state = "starting" \/ (state = "writing" /\ ~err)
       /\ repeat_count > 0
       /\ repeat_count' = repeat_count - 1
       /\ state' = "waiting"
       /\ Starts("timer")
    \/ /\ state = "waiting" /\ ~err
       /\ state' = "writing"
       /\ Starts("write")
       /\ UNCHANGED repeat_count
    \/ /\ \/ state \in {"starting", "writing"} /\ ~err /\ repeat_count = 0
          \/ state \in {"waiting", "writing"} /\ err
       /\ state' = "end"
       /\ Completes
       /\ UNCHANGED repeat_count

Run ==
    /\ ready
    /\ ready' = FALSE
    /\ \/ program = "fsm" /\ RunStateMachine
       \/ program = "coroutine" /\ RunCoroutine
    /\ UNCHANGED <<program, err>>

\* The wait or the write completes, with or without an error.
OperationEnds ==
    /\ outstanding # "none" /\ ~ready
    /\ outstanding' = "none"
    /\ err' \in BOOLEAN
    /\ ready' = TRUE
    /\ UNCHANGED <<program, repeat_count, state, completed, freed>>

Next == Run \/ OperationEnds

Spec == Init /\ [][Next]_vars

----------------------------------------------------------------------------
(* Properties *)

\* Every variable holds a value of its type; what the operation is using is not
\* freed, and it completes once.
TypeOK ==
    /\ program \in {"fsm", "coroutine"}
    /\ repeat_count \in 0..MaxCount
    /\ state \in {"starting", "waiting", "writing", "end"}
    /\ outstanding \in {"none", "timer", "write"}
    /\ {err, ready, freed} \subseteq BOOLEAN
    /\ completed \in 0..1
    /\ outstanding # "none" => ~freed /\ completed = 0

Abstract ==
    INSTANCE RepeatedWrite
    WITH left <- repeat_count, error <- completed = 1 /\ err,
         doing <- IF completed = 1 THEN "completed"
                  ELSE IF state = "waiting" THEN "pause"
                  ELSE IF state = "writing" THEN "write" ELSE "nothing"

\* Both programs are the same operation, although one states as a loop what the
\* other spreads over its states (lines 91-124 and 86-112).
ImplementsRepeatedWrite == Abstract!Spec

=============================================================================
