-------------------------- MODULE CheckpointQueue --------------------------
(***************************************************************************)
(* What block_status promises to the services around it: an at-least-once  *)
(* queue of checkpoints.  A checkpoint waits, is being worked on, or is    *)
(* finished; it is finished only once its records are out; and a finished  *)
(* checkpoint may be handed out again, but only after it was put back.     *)
(*                                                                         *)
(* Nothing here mentions threads, claims, locks or time: SuiWorker is      *)
(* shown to implement this specification.                                  *)
(***************************************************************************)
CONSTANT Row

VARIABLES
  state,      \* "waiting", "working" or "finished", for each checkpoint
  delivered   \* checkpoints all of whose records were acknowledged

vars == <<state, delivered>>

TypeOK == /\ state \in [Row -> {"waiting", "working", "finished"}]
          /\ delivered \subseteq Row

Init == /\ state = [r \in Row |-> "waiting"]
        /\ delivered \subseteq Row

Move(rows, s) == state' = [r \in Row |-> IF r \in rows THEN s ELSE state[r]]

\* A page of waiting checkpoints is handed to somebody.
Take(rows) == /\ \A r \in rows : state[r] = "waiting"
              /\ Move(rows, "working")
              /\ UNCHANGED delivered

\* Records reach their topics.  Records are never taken back.
Deliver(rows) == /\ delivered' = delivered \cup rows
                 /\ UNCHANGED state

\* Somebody, not always the one who works on it, declares it finished.
Finish(r) == /\ r \in delivered
             /\ Move({r}, "finished")
             /\ UNCHANGED delivered

\* Checkpoints go back to the queue, even finished ones.
PutBack(rows) == /\ Move(rows, "waiting")
                 /\ UNCHANGED delivered

Next == \/ \E rows \in SUBSET Row : Take(rows) \/ Deliver(rows) \/ PutBack(rows)
        \/ \E r \in Row : Finish(r)

Spec == Init /\ [][Next]_vars

=============================================================================
