--------------------------- MODULE TopicConsumer ---------------------------
(***************************************************************************)
(* What the live process of an ingester promises of the topic it reads:    *)
(* the consumer group goes past an event only when it was saved or there   *)
(* is a reason to do without it, what the group is past is never taken up  *)
(* again, and each copy of an event after the first is paid for by a time  *)
(* that the process went back.                                             *)
(*                                                                         *)
(* Nothing here mentions batches, sessions, snapshots, commits that come   *)
(* late or handlers: SwapIngest and DefiIngest, which differ in all but    *)
(* the last, are shown to implement this specification.                    *)
(***************************************************************************)
EXTENDS Naturals

VARIABLES
  passed,   \* the offset that the group has at the broker
  copies,   \* how often each event of the topic was saved
  excused,  \* the events that the group may pass without a copy
  returns   \* how often the process went back

vars == <<passed, copies, excused, returns>>

Offset == DOMAIN copies

Init == /\ passed = 0 /\ returns = 0
        /\ Offset \subseteq Nat \ {0}
        /\ copies = [n \in Offset |-> 0]
        /\ excused \subseteq Offset

\* A reason that was there once remains.
Excuse == excused \subseteq excused' /\ excused' \subseteq Offset

\* Events that the group is not past, each with no more copies than are paid for.
Save(done) ==
  /\ \A n \in done : n > passed' /\ copies[n] <= returns
  /\ copies' = [n \in Offset |-> IF n \in done THEN copies[n] + 1 ELSE copies[n]]

Reach(to) ==
  /\ passed' = to /\ passed <= to
  /\ \A n \in Offset : passed < n /\ n <= to => copies[n] > 0 \/ n \in excused

\* Some events are saved, or there are more reasons to leave some out.
Deliver(done) == UNCHANGED <<passed, returns>> /\ Save(done) /\ Excuse

Pass(to) == Reach(to) /\ UNCHANGED <<copies, excused, returns>>

\* The process goes back.  What it had in hand may have been saved, and what it
\* had done before that may have reached the broker.
Return(done, to) == Reach(to) /\ Save(done) /\ Excuse /\ returns' = returns + 1

Next == \/ \E done \in SUBSET Offset : Deliver(done)
        \/ \E to \in Offset : Pass(to)
        \/ \E done \in SUBSET Offset, to \in Offset \cup {passed} : Return(done, to)

Spec == Init /\ [][Next]_vars

(***************************************************************************)
(* What follows: nothing the group is past is missing without a reason,    *)
(* and no event has more copies than one and what is paid for.             *)
(***************************************************************************)
Kept == \A n \in Offset : /\ n <= passed => copies[n] > 0 \/ n \in excused
                          /\ copies[n] <= 1 + returns

=============================================================================
