------------------------ MODULE SequentialForwarding ------------------------
(***************************************************************************)
(* What the dispatcher promises, without its process, its mapping or its   *)
(* deliveries ("Serverside retries / redeliveries while retaining the      *)
(* message order", docs/queue_configuration.md).                           *)
(*                                                                         *)
(* Events are completed one after the other.  What reaches a queue is the  *)
(* first uncompleted event or a repetition of the last completed one, so   *)
(* a repetition never reaches further back than one event, and a queue     *)
(* never steps back.                                                       *)
(***************************************************************************)
EXTENDS Integers, Sequences

CONSTANTS Subs, Topics

VARIABLES
    published,  \* topics of the events, in order of publication
    done,       \* how many of them are completed
    queue       \* what was forwarded to each subscription since its queue exists

vars == <<published, done, queue>>

Init ==
    /\ published = <<>>
    /\ done = 0
    /\ queue = [s \in Subs |-> <<>>]

Publish(t) ==
    /\ published' = Append(published, t)
    /\ UNCHANGED <<done, queue>>

Forward(s, e) ==
    /\ e \in {done, done + 1}
    /\ e \in 1..Len(published)
    /\ \A i \in DOMAIN queue[s] : queue[s][i] <= e
    /\ queue' = [queue EXCEPT ![s] = Append(@, e)]
    /\ UNCHANGED <<published, done>>

Complete ==
    /\ done < Len(published)
    /\ done' = done + 1
    /\ UNCHANGED <<published, queue>>

Discard(s) ==
    /\ queue' = [queue EXCEPT ![s] = <<>>]
    /\ UNCHANGED <<published, done>>

Next ==
    \/ \E t \in Topics : Publish(t)
    \/ \E s \in Subs : Discard(s) \/ \E e \in 1..Len(published) : Forward(s, e)
    \/ Complete

Spec == Init /\ [][Next]_vars

=============================================================================
