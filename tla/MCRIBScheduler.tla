--------------------------- MODULE MCRIBScheduler ---------------------------
(* Small instances of RIBScheduler for TLC. *)
EXTENDS RIBScheduler

(* A real-time slot for id 1 and a slot for other tasks; the greedy         *)
(* schedule has them the other way round.                                   *)
RtFirst == <<[sTime |-> 0, eTime |-> 2, taskId |-> 1],
             [sTime |-> 2, eTime |-> 4, taskId |-> 0]>>
RtLast  == <<[sTime |-> 0, eTime |-> 2, taskId |-> 0],
             [sTime |-> 2, eTime |-> 4, taskId |-> 1]>>

(* One slot, for tasks that are not real-time.                              *)
Sporadic == <<[sTime |-> 0, eTime |-> 2, taskId |-> 0]>>

SporadicOnly    == {<<Sporadic, Sporadic>>}
NormalAndGreedy == {<<RtFirst, RtLast>>}
AnyPlan         == SporadicOnly \cup NormalAndGreedy
AnyPlanOrNone   == AnyPlan \cup {<<>>}

OneId == [t \in RealTime |-> 1]

(* A behaviour is about the slots of a schedule, with tasks of every kind   *)
(* and a schedule set before the start or later, or about the time that     *)
(* batch and interactive tasks share, where one of them yields for ever.    *)
(* This cuts off steps that create a task or set a schedule, which no       *)
(* fairness asks for.                                                       *)
OneSubject ==
    LET sharing == plan \in SporadicOnly
    IN  /\ plan' \in SporadicOnly <=> sharing
        /\ \A t \in IF sharing THEN RealTime ELSE Looping : status'[t] = "NEW"

=============================================================================
