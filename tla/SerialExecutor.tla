---------------------------- MODULE SerialExecutor ----------------------------
(***************************************************************************)
(* What the queues of operations of the backend promise to their users:    *)
(* jobs run one at a time and in the order in which they were handed over, *)
(* and when one of them fails those that wait behind it are given up.      *)
(*                                                                         *)
(* AbstractOperationRunner (utility and recovery operations) and           *)
(* ProtobufSession (RPC operations) are both shown to implement it.        *)
(***************************************************************************)
EXTENDS Sequences

CONSTANTS Job,      \* the jobs; one that is over may be handed over again
          None      \* no job; not one of them

VARIABLES waiting,  \* the jobs handed over and not yet begun, in order
          running   \* the job under way, or None

executorVars == <<waiting, running>>

Waiting == {waiting[i] : i \in DOMAIN waiting}

ExecutorTypeOK ==
    /\ waiting \in Seq(Job)
    /\ running \in Job \cup {None}

ExecutorInit ==
    /\ waiting = <<>>
    /\ running = None

HandOver(job) ==
    /\ job \notin Waiting \cup {running}
    /\ waiting' = Append(waiting, job)
    /\ UNCHANGED running

Begin ==
    /\ running = None
    /\ waiting # <<>>
    /\ running' = Head(waiting)
    /\ waiting' = Tail(waiting)

Complete ==
    /\ running # None
    /\ running' = None
    /\ UNCHANGED waiting

GiveUp ==
    /\ running # None
    /\ running' = None
    /\ waiting' = <<>>

ExecutorNext ==
    \/ \E job \in Job : HandOver(job)
    \/ Begin
    \/ Complete
    \/ GiveUp

ExecutorSpec == ExecutorInit /\ [][ExecutorNext]_executorVars

=============================================================================
