---------------------------- MODULE OperationRunner ----------------------------
(***************************************************************************)
(* AbstractOperationRunner (src/backend/abstractoperationrunner.cpp), the  *)
(* queue behind the utility and the recovery operations of a device.       *)
(*                                                                         *)
(* An action is one slot run by the event loop.  Toplevel operations and   *)
(* the user hand operations over at any time, also from their own slots on *)
(* finished(), which run after the runner's.  An operation finishes once,  *)
(* and is deleted before the loop turns to its timers again.               *)
(***************************************************************************)
EXTENDS Naturals, Sequences

CONSTANTS
    Operation,      \* the operation objects, used again once deleted
    NoOperation     \* none of them

ASSUME NoOperationAssumption == NoOperation \notin Operation

VARIABLES
    state,      \* m_state
    queue,      \* m_queue
    phase,      \* what has become of each operation object
    posted      \* processQueue() calls posted by singleShot(0)

vars == <<state, queue, phase, posted>>

Phases == {"free", "queued", "running", "doomed"}       \* doomed: deleteLater() was called
Running == {o \in Operation : phase[o] = "running"}
Queued == {queue[i] : i \in DOMAIN queue}

TypeOK ==
    /\ state \in {"Idle", "Running"}
    /\ queue \in Seq(Operation)
    /\ phase \in [Operation -> Phases]
    /\ posted \in Nat

UninitializedState == "garbage"                                       \* mutant
InitialState == "Idle"

Init ==
    /\ state = InitialState
    /\ queue = <<>>
    /\ phase = [o \in Operation |-> "free"]
    /\ posted = 0

JumpTo(o) == <<o>> \o queue                                           \* mutant
JoinedBy(o) == Append(queue, o)

WakesAlways == TRUE                                                   \* mutant
Wakes == state = "Idle"

EnqueueOperation(o) ==
    /\ phase[o] = "free"
    /\ state' = "Running"
    /\ posted' = IF Wakes THEN posted + 1 ELSE posted
    /\ queue' = JoinedBy(o)
    /\ phase' = [phase EXCEPT ![o] = "queued"]

ProcessQueue ==
    /\ posted > 0
    /\ posted' = posted - 1
    /\ IF queue = <<>>
       THEN /\ state' = "Idle"
            /\ UNCHANGED <<queue, phase>>
       ELSE /\ queue' = Tail(queue)
            /\ phase' = [phase EXCEPT ![Head(queue)] = "running"]      \* start()
            /\ UNCHANGED state

(* finished() without an error.                                            *)
PostsProcessQueue == posted + 1

Succeed(o) ==
    /\ phase[o] = "running"
    /\ posted' = PostsProcessQueue
    /\ phase' = [phase EXCEPT ![o] = "doomed"]
    /\ UNCHANGED <<state, queue>>

(* finished() with an error: clearQueue(), then processQueue() at once,     *)
(* which finds nothing.  The operations dropped never emit finished().      *)
DropsWith(o) == Queued \cup {o}

Fail(o) ==
    /\ phase[o] = "running"
    /\ state' = "Idle"
    /\ queue' = <<>>
    /\ phase' = [p \in Operation |-> IF p \in DropsWith(o) THEN "doomed" ELSE phase[p]]
    /\ UNCHANGED posted

(* The event loop carries out a deleteLater().                              *)
Delete(o) ==
    /\ phase[o] = "doomed"
    /\ phase' = [phase EXCEPT ![o] = "free"]
    /\ UNCHANGED <<state, queue, posted>>

Next ==
    \/ ProcessQueue
    \/ \E o \in Operation : EnqueueOperation(o) \/ Succeed(o) \/ Fail(o) \/ Delete(o)

Spec == Init /\ [][Next]_vars

(* The event loop runs what was posted to it.  Nothing is assumed of the    *)
(* operations: some of them may never finish.                               *)
FairSpec == Spec /\ WF_vars(ProcessQueue)

-----------------------------------------------------------------------------

(* The runner has one turn, and someone holds it exactly while m_state says *)
(* Running: a processQueue() that is posted, or an operation under way.     *)
(* With no holder the queue would never be looked at again; with two of     *)
(* them two operations would use the device at once.                        *)
OneTurn ==
    /\ state = "Running" => (posted = 1 /\ Running = {}) \/ (posted = 0 /\ \E o \in Operation : Running = {o})
    /\ state = "Idle" => posted = 0 /\ Running = {} /\ queue = <<>>

(* Running and queued operations are alive, and each is there once: none is *)
(* started twice or after its deletion.                                     *)
QueueIsSound ==
    /\ Queued = {o \in Operation : phase[o] = "queued"}
    /\ \A i, j \in DOMAIN queue : queue[i] = queue[j] => i = j

(* Both at once.                                                            *)
TurnIsSound == OneTurn /\ QueueIsSound

(* The operation under way. *)
Current == IF Running = {} THEN NoOperation ELSE CHOOSE o \in Operation : o \in Running

(* The runner executes the operations one at a time, in order, and gives up *)
(* those behind one that fails.                                             *)
Executor == INSTANCE SerialExecutor
                WITH Job <- Operation, None <- NoOperation, waiting <- queue, running <- Current
ImplementsExecutor == Executor!ExecutorSpec

(* Unless some operation never finishes, whatever was queued leaves the     *)
(* queue, to be run or to be given up.                                      *)
QueuedOperationsLeave ==
    (\A o \in Operation : []<>(phase[o] # "running"))
        => \A o \in Operation : (phase[o] = "queued") ~> (phase[o] # "queued")

=============================================================================
