------------------------ MODULE RecoveryOperation_proofs ------------------------
(***************************************************************************)
(* Theorems about OperationRunner and RecoveryOperation, for every set of  *)
(* operations and any number of tries: the runner keeps its promises for   *)
(* any operations it is given; with those of recovery it still does, none  *)
(* of them is left without something to wait for, and success means that   *)
(* the work is done.                                                       *)
(*                                                                         *)
(* Then, on their own, theorems about DfuseDevice, the transactions these  *)
(* operations consist of, for every layout of pages, every file and any    *)
(* number of tries: what they leave alone, and what success means.         *)
(***************************************************************************)
EXTENDS RecoveryOperation, DfuseDevice, SequenceTheorems, FiniteSetTheorems, WellFoundedInduction, TLAPS

-----------------------------------------------------------------------------
(* The runner                                                                *)

(* The head of a nonempty sequence is its first element; its tail moves the others down by one. *)
LEMMA HeadTail ==
    ASSUME NEW S, NEW s \in Seq(S), s # <<>>
    PROVE  /\ Head(s) \in S /\ Tail(s) \in Seq(S)
           /\ 1 \in DOMAIN s /\ Head(s) = s[1]
           /\ \A i \in DOMAIN Tail(s) : i \in Nat \ {0} /\ i + 1 \in DOMAIN s /\ Tail(s)[i] = s[i + 1]
           /\ \A i \in DOMAIN s : i # 1 => i - 1 \in DOMAIN Tail(s) /\ i = (i - 1) + 1
BY HeadTailProperties

(* Appending an element to a sequence leaves the others where they were. *)
LEMMA Appended ==
    ASSUME NEW S, NEW s \in Seq(S), NEW e \in S
    PROVE  /\ Append(s, e) \in Seq(S)
           /\ DOMAIN Append(s, e) = DOMAIN s \cup {Len(s) + 1}
           /\ Len(s) + 1 \notin DOMAIN s
           /\ \A i \in DOMAIN s : Append(s, e)[i] = s[i]
           /\ Append(s, e)[Len(s) + 1] = e
BY AppendProperties

(* Every step of the runner keeps the types.                               *)
LEMMA TypeStep ==
    ASSUME TypeOK, [Next]_vars PROVE TypeOK'
<1>1. CASE ProcessQueue
  <2>1. CASE queue = <<>>
    BY <1>1, <2>1 DEF ProcessQueue, TypeOK, Phases
  <2>2. CASE queue # <<>>
    <3>1. Head(queue) \in Operation /\ Tail(queue) \in Seq(Operation)
      BY <2>2, HeadTail DEF TypeOK
    <3> QED
      BY SMTT(20), ZenonT(30), <1>1, <2>2, <3>1 DEF ProcessQueue, TypeOK, Phases
  <2> QED
    BY <2>1, <2>2
<1>2. ASSUME NEW o \in Operation, EnqueueOperation(o) PROVE TypeOK'
  BY <1>2 DEF EnqueueOperation, JoinedBy, TypeOK, Phases
<1>3. ASSUME NEW o \in Operation, Succeed(o) PROVE TypeOK'
  BY <1>3 DEF Succeed, PostsProcessQueue, TypeOK, Phases
<1>4. ASSUME NEW o \in Operation, Fail(o) PROVE TypeOK'
  BY <1>4 DEF Fail, DropsWith, TypeOK, Phases
<1>5. ASSUME NEW o \in Operation, Delete(o) PROVE TypeOK'
  BY <1>5 DEF Delete, TypeOK, Phases
<1>6. CASE UNCHANGED vars
  BY <1>6 DEF vars, TypeOK
<1> QED
  BY <1>1, <1>2, <1>3, <1>4, <1>5, <1>6 DEF Next

(* The runner's own fields and the phases of the operations keep to their  *)
(* types: no step starts or drops something that is not an operation.      *)
THEOREM TypeCorrect == Spec => []TypeOK
<1>1. Init => TypeOK
  BY DEF Init, InitialState, TypeOK, Phases
<1>2. TypeOK /\ [Next]_vars => TypeOK'
  BY TypeStep
<1> QED
  BY <1>1, <1>2, PTL DEF Spec

(* Every step keeps the queue and the phases in agreement.                *)
LEMMA QueueStep ==
    ASSUME TypeOK, QueueIsSound, [Next]_vars PROVE QueueIsSound'
<1>1. /\ \A i \in DOMAIN queue : queue[i] \in Operation /\ phase[queue[i]] = "queued"
      /\ \A o \in Operation : phase[o] = "queued" => \E i \in DOMAIN queue : queue[i] = o
      /\ \A i, j \in DOMAIN queue : queue[i] = queue[j] => i = j
      /\ queue \in Seq(Operation) /\ phase \in [Operation -> Phases]
  BY DEF QueueIsSound, Queued, TypeOK
<1>2. ASSUME \A i \in DOMAIN queue' : queue'[i] \in Operation /\ phase'[queue'[i]] = "queued",
             \A o \in Operation : phase'[o] = "queued" => \E i \in DOMAIN queue' : queue'[i] = o,
             \A i, j \in DOMAIN queue' : queue'[i] = queue'[j] => i = j
      PROVE  QueueIsSound'
  BY <1>2 DEF QueueIsSound, Queued
<1>3. CASE ProcessQueue
  <2>1. CASE queue = <<>>
    BY <2>1, <1>1, <1>2, <1>3 DEF ProcessQueue
  <2>2. CASE queue # <<>>
    <3>1. queue' = Tail(queue) /\ phase' = [phase EXCEPT ![queue[1]] = "running"] /\ 1 \in DOMAIN queue
      BY <1>1, <1>3, <2>2, HeadTail DEF ProcessQueue
    <3>2. \A i \in DOMAIN queue' : i + 1 \in DOMAIN queue /\ queue'[i] = queue[i + 1] /\ i + 1 # 1 /\ i \in Nat
      BY <1>1, <2>2, <3>1, HeadTail
    <3>3. \A i \in DOMAIN queue : i # 1 => i - 1 \in DOMAIN queue' /\ queue'[i - 1] = queue[i]
      BY <1>1, <2>2, <3>1, <3>2, HeadTail
    <3>4. \A i \in DOMAIN queue' : queue'[i] \in Operation /\ queue'[i] # queue[1] /\ phase'[queue'[i]] = "queued"
      BY <1>1, <3>1, <3>2
    <3>5. \A i, j \in DOMAIN queue' : queue'[i] = queue'[j] => i = j
      BY <1>1, <3>2
    <3>6. \A o \in Operation : phase'[o] = "queued" => \E i \in DOMAIN queue' : queue'[i] = o
      <4> SUFFICES ASSUME NEW o \in Operation, phase'[o] = "queued"
                   PROVE  \E i \in DOMAIN queue' : queue'[i] = o
        OBVIOUS
      <4>1. phase[o] = "queued" /\ o # queue[1]
        BY <1>1, <3>1
      <4>2. PICK i \in DOMAIN queue : queue[i] = o
        BY <1>1, <4>1
      <4>3. i - 1 \in DOMAIN queue' /\ queue'[i - 1] = o
        BY <3>3, <4>1, <4>2
      <4> QED
        BY <4>3
    <3> QED
      BY <1>2, <3>4, <3>5, <3>6
  <2> QED
    BY <2>1, <2>2
<1>4. ASSUME NEW o \in Operation, EnqueueOperation(o) PROVE QueueIsSound'
  <2>1. /\ DOMAIN queue' = DOMAIN queue \cup {Len(queue) + 1}
        /\ \A i \in DOMAIN queue : queue'[i] = queue[i]
        /\ queue'[Len(queue) + 1] = o
        /\ phase' = [phase EXCEPT ![o] = "queued"] /\ phase[o] = "free"
    BY <1>1, <1>4, Appended DEF EnqueueOperation, JoinedBy
  <2> QED
    BY <1>1, <1>2, <2>1
<1>5. ASSUME NEW o \in Operation, Succeed(o) PROVE QueueIsSound'
  BY <1>1, <1>2, <1>5 DEF Succeed
<1>6. ASSUME NEW o \in Operation, Fail(o) PROVE QueueIsSound'
  BY <1>1, <1>2, <1>6 DEF Fail, DropsWith, Queued
<1>7. ASSUME NEW o \in Operation, Delete(o) PROVE QueueIsSound'
  BY <1>1, <1>2, <1>7 DEF Delete
<1>8. CASE UNCHANGED vars
  BY <1>8 DEF vars, QueueIsSound, Queued
<1> QED
  BY <1>3, <1>4, <1>5, <1>6, <1>7, <1>8 DEF Next

(* The queue holds the queued operations, each once.                       *)
THEOREM SoundQueue == Spec => []QueueIsSound
<1>1. Init => QueueIsSound
  BY DEF Init, QueueIsSound, Queued
<1>2. TypeOK /\ QueueIsSound /\ [Next]_vars => QueueIsSound'
  BY QueueStep
<1> QED
  BY <1>1, <1>2, TypeCorrect, PTL DEF Spec

(* Every step hands the turn on, keeps it or gives it back.               *)
LEMMA TurnStep ==
    ASSUME TypeOK, QueueIsSound, OneTurn, [Next]_vars PROVE OneTurn'
<1>1. phase \in [Operation -> Phases] /\ posted \in Nat /\ state \in {"Idle", "Running"}
  BY DEF TypeOK
<1>2. CASE ProcessQueue
  <2>1. state = "Running" /\ posted = 1 /\ Running = {}
    BY <1>1, <1>2 DEF ProcessQueue, OneTurn
  <2>2. CASE queue = <<>>
    BY <1>2, <2>1, <2>2 DEF ProcessQueue, OneTurn, Running
  <2>3. CASE queue # <<>>
    <3>1. Head(queue) \in Operation
      BY <2>3, HeadTail DEF TypeOK
    <3>2. Running' = {Head(queue)}
      BY <1>1, <1>2, <2>1, <2>3, <3>1 DEF ProcessQueue, Running
    <3> QED
      BY <1>2, <2>1, <2>3, <3>1, <3>2 DEF ProcessQueue, OneTurn
  <2> QED
    BY <2>2, <2>3
<1>3. ASSUME NEW o \in Operation, EnqueueOperation(o) PROVE OneTurn'
  <2>1. Running' = Running
    BY <1>1, <1>3 DEF EnqueueOperation, Running
  <2> QED
    BY <1>1, <1>3, <2>1 DEF EnqueueOperation, Wakes, OneTurn
<1>4. ASSUME NEW o \in Operation, Succeed(o) PROVE OneTurn'
  <2>1. o \in Running
    BY <1>4 DEF Succeed, Running
  <2>2. state = "Running" /\ posted = 0 /\ Running = {o}
    BY <1>1, <2>1 DEF OneTurn
  <2>3. Running' = {}
    BY <1>1, <1>4, <2>2 DEF Succeed, Running
  <2> QED
    BY <1>4, <2>2, <2>3 DEF Succeed, PostsProcessQueue, OneTurn
<1>5. ASSUME NEW o \in Operation, Fail(o) PROVE OneTurn'
  <2>1. o \in Running
    BY <1>5 DEF Fail, DropsWith, Queued, Running
  <2>2. posted = 0 /\ Running = {o}
    BY <1>1, <2>1 DEF OneTurn
  <2>3. Running' = {}
    BY <1>1, <1>5, <2>2 DEF Fail, DropsWith, Running
  <2> QED
    BY <1>5, <2>2, <2>3 DEF Fail, OneTurn
<1>6. ASSUME NEW o \in Operation, Delete(o) PROVE OneTurn'
  <2>1. Running' = Running
    BY <1>1, <1>6 DEF Delete, Running
  <2> QED
    BY <1>6, <2>1 DEF Delete, OneTurn
<1>7. CASE UNCHANGED vars
  BY <1>7 DEF vars, OneTurn, Running
<1> QED
  BY <1>2, <1>3, <1>4, <1>5, <1>6, <1>7 DEF Next

(* The turn is held by one processQueue() that is posted or by one          *)
(* operation, for as long as the runner says it is running.                 *)
THEOREM TurnHeld == Spec => []OneTurn
<1>1. Init => OneTurn
  BY DEF Init, InitialState, OneTurn, Running
<1>2. TypeOK /\ QueueIsSound /\ OneTurn /\ [Next]_vars => OneTurn'
  BY TurnStep
<1> QED
  BY <1>1, <1>2, TypeCorrect, SoundQueue, PTL DEF Spec

(* The turn is held and the queue is sound, for any number of operations.   *)
THEOREM TurnSound == Spec => []TurnIsSound
BY SoundQueue, TurnHeld, PTL DEF TurnIsSound

-----------------------------------------------------------------------------
(* The runner executes its operations like a SerialExecutor                 *)

(* A step of the runner is a step of SerialExecutor or leaves its variables alone. *)
LEMMA StepExecutes ==
    ASSUME TypeOK, QueueIsSound, OneTurn, Next
    PROVE  Executor!ExecutorNext \/ UNCHANGED <<queue, Current>>
<1>1. phase \in [Operation -> Phases] /\ posted \in Nat /\ queue \in Seq(Operation)
  BY DEF TypeOK
<1>2. Running = {} => Current = NoOperation
  BY DEF Current
<1>3. Running' = {} => Current' = NoOperation
  BY DEF Current
<1>4. ASSUME NEW o \in Operation, Running = {o} PROVE Current = o
  BY <1>4 DEF Current
<1>5. ASSUME NEW o \in Operation, Running' = {o} PROVE Current' = o
  BY <1>5 DEF Current
<1>6. \A o \in Operation : o # NoOperation
  BY NoOperationAssumption
<1>7. CASE ProcessQueue
  <2>1. Running = {} /\ Current = NoOperation
    BY <1>1, <1>2, <1>7 DEF ProcessQueue, OneTurn, TypeOK
  <2>2. CASE queue = <<>>
    <3>1. Running' = Running
      BY <1>7, <2>2 DEF ProcessQueue, Running
    <3> QED
      BY <1>3, <1>7, <2>1, <2>2, <3>1 DEF ProcessQueue
  <2>3. CASE queue # <<>>
    <3>1. Head(queue) \in Operation
      BY <1>1, <2>3, HeadTail
    <3>2. Running' = {Head(queue)}
      BY <1>1, <1>7, <2>1, <2>3, <3>1 DEF ProcessQueue, Running
    <3>3. Current' = Head(queue) /\ queue' = Tail(queue)
      BY <1>5, <1>7, <2>3, <3>1, <3>2 DEF ProcessQueue
    <3> QED
      BY <2>1, <2>3, <3>3 DEF Executor!ExecutorNext, Executor!Begin
  <2> QED
    BY <2>2, <2>3
<1>8. ASSUME NEW o \in Operation, EnqueueOperation(o) PROVE Executor!HandOver(o)
  <2>1. Running' = Running /\ o \notin Running
    BY <1>1, <1>8 DEF EnqueueOperation, Running
  <2>2. Current' = Current
    BY <2>1 DEF Current
  <2>3. o # Current
    <3>1. Current \in Running \cup {NoOperation}
      BY DEF Current, Running
    <3> QED
      BY <1>6, <2>1, <3>1
  <2>4. o \notin Executor!Waiting
    BY <1>1, <1>8 DEF EnqueueOperation, QueueIsSound, Queued, Executor!Waiting
  <2> QED
    BY <1>8, <2>2, <2>3, <2>4 DEF EnqueueOperation, JoinedBy, Executor!HandOver
<1>9. ASSUME NEW o \in Operation, phase[o] = "running", phase'[o] # "running",
             \A p \in Operation : phase'[p] = "running" => phase[p] = "running"
      PROVE  Current # NoOperation /\ Current' = NoOperation
  <2>1. Running = {o}
    BY <1>9 DEF Running, OneTurn, TypeOK
  <2>2. Running' = {}
    BY <1>9, <2>1 DEF Running
  <2> QED
    BY <1>3, <1>4, <1>6, <2>1, <2>2
<1>10. ASSUME NEW o \in Operation, Succeed(o) PROVE Executor!Complete
  BY <1>1, <1>9, <1>10 DEF Succeed, Executor!Complete
<1>11. ASSUME NEW o \in Operation, Fail(o) PROVE Executor!GiveUp
  BY <1>1, <1>9, <1>11 DEF Fail, DropsWith, Executor!GiveUp
<1>12. ASSUME NEW o \in Operation, Delete(o) PROVE UNCHANGED <<queue, Current>>
  <2>1. Running' = Running
    BY <1>1, <1>12 DEF Delete, Running
  <2> QED
    BY <1>12, <2>1 DEF Delete, Current
<1> QED
  BY <1>7, <1>8, <1>10, <1>11, <1>12 DEF Next, Executor!ExecutorNext

(* The queue of operations behaves like the abstract executor: one at a     *)
(* time, in order, and a failure gives up what waits.                       *)
THEOREM RunnerImplementsExecutor == Spec => ImplementsExecutor
<1>1. Init => Executor!ExecutorInit
  BY DEF Init, Executor!ExecutorInit, Current, Running
<1>2. TypeOK /\ QueueIsSound /\ OneTurn /\ [Next]_vars
          => [Executor!ExecutorNext]_Executor!executorVars
  <2> SUFFICES ASSUME TypeOK, QueueIsSound, OneTurn, [Next]_vars
               PROVE  [Executor!ExecutorNext]_Executor!executorVars
    OBVIOUS
  <2>1. CASE Next
    BY <2>1, StepExecutes DEF Executor!executorVars
  <2>2. CASE UNCHANGED vars
    BY <2>2 DEF vars, Current, Running, Executor!executorVars
  <2> QED
    BY <2>1, <2>2
<1> QED
  BY <1>1, <1>2, TypeCorrect, SoundQueue, TurnHeld, PTL
     DEF Spec, ImplementsExecutor, Executor!ExecutorSpec

-----------------------------------------------------------------------------
(* The operations of recovery                                                *)

Steps == {"none", "ready", "waiting", "startingFUS", "deleting", "downloading", "upgrading",
          "checking", "ok", "failed"}
Jobs == [kind : Kinds \cup {"none"}, at : Steps, timer : BOOLEAN, loop : BOOLEAN, steps : Nat,
         installs : Nat, checks : Nat, unread : BOOLEAN]
Devices == [online : BOOLEAN, dfu : BOOLEAN, core2 : {"stack", "starting", "fus", "deleting", "upgrading", "error"},
            stack : {"old", "none", "new"}, image : {"none", "part", "whole"}]

RecoveryTypeOK ==
    /\ job \in Jobs
    /\ thread \in {"none", "writing", "astray"}
    /\ held \in BOOLEAN
    /\ dev \in Devices

(* What an operation waits for depends on how far it is.                     *)
Waits ==
    /\ job.at = "ready" => job.steps > 0
    /\ job.at \in {"waiting", "startingFUS"} => job.timer \/ job.steps > 0
    /\ job.at \in {"deleting", "upgrading", "checking"} => job.loop
    /\ job.at = "downloading" => thread # "none" \/ job.steps > 0

(* A thread belongs to the operation that is under way, and writes to a      *)
(* device that is there.                                                     *)
ThreadHasOwner ==
    /\ thread # "none" => Underway
    /\ thread = "writing" => dev.online

(* Nothing takes a firmware download on but the end of its thread.           *)
FirmwareWaits ==
    job.kind = "firmware" =>
        /\ ~job.loop
        /\ job.at = "ready" => job.steps = 1 /\ thread = "none"
        /\ job.at = "downloading" /\ thread = "writing" => job.steps = 0

(* What has become of the old wireless stack.                                *)
StackIsDeleted ==
    job.kind = "wirelessStack" =>
        /\ job.at = "deleting" => dev.core2 \in {"deleting", "error"} \/ (dev.core2 = "fus" /\ dev.stack = "none")
        /\ job.at \in {"downloading", "upgrading", "checking"} => dev.stack # "old"

RunnerInv == TypeOK /\ QueueIsSound /\ OneTurn

RecoveryInv ==
    /\ RunnerInv
    /\ RecoveryTypeOK
    /\ Underway <=> Running # {}
    /\ Waits
    /\ ThreadHasOwner
    /\ FirmwareWaits
    /\ StackIsDeleted

-----------------------------------------------------------------------------
(* The runner's part of a step                                               *)

(* The runner's invariants survive whatever is a step of the runner.         *)
LEMMA RunnerStep ==
    ASSUME RunnerInv, [Next]_vars PROVE RunnerInv'
BY TypeStep, QueueStep, TurnStep DEF RunnerInv

(* The operation under way is the one that runs.                             *)
LEMMA CurrentRuns ==
    ASSUME RunnerInv, Running # {}
    PROVE  Current \in Operation /\ phase[Current] = "running" /\ Running = {Current}
<1>1. Current \in Running
  BY DEF Current, Running
<1>2. state = "Running"
  BY <1>1 DEF RunnerInv, TypeOK, OneTurn
<1> QED
  BY <1>1, <1>2 DEF RunnerInv, OneTurn, Running

(* Whatever leaves the runner's variables alone leaves it as sound as it     *)
(* was, with the same operation under way.                                   *)
LEMMA RunnerRests ==
    ASSUME RunnerInv, UNCHANGED vars
    PROVE  RunnerInv' /\ Running' = Running
BY DEF RunnerInv, TypeOK, QueueIsSound, Queued, OneTurn, Running, vars

(* finished(), with an error or without, is a step of the runner after which *)
(* nothing runs.                                                             *)
LEMMA RunnerIsTold ==
    ASSUME RunnerInv, Running # {}, Succeed(Current) \/ Fail(Current)
    PROVE  Next /\ RunnerInv' /\ Running' = {}
<1>1. Current \in Operation /\ Running = {Current}
  BY CurrentRuns
<1>2. Next
  BY <1>1 DEF Next
<1>3. Running' = {}
  <2>1. phase \in [Operation -> Phases]
    BY DEF RunnerInv, TypeOK
  <2>2. CASE Succeed(Current)
    BY <1>1, <2>1, <2>2 DEF Succeed, Running
  <2>3. CASE Fail(Current)
    BY <1>1, <2>1, <2>3 DEF Fail, DropsWith, Running
  <2> QED
    BY <2>2, <2>3
<1> QED
  BY <1>2, <1>3, RunnerStep

-----------------------------------------------------------------------------
(* How a step of an operation ends                                           *)

(* An operation that ends leaves the runner idle or with its next turn, and  *)
(* waits for nothing.                                                        *)
LEMMA Ends ==
    ASSUME RecoveryInv, Underway,
           FinishWithError \/ (\E unread \in BOOLEAN : Finish(unread))
    PROVE  Next /\ RecoveryInv'
<1>1. RunnerInv /\ Running # {} /\ job \in Jobs
  BY DEF RecoveryInv, RecoveryTypeOK
<1>2. Succeed(Current) \/ Fail(Current)
  BY DEF Finish, FinishWithError
<1>3. Next /\ RunnerInv' /\ Running' = {}
  BY <1>1, <1>2, RunnerIsTold
<1>4. job' \in Jobs /\ job'.at \in {"ok", "failed"} /\ job'.kind = job.kind /\ job'.loop = FALSE
  <2>1. CASE FinishWithError
    BY <1>1, <2>1 DEF FinishWithError, NoJob, Jobs, Steps
  <2>2. ASSUME NEW unread \in BOOLEAN, Finish(unread)
        PROVE  job' \in Jobs /\ job'.at \in {"ok", "failed"} /\ job'.kind = job.kind /\ job'.loop = FALSE
    BY <1>1, <2>2 DEF Finish, NoJob, Jobs, Steps
  <2> QED
    BY <2>1, <2>2
<1>5. thread' = "none" /\ held' \in BOOLEAN /\ dev' = dev
  BY DEF Finish, FinishWithError, LeavesThread, RecoveryInv, RecoveryTypeOK
<1>6. RecoveryTypeOK'
  BY <1>4, <1>5 DEF RecoveryInv, RecoveryTypeOK
<1>7. ~Underway'
  BY <1>4 DEF Underway
<1>8. Waits' /\ ThreadHasOwner' /\ FirmwareWaits' /\ StackIsDeleted'
  BY <1>4, <1>5 DEF Waits, ThreadHasOwner, FirmwareWaits, StackIsDeleted
<1> QED
  BY <1>3, <1>6, <1>7, <1>8 DEF RecoveryInv

(* An operation that goes on, and does not touch the runner, is under way as *)
(* before.                                                                   *)
LEMMA GoesOn ==
    ASSUME RecoveryInv, UNCHANGED vars, Underway' = Underway,
           RecoveryTypeOK', Waits', ThreadHasOwner', FirmwareWaits', StackIsDeleted'
    PROVE  RecoveryInv'
<1>1. RunnerInv' /\ Running' = Running
  BY RunnerRests DEF RecoveryInv
<1> QED
  BY <1>1 DEF RecoveryInv

-----------------------------------------------------------------------------
(* One step of nextStateLogic()                                              *)

(* It is taken because it was posted, or by the timer of the loop.           *)
Taken(j) ==
    \/ job.steps > 0 /\ j = [job EXCEPT !.steps = @ - 1]
    \/ job.loop /\ j = job

(* A signal that starts the next step takes it from the count, unless it is a wait's, and keeps the rest. *)
LEMMA TakenFields ==
    ASSUME RecoveryTypeOK, NEW j, Taken(j)
    PROVE  /\ j \in Jobs
           /\ j.kind = job.kind /\ j.at = job.at /\ j.timer = job.timer /\ j.loop = job.loop
           /\ j.installs = job.installs /\ j.checks = job.checks
           /\ job.loop \/ (job.steps > 0 /\ j.steps = job.steps - 1)
BY DEF RecoveryTypeOK, Jobs, Taken

(* advanceOperationState() counts one more step to be taken and keeps the rest of the job. *)
LEMMA AdvancedFields ==
    ASSUME NEW j \in Jobs
    PROVE  /\ Advanced(j) \in Jobs /\ Advanced(j).steps = j.steps + 1 /\ Advanced(j).steps > 0
           /\ Advanced(j).kind = j.kind /\ Advanced(j).at = j.at /\ Advanced(j).loop = j.loop
           /\ Advanced(j).timer = j.timer
BY DEF Jobs, Advanced

(* A step of one of the boot operations is a step of the runner and keeps RecoveryInv. *)
LEMMA BootStep ==
    ASSUME RecoveryInv, Underway, NEW j, Taken(j), job.kind \in BootKinds, BootLogic(j)
    PROVE  [Next]_vars /\ RecoveryInv'
<1>1. job \in Jobs /\ j \in Jobs /\ j.kind = job.kind /\ j.at = job.at
  BY TakenFields DEF RecoveryInv, RecoveryTypeOK
<1>2. CASE FinishWithError \/ Finish(FALSE)
  BY <1>2, Ends
<1>3. CASE Done([j EXCEPT !.at = "waiting", !.timer = TRUE], dev)
  <2>1. UNCHANGED vars /\ UNCHANGED <<thread, held, dev>> /\ job' = [j EXCEPT !.at = "waiting", !.timer = TRUE]
    BY <1>3 DEF Done, GoOn
  <2>2. job' \in Jobs /\ job'.kind = job.kind /\ job'.at = "waiting" /\ job'.timer = TRUE
    BY <1>1, <2>1 DEF Jobs, Steps
  <2>3. Underway' = Underway
    BY <2>2 DEF Underway
  <2>4. RecoveryTypeOK'
    BY <2>1, <2>2 DEF RecoveryInv, RecoveryTypeOK
  <2>5. Waits' /\ ThreadHasOwner'
    BY <2>1, <2>2, <2>3 DEF Waits, ThreadHasOwner, RecoveryInv
  <2>6. FirmwareWaits' /\ StackIsDeleted'
    BY <2>2 DEF FirmwareWaits, StackIsDeleted, BootKinds
  <2> QED
    BY <2>1, <2>3, <2>4, <2>5, <2>6, GoesOn
<1> QED
  BY <1>2, <1>3 DEF BootLogic, ResetsDevice

(* A step of the firmware download is a step of the runner and keeps RecoveryInv. *)
LEMMA FirmwareStep ==
    ASSUME RecoveryInv, Underway, NEW j, Taken(j), job.kind = "firmware", FirmwareLogic(j)
    PROVE  [Next]_vars /\ RecoveryInv'
<1>1. /\ job \in Jobs /\ j \in Jobs /\ j.kind = job.kind /\ j.at = job.at /\ j.loop = job.loop
      /\ j.steps = job.steps - 1 /\ ~job.loop /\ job.steps \in Nat
  BY TakenFields DEF RecoveryInv, RecoveryTypeOK, FirmwareWaits, Jobs
<1>2. CASE Finish(FALSE)
  BY <1>2, Ends
<1>3. CASE j.at = "ready" /\ StartThread(j)
  <2>1. UNCHANGED vars /\ held' = held /\ job' = [j EXCEPT !.at = "downloading"]
    BY <1>3 DEF StartThread
  <2>2. job' \in Jobs /\ job'.kind = job.kind /\ job'.at = "downloading" /\ job'.loop = FALSE /\ job'.steps = 0
    BY <1>1, <1>3, <2>1 DEF Jobs, Steps, RecoveryInv, FirmwareWaits
  <2>3. /\ thread' \in {"writing", "astray"} /\ dev' \in Devices
        /\ thread' = "writing" => dev'.online
    BY <1>3 DEF StartThread, BeginTransaction, RecoveryInv, RecoveryTypeOK, Devices
  <2>4. RecoveryTypeOK'
    BY <2>1, <2>2, <2>3 DEF RecoveryInv, RecoveryTypeOK
  <2>5. Underway' = Underway
    BY <2>2 DEF Underway
  <2>6. Waits' /\ ThreadHasOwner' /\ FirmwareWaits' /\ StackIsDeleted'
    BY <2>2, <2>3, <2>5 DEF Waits, ThreadHasOwner, FirmwareWaits, StackIsDeleted
  <2> QED
    BY <2>1, <2>4, <2>5, <2>6, GoesOn
<1> QED
  BY <1>2, <1>3 DEF FirmwareLogic

(* What is left to show of a step of the wireless stack download that goes   *)
(* on.                                                                       *)
LEMMA StackGoesOn ==
    ASSUME RecoveryInv, Underway, job.kind = "wirelessStack", UNCHANGED vars,
           job' \in Jobs, job'.kind = job.kind, job'.at \notin {"none", "ok", "failed"},
           thread' \in {"none", "writing", "astray"}, thread' = "writing" => dev'.online,
           held' = held, dev' \in Devices, Waits', StackIsDeleted'
    PROVE  [Next]_vars /\ RecoveryInv'
<1>1. Underway' = Underway
  BY DEF Underway
<1>2. RecoveryTypeOK'
  BY DEF RecoveryInv, RecoveryTypeOK
<1>3. ThreadHasOwner' /\ FirmwareWaits'
  BY <1>1 DEF ThreadHasOwner, FirmwareWaits
<1> QED
  BY <1>1, <1>2, <1>3, GoesOn

(* A step of the wireless stack download, with its waits and attempts, is a step of the runner and keeps RecoveryInv. *)
LEMMA StackStep ==
    ASSUME RecoveryInv, Underway, NEW j, Taken(j), job.kind = "wirelessStack", WirelessStackLogic(j)
    PROVE  [Next]_vars /\ RecoveryInv'
<1>1. /\ job \in Jobs /\ j \in Jobs /\ j.kind = job.kind /\ j.at = job.at /\ j.timer = job.timer
      /\ j.loop = job.loop /\ j.checks = job.checks /\ j.installs = job.installs
      /\ job.loop \/ (job.steps > 0 /\ j.steps = job.steps - 1)
  BY TakenFields DEF RecoveryInv, RecoveryTypeOK
<1>2. thread \in {"none", "writing", "astray"} /\ dev \in Devices /\ (thread = "writing" => dev.online)
  BY DEF RecoveryInv, RecoveryTypeOK, ThreadHasOwner
<1>3. /\ job.at = "deleting" => dev.core2 \in {"deleting", "error"} \/ (dev.core2 = "fus" /\ dev.stack = "none")
      /\ job.at \in {"downloading", "upgrading", "checking"} => dev.stack # "old"
      /\ job.at \in {"deleting", "upgrading", "checking"} => job.loop
  BY DEF RecoveryInv, StackIsDeleted, Waits
<1>4. CASE FinishWithError \/ (\E unread \in BOOLEAN : Finish(unread))
  BY <1>4, Ends
<1>5. CASE j.at = "ready" /\ StartFUS(j)
  <2>1. CASE Done(StartTimed(j), [dev EXCEPT !.core2 = IF @ = "stack" THEN "starting" ELSE @])
    <3>1. /\ UNCHANGED vars /\ thread' = thread /\ held' = held /\ job' = [j EXCEPT !.at = "startingFUS", !.timer = TRUE]
          /\ dev' = [dev EXCEPT !.core2 = IF @ = "stack" THEN "starting" ELSE @]
      BY <2>1 DEF Done, GoOn, StartTimed
    <3>2. job' \in Jobs /\ job'.kind = job.kind /\ job'.at = "startingFUS" /\ job'.timer = TRUE
      BY <1>1, <3>1 DEF Jobs, Steps
    <3>3. dev' \in Devices /\ dev'.online = dev.online
      BY <1>2, <3>1 DEF Devices
    <3>4. Waits' /\ StackIsDeleted'
      BY <3>2 DEF Waits, StackIsDeleted
    <3> QED
      BY <1>2, <3>1, <3>2, <3>3, <3>4, StackGoesOn
  <2> QED
    BY <1>4, <1>5, <2>1 DEF StartFUS
<1>6. CASE j.at = "startingFUS" /\ DeleteWirelessStack(j)
  <2>1. CASE Done([j EXCEPT !.at = "deleting", !.loop = TRUE], [dev EXCEPT !.core2 = "deleting"])
    <3>1. /\ UNCHANGED vars /\ thread' = thread /\ held' = held /\ job' = [j EXCEPT !.at = "deleting", !.loop = TRUE]
          /\ dev' = [dev EXCEPT !.core2 = "deleting"]
      BY <2>1 DEF Done, GoOn
    <3>2. job' \in Jobs /\ job'.kind = job.kind /\ job'.at = "deleting" /\ job'.loop = TRUE
      BY <1>1, <3>1 DEF Jobs, Steps
    <3>3. dev' \in Devices /\ dev'.online = dev.online /\ dev'.core2 = "deleting"
      BY <1>2, <3>1 DEF Devices
    <3>4. Waits' /\ StackIsDeleted'
      BY <3>2, <3>3 DEF Waits, StackIsDeleted
    <3> QED
      BY <1>2, <3>1, <3>2, <3>3, <3>4, StackGoesOn
  <2> QED
    BY <1>4, <1>6, <2>1 DEF DeleteWirelessStack
<1>7. ASSUME GoOn(j), UNCHANGED dev, job.at \in {"deleting", "upgrading"}
      PROVE  [Next]_vars /\ RecoveryInv'
  <2>1. UNCHANGED vars /\ thread' = thread /\ held' = held /\ job' = j /\ dev' = dev
    BY <1>7 DEF GoOn
  <2>2. Waits' /\ StackIsDeleted'
    BY <1>1, <1>3, <1>7, <2>1 DEF Waits, StackIsDeleted
  <2> QED
    BY <1>1, <1>2, <1>7, <2>1, <2>2, StackGoesOn
<1>8. CASE j.at = "deleting" /\ IsWirelessStackDeleted(j)
  <2>1. PICK status \in Statuses :
           \/ WaitsNext(status) /\ GoOn(j) /\ UNCHANGED dev
           \/ status \in {"WSRunning", "ErrorOccured"} /\ FinishWithError
           \/ status = "FUSRunning" /\ StartThread([j EXCEPT !.loop = FALSE])
    BY <1>8 DEF IsWirelessStackDeleted
  <2>2. CASE status = "FUSRunning" /\ StartThread([j EXCEPT !.loop = FALSE])
    <3>1. dev.core2 = "fus"
      BY <2>2 DEF Statuses, FUSGetState
    <3>2. dev.stack = "none"
      BY <1>1, <1>3, <1>8, <3>1
    <3>3. UNCHANGED vars /\ held' = held /\ job' = [[j EXCEPT !.loop = FALSE] EXCEPT !.at = "downloading"]
      BY <2>2 DEF StartThread
    <3>4. job' \in Jobs /\ job'.kind = job.kind /\ job'.at = "downloading"
      BY <1>1, <3>3 DEF Jobs, Steps
    <3>5. /\ thread' \in {"writing", "astray"} /\ dev' \in Devices /\ dev'.stack = dev.stack
          /\ thread' = "writing" => dev'.online
      BY <1>2, <2>2 DEF StartThread, BeginTransaction, Devices
    <3>6. Waits' /\ StackIsDeleted'
      BY <3>2, <3>4, <3>5 DEF Waits, StackIsDeleted
    <3> QED
      BY <3>3, <3>4, <3>5, <3>6, StackGoesOn
  <2> QED
    BY <1>1, <1>4, <1>7, <1>8, <2>1, <2>2
<1>9. CASE j.at = "downloading" /\ UpgradeWirelessStack(j)
  <2>1. CASE Done([j EXCEPT !.at = "upgrading", !.loop = TRUE], [dev EXCEPT !.core2 = "upgrading"])
    <3>1. /\ UNCHANGED vars /\ thread' = thread /\ held' = held /\ job' = [j EXCEPT !.at = "upgrading", !.loop = TRUE]
          /\ dev' = [dev EXCEPT !.core2 = "upgrading"]
      BY <2>1 DEF Done, GoOn
    <3>2. job' \in Jobs /\ job'.kind = job.kind /\ job'.at = "upgrading" /\ job'.loop = TRUE
      BY <1>1, <3>1 DEF Jobs, Steps
    <3>3. dev' \in Devices /\ dev'.online = dev.online /\ dev'.stack = dev.stack
      BY <1>2, <3>1 DEF Devices
    <3>4. Waits' /\ StackIsDeleted'
      BY <1>1, <1>3, <1>9, <3>2, <3>3 DEF Waits, StackIsDeleted
    <3> QED
      BY <1>2, <3>1, <3>2, <3>3, <3>4, StackGoesOn
  <2> QED
    BY <1>4, <1>9, <2>1 DEF UpgradeWirelessStack
<1>10. CASE j.at = "upgrading" /\ IsWirelessStackUpgraded(j)
  <2>1. CASE GoOn(Advanced([j EXCEPT !.at = "checking", !.loop = TRUE, !.checks = MaxTries])) /\ UNCHANGED dev
    <3>1. /\ UNCHANGED vars /\ thread' = thread /\ held' = held /\ dev' = dev
          /\ job' = Advanced([j EXCEPT !.at = "checking", !.loop = TRUE, !.checks = MaxTries])
      BY <2>1 DEF GoOn
    <3>2. job' \in Jobs /\ job'.kind = job.kind /\ job'.at = "checking" /\ job'.loop = TRUE
      <4> DEFINE k == [j EXCEPT !.at = "checking", !.loop = TRUE, !.checks = MaxTries]
      <4>1. k \in Jobs /\ k.kind = job.kind /\ k.at = "checking" /\ k.loop = TRUE
        BY <1>1, TriesAreNumbers DEF Jobs, Steps
      <4>2. job' = Advanced(k)
        BY <3>1
      <4> QED
        BY <4>1, <4>2, AdvancedFields
    <3>3. Waits' /\ StackIsDeleted'
      BY <1>1, <1>3, <1>10, <3>1, <3>2 DEF Waits, StackIsDeleted
    <3> QED
      BY <1>2, <3>1, <3>2, <3>3, StackGoesOn
  <2> QED
    BY <1>1, <1>4, <1>7, <1>10, <2>1 DEF IsWirelessStackUpgraded
<1>11. ASSUME j.at = "checking", TryAgain(j)
       PROVE  [Next]_vars /\ RecoveryInv'
  <2>1. CASE j.checks > 1 /\ GoOn([j EXCEPT !.checks = @ - 1]) /\ UNCHANGED dev
    <3>1. UNCHANGED vars /\ thread' = thread /\ held' = held /\ dev' = dev /\ job' = [j EXCEPT !.checks = @ - 1]
      BY <2>1 DEF GoOn
    <3>2. job' \in Jobs /\ job'.kind = job.kind /\ job'.at = "checking" /\ job'.loop = job.loop
      BY <1>1, <1>11, <2>1, <3>1 DEF Jobs, Steps
    <3>3. Waits' /\ StackIsDeleted'
      BY <1>1, <1>3, <1>11, <3>1, <3>2 DEF Waits, StackIsDeleted
    <3> QED
      BY <1>2, <3>1, <3>2, <3>3, StackGoesOn
  <2>2. CASE /\ j.installs > 1
             /\ GoOn(Advanced([j EXCEPT !.checks = 0, !.installs = @ - 1, !.loop = FALSE, !.at = "ready"]))
             /\ UNCHANGED dev
    <3>1. /\ UNCHANGED vars /\ thread' = thread /\ held' = held /\ dev' = dev
          /\ job' = Advanced([j EXCEPT !.checks = 0, !.installs = @ - 1, !.loop = FALSE, !.at = "ready"])
      BY <2>2 DEF GoOn
    <3>2. job' \in Jobs /\ job'.kind = job.kind /\ job'.at = "ready" /\ job'.steps > 0
      <4> DEFINE k == [j EXCEPT !.checks = 0, !.installs = @ - 1, !.loop = FALSE, !.at = "ready"]
      <4>1. k \in Jobs /\ k.kind = job.kind /\ k.at = "ready"
        <5>1. j.installs - 1 \in Nat
          BY <1>1, <2>2 DEF Jobs
        <5> QED
          BY <1>1, <5>1 DEF Jobs, Steps
      <4>2. job' = Advanced(k)
        BY <3>1
      <4> QED
        BY <4>1, <4>2, AdvancedFields
    <3>3. Waits' /\ StackIsDeleted'
      BY <3>2 DEF Waits, StackIsDeleted
    <3> QED
      BY <1>2, <3>1, <3>2, <3>3, StackGoesOn
  <2> QED
    BY <1>4, <1>11, <2>1, <2>2 DEF TryAgain
<1>12. CASE j.at = "checking" /\ CheckWirelessStack(j)
  <2>1. ASSUME NEW version \in Versions, Finish(version = "unreadable")
        PROVE  [Next]_vars /\ RecoveryInv'
    BY <1>4, <2>1
  <2> QED
    BY <1>11, <1>12, <2>1 DEF CheckWirelessStack
<1> QED
  BY <1>5, <1>6, <1>8, <1>9, <1>10, <1>12 DEF WirelessStackLogic

(* nextStateLogic() of any operation is a step of the runner and keeps RecoveryInv. *)
LEMMA LogicStep ==
    ASSUME RecoveryInv, Underway, NEW j, Taken(j), NextStateLogic(j)
    PROVE  [Next]_vars /\ RecoveryInv'
BY BootStep, FirmwareStep, StackStep DEF NextStateLogic

-----------------------------------------------------------------------------
(* The other steps                                                           *)

(* The timeout of an operation is a step of the runner and keeps RecoveryInv. *)
LEMMA TimeoutStep ==
    ASSUME RecoveryInv, OnOperationTimeout
    PROVE  [Next]_vars /\ RecoveryInv'
<1>1. Underway /\ job.timer /\ job \in Jobs
  BY DEF OnOperationTimeout, RecoveryInv, RecoveryTypeOK
<1>2. CASE ~AssumesFunctional
  BY <1>1, <1>2, Ends DEF OnOperationTimeout
<1>3. CASE AssumesFunctional
  <2> DEFINE k == [job EXCEPT !.timer = FALSE]
  <2>1. UNCHANGED vars /\ thread' = thread /\ held' = held /\ dev' = dev /\ job' = Advanced(k)
    BY <1>3 DEF OnOperationTimeout, GoOn
  <2>2. k \in Jobs /\ k.kind = job.kind /\ k.at = job.at /\ k.loop = job.loop
    BY <1>1 DEF Jobs
  <2>3. /\ job' \in Jobs /\ job'.kind = job.kind /\ job'.at = job.at /\ job'.loop = job.loop /\ job'.steps > 0
    BY <2>1, <2>2, AdvancedFields
  <2>4. Underway' = Underway
    BY <2>3 DEF Underway
  <2>5. RecoveryTypeOK'
    BY <2>1, <2>3 DEF RecoveryInv, RecoveryTypeOK
  <2>6. Waits' /\ ThreadHasOwner' /\ StackIsDeleted'
    BY <2>1, <2>3, <2>4 DEF RecoveryInv, Waits, ThreadHasOwner, StackIsDeleted
  <2>7. FirmwareWaits'
    BY <1>3, <2>3 DEF AssumesFunctional, FirmwareWaits
  <2> QED
    BY <2>1, <2>4, <2>5, <2>6, <2>7, GoesOn
<1> QED
  BY <1>2, <1>3

(* The end of the thread that writes to the device is a step of the runner and keeps RecoveryInv. *)
LEMMA ThreadStep ==
    ASSUME RecoveryInv, ThreadEnds
    PROVE  [Next]_vars /\ RecoveryInv'
<1>1. Underway /\ job \in Jobs
  BY DEF ThreadEnds, RecoveryInv, RecoveryTypeOK, ThreadHasOwner
<1>2. CASE FinishWithError
  BY <1>1, <1>2, Ends
<1>3. CASE /\ thread = "writing"
           /\ job' = Advanced(job) /\ thread' = "none"
           /\ dev' = [dev EXCEPT !.image = "whole"]
           /\ UNCHANGED <<vars, held>>
  <2>1. /\ job' \in Jobs /\ job'.kind = job.kind /\ job'.at = job.at /\ job'.loop = job.loop
        /\ job'.steps = job.steps + 1 /\ job'.steps > 0
    BY <1>1, <1>3, AdvancedFields
  <2>2. Underway' = Underway
    BY <2>1 DEF Underway
  <2>3. dev' \in Devices /\ dev'.core2 = dev.core2 /\ dev'.stack = dev.stack
    BY <1>3 DEF RecoveryInv, RecoveryTypeOK, Devices
  <2>4. RecoveryTypeOK'
    BY <1>3, <2>1, <2>3 DEF RecoveryInv, RecoveryTypeOK
  <2>5. Waits' /\ ThreadHasOwner' /\ StackIsDeleted'
    BY <1>3, <2>1, <2>2, <2>3 DEF RecoveryInv, Waits, ThreadHasOwner, StackIsDeleted
  <2>6. FirmwareWaits'
    BY <1>3, <2>1 DEF RecoveryInv, FirmwareWaits
  <2>7. UNCHANGED vars
    BY <1>3
  <2> QED
    BY <2>2, <2>4, <2>5, <2>6, <2>7, GoesOn
<1> QED
  BY <1>2, <1>3 DEF ThreadEnds

(* A device that leaves the bus, as a reboot makes it, is a step of the runner and keeps RecoveryInv. *)
LEMMA LeavesStep ==
    ASSUME RecoveryInv, DeviceLeaves
    PROVE  [Next]_vars /\ RecoveryInv'
<1>1. job \in Jobs /\ dev \in Devices /\ thread \in {"none", "writing", "astray"}
  BY DEF RecoveryInv, RecoveryTypeOK
<1>2. /\ dev' \in Devices /\ dev'.core2 = dev.core2 /\ dev'.stack = dev.stack
      /\ thread' \in {"none", "astray"} /\ (thread' # "none" <=> thread # "none")
      /\ held' = FALSE
  BY <1>1 DEF DeviceLeaves, Devices
<1>3. /\ job' \in Jobs /\ job'.kind = job.kind /\ job'.at = job.at /\ job'.loop = job.loop
      /\ job'.steps = job.steps /\ (job.timer => job'.timer)
  BY <1>1 DEF DeviceLeaves, Jobs, Underway
<1>4. Underway' = Underway
  BY <1>3 DEF Underway
<1>5. RecoveryTypeOK'
  BY <1>2, <1>3 DEF RecoveryTypeOK
<1>6. Waits' /\ ThreadHasOwner' /\ FirmwareWaits' /\ StackIsDeleted'
  BY <1>2, <1>3, <1>4 DEF RecoveryInv, Waits, ThreadHasOwner, FirmwareWaits, StackIsDeleted
<1>7. UNCHANGED vars
  BY DEF DeviceLeaves
<1> QED
  BY <1>4, <1>5, <1>6, <1>7, GoesOn

(* A device that comes back is a step of the runner and keeps RecoveryInv. *)
LEMMA ReturnsStep ==
    ASSUME RecoveryInv, DeviceReturns
    PROVE  [Next]_vars /\ RecoveryInv'
<1>1. /\ job \in Jobs /\ dev \in Devices /\ ~dev.online /\ job.steps = 0
      /\ UNCHANGED vars /\ thread' = thread /\ held' = held /\ thread # "writing"
  BY DEF RecoveryInv, RecoveryTypeOK, ThreadHasOwner, DeviceReturns
<1>2. PICK dfu \in BOOLEAN :
         dev' = [dev EXCEPT !.online = TRUE, !.dfu = dfu, !.core2 = IF @ = "starting" THEN "fus" ELSE @]
  BY DEF DeviceReturns
<1>3. /\ dev' \in Devices /\ dev'.stack = dev.stack
      /\ dev.core2 # "starting" => dev'.core2 = dev.core2
  BY <1>1, <1>2 DEF Devices
<1>4. /\ job' \in Jobs /\ job'.kind = job.kind /\ job'.at = job.at /\ job'.loop = job.loop
      /\ Underway => job'.steps > 0
      /\ ~Underway => job' = job
  <2>1. CASE Underway
    <3> DEFINE k == [job EXCEPT !.timer = FALSE]
    <3>1. k \in Jobs /\ k.kind = job.kind /\ k.at = job.at /\ k.loop = job.loop
      BY <1>1 DEF Jobs
    <3>2. job' = Advanced(k)
      BY <2>1 DEF DeviceReturns
    <3> QED
      BY <2>1, <3>1, <3>2, AdvancedFields
  <2>2. CASE ~Underway
    BY <1>1, <2>2 DEF DeviceReturns
  <2> QED
    BY <2>1, <2>2
<1>5. Underway' = Underway
  BY <1>4 DEF Underway
<1>6. RecoveryTypeOK'
  BY <1>1, <1>3, <1>4 DEF RecoveryInv, RecoveryTypeOK
<1>7. Waits' /\ ThreadHasOwner' /\ StackIsDeleted'
  BY <1>1, <1>3, <1>4, <1>5 DEF RecoveryInv, Waits, ThreadHasOwner, StackIsDeleted, Underway
<1>8. FirmwareWaits'
  BY <1>1, <1>4 DEF RecoveryInv, FirmwareWaits
<1> QED
  BY <1>1, <1>5, <1>6, <1>7, <1>8, GoesOn

(* What the second core does on its own leaves the runner alone and keeps RecoveryInv. *)
LEMMA SecondCoreStep ==
    ASSUME RecoveryInv, SecondCore
    PROVE  [Next]_vars /\ RecoveryInv'
<1>1. /\ job \in Jobs /\ dev \in Devices
      /\ UNCHANGED vars /\ job' = job /\ thread' = thread /\ held' = held
  BY DEF RecoveryInv, RecoveryTypeOK, SecondCore
<1>2. /\ dev' \in Devices /\ dev'.online = dev.online
      /\ dev.core2 \in {"deleting", "upgrading"}
      /\ dev.core2 = "deleting" => dev'.core2 = "error" \/ (dev'.core2 = "fus" /\ dev'.stack = "none")
      /\ dev.stack # "old" => dev'.stack # "old"
  BY SMTT(20), ZenonT(30), <1>1 DEF SecondCore, Devices
<1>3. Underway' = Underway /\ RecoveryTypeOK'
  BY <1>1, <1>2 DEF Underway, RecoveryInv, RecoveryTypeOK
<1>4. Waits' /\ ThreadHasOwner' /\ FirmwareWaits'
  BY <1>1, <1>2, <1>3 DEF RecoveryInv, Waits, ThreadHasOwner, FirmwareWaits
<1>5. StackIsDeleted'
  BY <1>1, <1>2 DEF RecoveryInv, StackIsDeleted
<1> QED
  BY <1>1, <1>3, <1>4, <1>5, GoesOn

(* Handing an operation over and deleting one does not touch those that run. *)
LEMMA QueueSteps ==
    ASSUME RecoveryInv, Enqueue \/ Deletion
    PROVE  [Next]_vars /\ RecoveryInv'
<1>1. PICK o \in Operation : EnqueueOperation(o) \/ Delete(o)
  BY DEF Enqueue, Deletion
<1>2. Next
  BY <1>1 DEF Next
<1>3. RunnerInv'
  BY <1>2, RunnerStep DEF RecoveryInv
<1>4. Running' = Running
  BY <1>1 DEF RecoveryInv, RunnerInv, TypeOK, EnqueueOperation, Delete, Running
<1>5. job' = job /\ thread' = thread /\ held' = held /\ dev' = dev
  BY DEF Enqueue, Deletion, recoveryVars
<1>6. Underway' = Underway
  BY <1>5 DEF Underway
<1>7. RecoveryTypeOK' /\ Waits' /\ ThreadHasOwner' /\ FirmwareWaits' /\ StackIsDeleted'
  BY <1>5, <1>6 DEF RecoveryInv, RecoveryTypeOK, Waits, ThreadHasOwner, FirmwareWaits, StackIsDeleted
<1> QED
  BY <1>2, <1>3, <1>4, <1>6, <1>7 DEF RecoveryInv

(* The runner starts an operation only when none is under way.               *)
LEMMA TurnOfTheRunner ==
    ASSUME RecoveryInv, RunnerTurn
    PROVE  [Next]_vars /\ RecoveryInv'
<1>1. Next /\ RunnerInv'
  BY RunnerStep DEF RunnerTurn, Next, RecoveryInv
<1>2. Running = {} /\ ~Underway /\ thread = "none"
  BY DEF RecoveryInv, RunnerInv, TypeOK, OneTurn, RunnerTurn, ProcessQueue, ThreadHasOwner
<1>3. thread' = thread /\ held' = held /\ dev' = dev
  BY DEF RunnerTurn
<1>4. CASE queue = <<>>
  <2>1. job' = job /\ Running' = Running
    BY <1>4 DEF RunnerTurn, ProcessQueue, Running
  <2>2. Underway' = Underway
    BY <2>1 DEF Underway
  <2>3. RecoveryTypeOK' /\ Waits' /\ ThreadHasOwner' /\ FirmwareWaits' /\ StackIsDeleted'
    BY <1>3, <2>1, <2>2 DEF RecoveryInv, RecoveryTypeOK, Waits, ThreadHasOwner, FirmwareWaits, StackIsDeleted
  <2> QED
    BY <1>1, <2>1, <2>2, <2>3 DEF RecoveryInv
<1>5. CASE queue # <<>>
  <2>1. PICK kind \in Kinds : job' = NewJob(kind)
    BY <1>5 DEF RunnerTurn
  <2>2. job' \in Jobs /\ job'.kind = kind /\ job'.at = "ready" /\ job'.steps = 1 /\ job'.loop = FALSE
    BY <2>1, TriesAreNumbers DEF NewJob, NoJob, Jobs, Steps
  <2>3. Running' # {}
    <3>1. Head(queue) \in Operation
      BY <1>5, HeadTail DEF RecoveryInv, RunnerInv, TypeOK
    <3>2. phase'[Head(queue)] = "running"
      BY <1>5, <3>1 DEF RunnerTurn, ProcessQueue, RecoveryInv, RunnerInv, TypeOK
    <3> QED
      BY <3>1, <3>2 DEF Running
  <2>4. Underway'
    BY <2>2 DEF Underway
  <2>5. RecoveryTypeOK'
    BY <1>3, <2>2 DEF RecoveryInv, RecoveryTypeOK
  <2>6. Waits' /\ ThreadHasOwner' /\ FirmwareWaits' /\ StackIsDeleted'
    BY <1>2, <1>3, <2>2 DEF Waits, ThreadHasOwner, FirmwareWaits, StackIsDeleted
  <2> QED
    BY <1>1, <2>3, <2>4, <2>5, <2>6 DEF RecoveryInv
<1> QED
  BY <1>4, <1>5

(* Every step of the recovery interface is one of its runner, or leaves the  *)
(* runner alone, and keeps the invariant.                                    *)
LEMMA RecoveryStep ==
    ASSUME RecoveryInv, [RecoveryNext]_allVars
    PROVE  [Next]_vars /\ RecoveryInv'
<1>1. CASE PostedStep
  BY <1>1, LogicStep DEF PostedStep, Taken
<1>2. CASE LoopTimer
  BY <1>2, LogicStep DEF LoopTimer, Taken
<1>3. CASE HolderEnds
  <2>1. UNCHANGED vars /\ job' = job /\ thread' = thread /\ held' = FALSE /\ dev' = dev
    BY <1>3 DEF HolderEnds
  <2>2. Underway' = Underway
    BY <2>1 DEF Underway
  <2>3. RecoveryTypeOK' /\ Waits' /\ ThreadHasOwner' /\ FirmwareWaits' /\ StackIsDeleted'
    BY <2>1, <2>2 DEF RecoveryInv, RecoveryTypeOK, Waits, ThreadHasOwner, FirmwareWaits, StackIsDeleted
  <2> QED
    BY <2>1, <2>2, <2>3, GoesOn
<1>4. CASE UNCHANGED allVars
  <2>1. UNCHANGED vars /\ job' = job /\ thread' = thread /\ held' = held /\ dev' = dev
    BY <1>4 DEF allVars, recoveryVars
  <2>2. Underway' = Underway
    BY <2>1 DEF Underway
  <2>3. RecoveryTypeOK' /\ Waits' /\ ThreadHasOwner' /\ FirmwareWaits' /\ StackIsDeleted'
    BY <2>1, <2>2 DEF RecoveryInv, RecoveryTypeOK, Waits, ThreadHasOwner, FirmwareWaits, StackIsDeleted
  <2> QED
    BY <2>1, <2>2, <2>3, GoesOn
<1> QED
  BY <1>1, <1>2, <1>3, <1>4, QueueSteps, TurnOfTheRunner, TimeoutStep, ThreadStep, LeavesStep, ReturnsStep,
     SecondCoreStep DEF RecoveryNext

(* The device starts with RecoveryInv. *)
LEMMA RecoveryBegins == RecoveryInit => RecoveryInv
<1> SUFFICES ASSUME RecoveryInit PROVE RecoveryInv
  OBVIOUS
<1>1. RunnerInv /\ Running = {}
  BY DEF RecoveryInit, Init, InitialState, RunnerInv, TypeOK, Phases, QueueIsSound, Queued, OneTurn, Running
<1>2. job = NoJob /\ job.at = "none" /\ job.kind = "none" /\ thread = "none" /\ held = FALSE
  BY DEF RecoveryInit, NoJob
<1>3. RecoveryTypeOK
  BY DEF RecoveryInit, RecoveryTypeOK, NoJob, Jobs, Devices, Steps
<1>4. ~Underway /\ Waits /\ ThreadHasOwner /\ FirmwareWaits /\ StackIsDeleted
  BY <1>2 DEF Underway, Waits, ThreadHasOwner, FirmwareWaits, StackIsDeleted
<1> QED
  BY <1>1, <1>3, <1>4 DEF RecoveryInv

-----------------------------------------------------------------------------

(* The invariant holds in every state.                                       *)
THEOREM RecoveryIsSound == RecoverySpec => []RecoveryInv
<1>1. RecoveryInv /\ [RecoveryNext]_allVars => RecoveryInv'
  BY RecoveryStep
<1> QED
  BY <1>1, RecoveryBegins, PTL DEF RecoverySpec

(* With recovery operations the runner is still the runner: no operation,    *)
(* whatever it does and however it ends, does more to it than start, finish  *)
(* or fail.                                                                  *)
THEOREM RecoveryImplementsRunner == RecoverySpec => Spec
<1>1. RecoveryInit => Init
  BY DEF RecoveryInit
<1>2. RecoveryInv /\ [RecoveryNext]_allVars => [Next]_vars
  BY RecoveryStep
<1> QED
  BY <1>1, <1>2, RecoveryIsSound, PTL DEF RecoverySpec, Spec

(* The turn of the runner is held by one of the recovery operations or by a  *)
(* processQueue() that is posted, and the queue is sound.                    *)
THEOREM RecoveryTurnIsSound == RecoverySpec => []TurnIsSound
BY RecoveryImplementsRunner, TurnSound, PTL

(* Recovery operations are executed one at a time and in order.              *)
THEOREM RecoveryExecutes == RecoverySpec => ImplementsExecutor
BY RecoveryImplementsRunner, RunnerImplementsExecutor, PTL

(* An operation that is under way has a posted step, a timer or a thread to  *)
(* wait for, and the runner runs one exactly then.                           *)
THEOREM RecoveryNeverStalls == RecoverySpec => []NothingStalls
<1>1. RecoveryInv => NothingStalls
  BY DEF RecoveryInv, NothingStalls, Waits, RecoveryTypeOK, Jobs, Steps, Underway
<1> QED
  BY <1>1, RecoveryIsSound, PTL

-----------------------------------------------------------------------------
(* Success means that the work is done                                       *)

(* An operation succeeds in a step of its own only.                          *)
LEMMA SuccessIsFinish ==
    ASSUME RecoveryInv, [RecoveryNext]_allVars, job.at # "ok", job'.at = "ok"
    PROVE  \E j : Taken(j) /\ NextStateLogic(j)
<1>1. job \in Jobs
  BY DEF RecoveryInv, RecoveryTypeOK
<1>2. ~FinishWithError
  BY DEF FinishWithError, NoJob
<1>3. ~(Enqueue \/ Deletion \/ HolderEnds \/ SecondCore \/ UNCHANGED allVars)
  BY DEF Enqueue, Deletion, recoveryVars, HolderEnds, SecondCore, allVars
<1>4. ~RunnerTurn
  BY DEF RunnerTurn, NewJob, NoJob
<1>5. ~OnOperationTimeout
  <2>1. [job EXCEPT !.timer = FALSE] \in Jobs /\ [job EXCEPT !.timer = FALSE].at = job.at
    BY <1>1 DEF Jobs
  <2> QED
    BY <1>2, <2>1, AdvancedFields DEF OnOperationTimeout, GoOn
<1>6. ~ThreadEnds
  BY <1>1, <1>2, AdvancedFields DEF ThreadEnds
<1>7. ~DeviceLeaves
  BY <1>1 DEF DeviceLeaves, Jobs
<1>8. ~DeviceReturns
  <2>1. [job EXCEPT !.timer = FALSE] \in Jobs /\ [job EXCEPT !.timer = FALSE].at = job.at
    BY <1>1 DEF Jobs
  <2> QED
    BY <2>1, AdvancedFields DEF DeviceReturns
<1> QED
  BY <1>3, <1>4, <1>5, <1>6, <1>7, <1>8 DEF RecoveryNext, PostedStep, LoopTimer, Taken

(* A wireless stack is reported as installed only when the new one runs or   *)
(* when its version could not be read; firmware is not while it is written.  *)
THEOREM RecoverySuccess == RecoverySpec => SuccessMeansDone
<1> DEFINE A == job.at # "ok" /\ job'.at = "ok" =>
                  /\ job.kind = "wirelessStack" => dev.stack = "new" \/ job'.unread
                  /\ job.kind = "firmware" => thread # "writing"
<1>1. RecoveryInv /\ [RecoveryNext]_allVars => A
  <2> SUFFICES ASSUME RecoveryInv, [RecoveryNext]_allVars, job.at # "ok", job'.at = "ok"
               PROVE  /\ job.kind = "wirelessStack" => dev.stack = "new" \/ job'.unread
                      /\ job.kind = "firmware" => thread # "writing"
    OBVIOUS
  <2>1. PICK j : Taken(j) /\ NextStateLogic(j)
    BY SuccessIsFinish
  <2>2. /\ job \in Jobs /\ j \in Jobs /\ j.kind = job.kind /\ j.at = job.at
        /\ job.loop \/ (job.steps > 0 /\ j.steps = job.steps - 1)
    BY <2>1, TakenFields DEF RecoveryInv, RecoveryTypeOK
  <2>3. ~FinishWithError
    BY DEF FinishWithError, NoJob
  <2>4. ASSUME job.kind = "firmware" PROVE thread # "writing"
    <3>1. FirmwareLogic(j)
      BY <2>1, <2>4 DEF NextStateLogic, BootKinds
    <3>2. j.at = "downloading"
      BY <2>2, <3>1 DEF FirmwareLogic, StartThread, Jobs
    <3> QED
      BY <2>2, <2>4, <3>2 DEF RecoveryInv, FirmwareWaits
  <2>5. ASSUME job.kind = "wirelessStack" PROVE dev.stack = "new" \/ job'.unread
    <3>1. WirelessStackLogic(j)
      BY <2>1, <2>5 DEF NextStateLogic, BootKinds
    <3>2. ~TryAgain(j)
      <4>1. ASSUME j.installs > 1
            PROVE  job' # Advanced([j EXCEPT !.checks = 0, !.installs = @ - 1, !.loop = FALSE, !.at = "ready"])
        <5> DEFINE k == [j EXCEPT !.checks = 0, !.installs = @ - 1, !.loop = FALSE, !.at = "ready"]
        <5>1. j.installs - 1 \in Nat
          BY <2>2, <4>1 DEF Jobs
        <5>2. k \in Jobs /\ k.at = "ready"
          BY <2>2, <5>1 DEF Jobs, Steps
        <5>3. Advanced(k).at = "ready"
          BY <5>2, AdvancedFields
        <5> QED
          BY <5>3
      <4>2. job' = [j EXCEPT !.checks = @ - 1] => job'.at = job.at
        BY <2>2 DEF Jobs
      <4> QED
        BY <2>3, <4>1, <4>2 DEF TryAgain, GoOn
    <3>3. j.at = "checking" /\ CheckWirelessStack(j)
      BY <2>2, <2>3, <3>1
         DEF WirelessStackLogic, StartFUS, StartTimed, DeleteWirelessStack, IsWirelessStackDeleted, StartThread,
             UpgradeWirelessStack, IsWirelessStackUpgraded, Advanced, Done, GoOn, Jobs
    <3>4. PICK version \in Versions : VersionOK(version) /\ Finish(version = "unreadable")
      BY <3>2, <3>3 DEF CheckWirelessStack
    <3>5. job'.unread = (version = "unreadable")
      BY <3>4 DEF Finish, NoJob
    <3>6. version = "a version" => dev.stack # "none"
      BY DEF Versions
    <3>7. version \in {"unreadable", "a version"}
      BY <3>4 DEF Versions, VersionOK
    <3>8. dev.stack \in {"none", "new"}
      BY <2>2, <2>5, <3>3 DEF RecoveryInv, StackIsDeleted, RecoveryTypeOK, Devices
    <3> QED
      BY <3>5, <3>6, <3>7, <3>8
  <2> QED
    BY <2>4, <2>5
<1>2. RecoverySpec => [][A]_allVars
  BY <1>1, RecoveryIsSound, PTL DEF RecoverySpec
<1> QED
  BY <1>2 DEF SuccessMeansDone

-----------------------------------------------------------------------------
(* The transactions: DfuseDevice                                             *)

(* What a device may be asked to do, by the transactions that write nothing *)
(* to memory and by those that do.                                          *)
AnyOptions == [boot : {"os", "recovery", "unknown"}, sfsa : SecureStarts \cup {0}, kept : BOOLEAN]
KeptOptions(blind) == {o \in AnyOptions : o.kept \/ blind}
Pointers == [cmd : {"pointer"}, at : Int, data : {<<>>}]
Raws == [cmd : {"raw"}, at : {0}, data : {<<>>}]
Leaves == [cmd : {"leave"}, at : {0}, data : {<<>>}]
OptionWrites(blind) == [cmd : {"write"}, at : {2}, data : {<<o>> : o \in KeptOptions(blind)}]
Erasures(e) == [cmd : {"erase"}, at : UNION {Touched(e[k]) : k \in DOMAIN e}, data : {<<>>}]
BlockWrite(e, k, b) == Command("write", b + 1, Block(Data(k, e[k].size), b))
BlocksOf(e, k) == 1..BlockCount(e[k].size)
BlockWrites(e) == UNION {{BlockWrite(e, k, b) : b \in BlocksOf(e, k)} : k \in DOMAIN e}

Questions == [asks : {"descriptor", "prepare", "clear", "abort", "isIdle", "mayAbort", "anyStatus", "upload"}, arg : {0}]
             \cup [asks : {"poll"}, arg : {{"dnloadBusy"}, {"dnloadBusy", "idle", "uploadIdle"}}]
Alts(n) == [asks : {"alt"}, arg : n]
Downloads(commands) == [asks : {"dnload"}, arg : commands]
PlainItems(blind) == Questions \cup Alts({0, 1}) \cup Downloads(Pointers \cup Raws \cup Leaves \cup OptionWrites(blind))
GivesUpItem == [asks : {"giveUp"}, arg : {0}]
MemoryItems(e) == Questions \cup GivesUpItem \cup Alts({0}) \cup Downloads(Pointers \cup Erasures(e) \cup BlockWrites(e))
CallsOf(items) == [items : Seq(items) \ {<<>>}, must : BOOLEAN]
LocalCalls == {Must(<<Item(what, 0)>>) : what \in {"claim", "giveUp", "needed", "setValue", "correct", "startFUS"}}
PlainWork(blind) == CallsOf(PlainItems(blind)) \cup LocalCalls
PlainTodos(blind) == {s \o t : s \in Seq(PlainWork(blind)), t \in {<<>>, End, EndAnyway}}

IsPoll(item) == item.asks = "poll"
IsDownload(item) == item.asks = "dnload"
IsWrite(item) == IsDownload(item) /\ item.arg.cmd = "write"
IsErase(item) == IsDownload(item) /\ item.arg.cmd = "erase"
WriteItem(e, k, b) == Item("dnload", BlockWrite(e, k, b))
WritesOf(item, e, k) == IsDownload(item) /\ \E b \in BlocksOf(e, k) : item = WriteItem(e, k, b)
PointsTo(item, e, k) == IsDownload(item) /\ item = Item("dnload", Command("pointer", e[k].at, <<>>))

Linked(s, e) == \A i \in DOMAIN s :
    /\ IsDownload(s[i]) => i + 1 \in DOMAIN s /\ IsPoll(s[i + 1])
    /\ i > 1 /\ IsPoll(s[i]) => IsDownload(s[i - 1])
    /\ i > 1 /\ IsWrite(s[i]) => IsPoll(s[i - 1])
    /\ i > 2 => \A k \in DOMAIN e : WritesOf(s[i], e, k) => WritesOf(s[i - 2], e, k) \/ PointsTo(s[i - 2], e, k)
NoWrites(s) == \A i \in DOMAIN s : ~IsWrite(s[i])
NoErases(s) == \A i \in DOMAIN s : ~IsErase(s[i])
EraseFirst(s) == \A i, j \in DOMAIN s : i < j /\ IsWrite(s[i]) => ~IsErase(s[j])
AltBefore(s) == \A i \in DOMAIN s : IsWrite(s[i]) => \E j \in DOMAIN s : j < i /\ s[j].asks = "alt"

Pending(d) == d.state \in {"dnloadSync", "dnloadBusy"}
Clean(d) == \A a \in Addresses : d.memory[a] = Old

Aimed(d, e, k) ==
    \/ d.state \in {"error", "gone"}
    \/ Pending(d) /\ d.cmd = Command("pointer", e[k].at, <<>>)
    \/ d.pointer = e[k].at /\ ~(Pending(d) /\ d.cmd.cmd = "pointer")
WritesNext(s, e, k) == WritesOf(s[1], e, k) \/ (IsPoll(s[1]) /\ 2 \in DOMAIN s /\ WritesOf(s[2], e, k))
AimedAt(s, d, e) == \A k \in DOMAIN e : WritesNext(s, e, k) => Aimed(d, e, k)

WritesMemory(h) == h.job.kind \in {"downloadFirmware", "downloadWirelessStack"}
Stacked(h) == h.job.kind = "downloadWirelessStack"
Fits(e, d) == e[1].at + e[1].size <= Origin + PageSize * d.options.sfsa

Items(h) == Head(h.todo).items
OwnCommand(d, e) ==
    \/ d.cmd \in Erasures(e)
    \/ /\ d.alt = FlashAlt
       /\ \E k \in DOMAIN e : \E b \in BlocksOf(e, k) : d.cmd = BlockWrite(e, k, b) /\ d.pointer = e[k].at
DownloadTodo(items) == <<Must(items)>> \o End
DownloadsItems(s, d, e) ==
    /\ s \in Seq(MemoryItems(e)) /\ s # <<>>
    /\ Linked(s, e) /\ EraseFirst(s)
    /\ d.alt = FlashAlt \/ AltBefore(s)
    /\ AimedAt(s, d, e)
Downloading(h, c, d) ==
    /\ c = "host"
    /\ h.todo # <<>> /\ h.todo = DownloadTodo(Items(h))
    /\ DownloadsItems(Items(h), d, h.job.elements)
    /\ Stacked(h) /\ Pending(d) => d.cmd \in Pointers \cup Raws \/ OwnCommand(d, h.job.elements)
Placing(h, d) ==
    /\ Stacked(h) /\ h.todo = Then("place") /\ Clean(d)
    /\ h.read # NothingRead => ~Pending(d) /\ h.read = d.options
Reading(h, d) ==
    /\ Stacked(h) /\ Clean(d) /\ h.read = NothingRead
    /\ h.todo # <<>> /\ h.todo = <<May(Items(h))>> \o Then("place")
    /\ Items(h) \in Seq(PlainItems(h.blind)) /\ Items(h) # <<>>
    /\ \A i \in DOMAIN Items(h) : Items(h)[i].asks = "upload" => i = Len(Items(h))
Beginning(h, d) == h.todo = Calls(h.job) /\ Clean(d) /\ h.read = NothingRead
Ending(h) == h.todo = End

Mine(h, c, d) ==
    /\ WritesMemory(h) /\ c = "host" /\ OwnCommand(d, h.job.elements)
    /\ h.todo # <<>> => Downloading(h, c, d) /\ (IsDownload(Items(h)[1]) \/ IsPoll(Items(h)[1]))
Foreign(h, c, d) ==
    \/ d.cmd \in Pointers \cup Raws
    \/ d.cmd \in OptionWrites(h.blind) /\ Clean(d)
    \/ c = "lost" /\ d.state = "dnloadSync" /\ Clean(d)
CommandInv(h, c, d) == Pending(d) => Foreign(h, c, d) \/ Mine(h, c, d)
TodoInv(h, c, d) ==
    /\ c # "host" => h.todo = <<>> \/ (h.job.kind # "none" /\ h.todo = Calls(h.job)) \/ h.todo = EndAnyway
    /\ WritesMemory(h) => \/ h.todo = <<>> \/ Beginning(h, d) \/ Reading(h, d) \/ Placing(h, d)
                          \/ Downloading(h, c, d) \/ Ending(h)
    /\ ~WritesMemory(h) => h.todo \in PlainTodos(h.blind)

TransactionKinds == {"none", "invalidFile", "downloadFirmware", "downloadWirelessStack", "setOSBoot", "setRecoveryBoot",
          "downloadOptionBytes", "exitRecoveryMode", "wirelessStatus", "startFUS", "deleteWirelessStack",
          "upgradeWirelessStack", "checkWirelessStack"}
HostType(h) ==
    /\ h.job \in [kind : TransactionKinds, elements : Seq([at : Int, size : Nat])]
    /\ Stacked(h) => /\ h.job.elements = <<h.job.elements[1]>>
                  /\ h.job.elements[1] \in [at : Int, size : Nat \ {0}]
    /\ h.read \in AnyOptions /\ h.blind \in BOOLEAN
    /\ h.read # NothingRead => h.read.kept \/ h.blind
    /\ h.result \in {"none", "running", "ok", "failed"}
    /\ h.result = "ok" => h.todo = <<>>
    /\ DOMAIN h = {"job", "todo", "tries", "read", "result", "blind"}
DeviceStates == {"idle", "dnloadIdle", "uploadIdle", "dnloadSync", "dnloadBusy", "manifestSync", "error", "gone"}
DeviceType(d, blind) ==
    /\ d.state \in DeviceStates /\ d.alt \in {0, 1} /\ d.pointer \in Int
    /\ d.options \in KeptOptions(blind)
    /\ DOMAIN d = {"state", "alt", "pointer", "cmd", "memory", "options"}
ClaimInv(c, d) ==
    /\ c \in {"none", "host", "lost"}
    /\ c = "lost" => d.state # "dnloadBusy"

TouchesOnly(d, e) == \A a \in Addresses :
    d.memory[a] # Old => \E k \in DOMAIN e : \E b \in Touched(e[k]) : PageOf(a) = PageOf(b)
StaysBelow(d) == \A a \in Addresses : d.memory[a] # Old => a < Origin + PageSize * d.options.sfsa
MemoryInv(h, d) ==
    /\ ~WritesMemory(h) => Clean(d)
    /\ TouchesOnly(d, h.job.elements)
    /\ Stacked(h) /\ Fits(h.job.elements, d) => StaysBelow(d)

Skipped(b) == (b - 1) * TransferSize
Holds(s, item) == \E y \in DOMAIN s : s[y].asks = item.asks /\ s[y] = item
Written(d, e, k, b) ==
    \A i \in DOMAIN Block(Data(k, e[k].size), b) :
        /\ e[k].at + Skipped(b) + i - 1 \in Addresses
        /\ d.memory[e[k].at + Skipped(b) + i - 1] = <<k, Skipped(b) + i>>
Ahead(s, e, k, b) == Holds(s, WriteItem(e, k, b))
UnderWay(s, d, e, k, b) ==
    /\ IsPoll(s[1]) /\ d.cmd = BlockWrite(e, k, b) /\ d.pointer = e[k].at /\ d.alt = FlashAlt
    /\ Pending(d) \/ d.state \in {"error", "gone"}
Progress(s, d, e) ==
    /\ \A k \in DOMAIN e : \A b \in BlocksOf(e, k) : Ahead(s, e, k, b) \/ UnderWay(s, d, e, k, b) \/ Written(d, e, k, b)
    /\ (\E i \in DOMAIN s : IsErase(s[i])) \/ (Pending(d) /\ d.cmd.cmd = "erase") =>
          \A k \in DOMAIN e : \A b \in BlocksOf(e, k) : Ahead(s, e, k, b)
AllWritten(h, c, d) ==
    /\ Pending(d) => Foreign(h, c, d)
    /\ \A k \in DOMAIN h.job.elements : \A b \in BlocksOf(h.job.elements, k) : Written(d, h.job.elements, k, b)
BlocksInv(h, c, d) ==
    WritesMemory(h) =>
        /\ Downloading(h, c, d) => Progress(Items(h), d, h.job.elements)
        /\ Ending(h) \/ h.result = "ok" => AllWritten(h, c, d)

DInv(h, c, d) ==
    /\ HostType(h) /\ DeviceType(d, h.blind) /\ ClaimInv(c, d)
    /\ TodoInv(h, c, d) /\ CommandInv(h, c, d)
    /\ MemoryInv(h, d)
    /\ BlocksInv(h, c, d)
DfuseInv == DInv(host, claimed, device)

(* A set of natural numbers that holds something has a smallest element.   *)
LEMMA Smallest ==
    ASSUME NEW T, T \subseteq Nat, T # {}
    PROVE  \E x \in T : \A y \in T : x <= y
<1>1. PICK x \in T : \A y \in T : ~ (<<y, x>> \in OpToRel(<, Nat))
  BY WFMin, NatLessThanWellFounded
<1>2. ASSUME NEW y \in T PROVE x <= y
  <2>1. ~ (<<y, x>> \in OpToRel(<, Nat))
    BY <1>1
  <2>2. <<y, x>> \in Nat \X Nat /\ <<y, x>>[1] = y /\ <<y, x>>[2] = x
    OBVIOUS
  <2>3. ~ (y < x)
    BY <2>1, <2>2 DEF OpToRel
  <2> QED
    BY <2>3
<1> QED
  BY <1>2

(* What holds of zero and of the successor of whatever it holds of holds   *)
(* of every number up to a bound.                                          *)
LEMMA UpTo ==
    ASSUME NEW n \in Nat, NEW T, T \subseteq Nat, 0 \in T,
           \A i \in Nat : i \in T /\ i < n => i + 1 \in T
    PROVE  0..n \subseteq T
<1> DEFINE Out == {i \in 0..n : i \notin T}
<1>1. SUFFICES ASSUME Out # {} PROVE FALSE
  OBVIOUS
<1>2. PICK x \in Out : \A y \in Out : x <= y
  <2>1. Out \subseteq Nat
    OBVIOUS
  <2> HIDE DEF Out
  <2> QED
    BY <1>1, <2>1, Smallest
<1>3. x # 0 /\ x - 1 \in 0..n /\ x - 1 \in Nat /\ x - 1 < n
  BY <1>2
<1>4. x - 1 \in T
  BY <1>2, <1>3
<1>5. (x - 1) + 1 \in T /\ (x - 1) + 1 = x
  BY <1>3, <1>4
<1> QED
  BY <1>2, <1>5

(* The sequence of the concatenations of the first of some sequences. *)
Flattens(f, ss) == f = [i \in 1..Len(ss) |-> IF i = 1 THEN ss[i] ELSE f[i - 1] \o ss[i]]

(* There is such a sequence, so that what FlattenSeq chooses is one.        *)
LEMMA FlattenExists ==
    ASSUME NEW X, NEW ss \in Seq(Seq(X))
    PROVE  \E f : Flattens(f, ss)
<1> DEFINE Part(g, n) == \A i \in 1..n : g[i] = IF i = 1 THEN ss[i] ELSE g[i - 1] \o ss[i]
           T == {n \in Nat : \E g \in [1..n -> Seq(X)] : Part(g, n)}
<1>1. Len(ss) \in Nat /\ \A i \in 1..Len(ss) : ss[i] \in Seq(X)
  BY LenProperties, ElementOfSeq
<1>2. 0 \in T
  <2>1. [i \in 1..0 |-> <<>>] \in [1..0 -> Seq(X)] /\ Part([i \in 1..0 |-> <<>>], 0)
    OBVIOUS
  <2> QED
    BY <2>1
<1>3. ASSUME NEW n \in Nat, n \in T, n < Len(ss) PROVE n + 1 \in T
  <2>1. PICK g \in [1..n -> Seq(X)] : Part(g, n)
    BY <1>3
  <2>2. ss[n + 1] \in Seq(X)
    BY <1>1, <1>3
  <2> DEFINE last == IF n + 1 = 1 THEN ss[n + 1] ELSE g[n] \o ss[n + 1]
             h == [i \in 1..n + 1 |-> IF i = n + 1 THEN last ELSE g[i]]
  <2>3. last \in Seq(X)
    <3>1. CASE n = 0
      BY <2>2, <3>1
    <3>2. CASE n # 0
      <4>1. g[n] \in Seq(X)
        BY <2>1, <3>2
      <4> QED
        BY <2>2, <3>2, <4>1, ConcatProperties
    <3> QED
      BY <3>1, <3>2
  <2>4. h \in [1..n + 1 -> Seq(X)]
    BY <2>1, <2>3
  <2>5. ASSUME NEW i \in 1..n + 1 PROVE h[i] = IF i = 1 THEN ss[i] ELSE h[i - 1] \o ss[i]
    <3>1. CASE i = n + 1
      <4>1. h[i] = last
        BY <3>1
      <4>2. i # 1 => i - 1 \in 1..n + 1 /\ i - 1 # n + 1 /\ i - 1 = n
        BY <3>1
      <4>3. i # 1 => h[i - 1] = g[n]
        BY <4>2
      <4> QED
        BY <3>1, <4>1, <4>3
    <3>2. CASE i # n + 1
      <4>1. i \in 1..n /\ h[i] = g[i]
        BY <3>2
      <4>2. i # 1 => i - 1 \in 1..n + 1 /\ i - 1 # n + 1
        BY <4>1
      <4>3. i # 1 => h[i - 1] = g[i - 1]
        BY <4>2
      <4> QED
        BY <2>1, <4>1, <4>3
    <3> QED
      BY <3>1, <3>2
  <2>6. n + 1 \in Nat
    OBVIOUS
  <2> HIDE DEF h
  <2> QED
    BY <2>4, <2>5, <2>6
<1>4. Len(ss) \in T
  <2>1. T \subseteq Nat
    OBVIOUS
  <2> HIDE DEF T
  <2>2. 0..Len(ss) \subseteq T
    BY <1>1, <1>2, <1>3, <2>1, UpTo
  <2> QED
    BY <1>1, <2>2
<1>5. PICK g \in [1..Len(ss) -> Seq(X)] : Part(g, Len(ss))
  BY <1>4
<1>6. g = [i \in 1..Len(ss) |-> g[i]]
  OBVIOUS
<1>7. [i \in 1..Len(ss) |-> g[i]] = [i \in 1..Len(ss) |-> IF i = 1 THEN ss[i] ELSE g[i - 1] \o ss[i]]
  BY <1>5
<1> QED
  BY <1>6, <1>7 DEF Flattens

(* FlattenSeq is the last of them.                                          *)
LEMMA FlattenIs ==
    ASSUME NEW X, NEW ss \in Seq(Seq(X)), ss # <<>>
    PROVE  \E f : /\ FlattenSeq(ss) = f[Len(ss)]
                  /\ \A i \in 1..Len(ss) : f[i] = IF i = 1 THEN ss[i] ELSE f[i - 1] \o ss[i]
<1> DEFINE f == CHOOSE g : Flattens(g, ss)
<1>1. Flattens(f, ss)
  BY FlattenExists
<1>2. Len(ss) # 0
  BY EmptySeq
<1>3. FlattenSeq(ss) = f[Len(ss)]
  BY <1>2 DEF FlattenSeq, Flattens
<1> HIDE DEF f
<1>4. \A i \in 1..Len(ss) : f[i] = IF i = 1 THEN ss[i] ELSE f[i - 1] \o ss[i]
  BY <1>1 DEF Flattens
<1> QED
  BY <1>3, <1>4

(* What is concatenated of members of a set that is closed under            *)
(* concatenation is a member of it, as far as one goes.                     *)
Concatenates(f, ss, n) == \A i \in 1..n : f[i] = IF i = 1 THEN ss[i] ELSE f[i - 1] \o ss[i]
Closed(G) == \A s, t \in G : s \o t \in G
(* What every piece is, and what stays so when two are joined, the whole is. *)
LEMMA ConcatenatedKeeps ==
    ASSUME NEW f, NEW ss, NEW n \in Nat \ {0}, Concatenates(f, ss, n),
           NEW G, Closed(G), \A i \in 1..n : ss[i] \in G
    PROVE  f[n] \in G
<1> DEFINE T == {i \in Nat : i = 0 \/ f[i] \in G}
<1>1. 0 \in T /\ T \subseteq Nat
  OBVIOUS
<1>2. ASSUME NEW i \in Nat, i \in T, i < n PROVE i + 1 \in T
  <2>1. i + 1 \in 1..n /\ (i + 1) - 1 = i /\ i + 1 \in Nat
    BY <1>2
  <2>2. f[i + 1] = IF i + 1 = 1 THEN ss[i + 1] ELSE f[i] \o ss[i + 1]
    BY <2>1 DEF Concatenates
  <2>3. ss[i + 1] \in G
    BY <2>1
  <2>4. CASE i = 0
    BY <2>1, <2>2, <2>3, <2>4
  <2>5. CASE i # 0
    <3>1. f[i] \in G
      BY <1>2, <2>5
    <3>2. f[i] \o ss[i + 1] \in G
      BY <2>3, <3>1 DEF Closed
    <3>3. f[i + 1] = f[i] \o ss[i + 1]
      <4>1. i + 1 # 1
        BY <2>5
      <4> QED
        BY <2>2, <4>1
    <3> QED
      BY <2>1, <3>2, <3>3
  <2> QED
    BY <2>4, <2>5
<1> HIDE DEF T
<1>3. 0..n \subseteq T
  BY <1>1, <1>2, UpTo
<1>4. n \in T
  BY <1>3
<1> QED
  BY <1>4 DEF T

(* Sequences of a set that holds the empty one and is closed under          *)
(* concatenation are flattened to one of it.                                *)
LEMMA FlattenKeeps ==
    ASSUME NEW X, NEW G, G \subseteq Seq(X), <<>> \in G, Closed(G), NEW ss \in Seq(G)
    PROVE  FlattenSeq(ss) \in G
<1>1. CASE ss = <<>>
  <2>1. Len(ss) = 0
    BY <1>1, EmptySeq
  <2> QED
    BY <1>1, <2>1 DEF FlattenSeq
<1>2. CASE ss # <<>>
  <2>1. ss \in Seq(Seq(X))
    BY SeqMonotonic
  <2>2. PICK f : FlattenSeq(ss) = f[Len(ss)] /\ Concatenates(f, ss, Len(ss))
    BY <1>2, <2>1, FlattenIs DEF Concatenates
  <2>3. PICK n \in Nat \ {0} : n = Len(ss) /\ \A i \in 1..n : ss[i] \in G
    BY <1>2, EmptySeq, LenProperties, ElementOfSeq
  <2>4. f[n] \in G
    BY <2>2, <2>3, ConcatenatedKeeps
  <2> QED
    BY <2>2, <2>3, <2>4
<1> QED
  BY <1>1, <1>2

(* An item of a sequence is an item of every concatenation with it.          *)
LEMMA ConcatHolds ==
    ASSUME NEW X, NEW s \in Seq(X), NEW t \in Seq(X)
    PROVE  /\ \A x \in DOMAIN s : x \in DOMAIN (s \o t) /\ (s \o t)[x] = s[x]
           /\ \A x \in DOMAIN t : Len(s) + x \in DOMAIN (s \o t) /\ (s \o t)[Len(s) + x] = t[x]
           /\ \A y \in DOMAIN (s \o t) : \/ y \in DOMAIN s /\ (s \o t)[y] = s[y]
                                         \/ y - Len(s) \in DOMAIN t /\ (s \o t)[y] = t[y - Len(s)]
           /\ DOMAIN (s \o t) = 1..Len(s) + Len(t) /\ s \o t \in Seq(X)
<1>1. /\ s \o t \in Seq(X) /\ Len(s \o t) = Len(s) + Len(t)
      /\ \A i \in 1..Len(s) + Len(t) : (s \o t)[i] = IF i <= Len(s) THEN s[i] ELSE t[i - Len(s)]
  BY ConcatProperties
<1>2. Len(s) \in Nat /\ Len(t) \in Nat /\ DOMAIN s = 1..Len(s) /\ DOMAIN t = 1..Len(t)
      /\ DOMAIN (s \o t) = 1..Len(s \o t)
  BY <1>1, LenProperties
<1> QED
  BY <1>1, <1>2

(* What is in one of two sequences is in both of them joined. *)
LEMMA HeldByEither ==
    ASSUME NEW X, NEW s \in Seq(X), NEW t \in Seq(X), NEW item, Holds(s, item) \/ Holds(t, item)
    PROVE  Holds(s \o t, item)
<1>1. CASE Holds(s, item)
  <2>1. PICK y \in DOMAIN s : s[y] = item /\ s[y].asks = item.asks
    BY <1>1 DEF Holds
  <2>2. y \in DOMAIN (s \o t) /\ (s \o t)[y] = item
    BY <2>1, ConcatHolds
  <2> QED
    BY <2>2 DEF Holds
<1>2. CASE Holds(t, item)
  <2>1. PICK y \in DOMAIN t : t[y] = item /\ t[y].asks = item.asks
    BY <1>2 DEF Holds
  <2>2. Len(s) + y \in DOMAIN (s \o t) /\ (s \o t)[Len(s) + y] = item
    BY <2>1, ConcatHolds
  <2> QED
    BY <2>2 DEF Holds
<1> QED
  BY <1>1, <1>2

(* Nothing of the sequences is lost.                                        *)
LEMMA ConcatenatedHolds ==
    ASSUME NEW X, NEW f, NEW ss, NEW n \in Nat \ {0}, Concatenates(f, ss, n), \A i \in 1..n : ss[i] \in Seq(X),
           NEW j \in 1..n, NEW x \in DOMAIN ss[j]
    PROVE  Holds(f[n], ss[j][x])
<1> DEFINE T == {i \in Nat : (i # 0 => f[i] \in Seq(X)) /\ (j <= i => Holds(f[i], ss[j][x]))}
<1>1. 0 \in T /\ T \subseteq Nat
  OBVIOUS
<1>2. ASSUME NEW i \in Nat, i \in T, i < n PROVE i + 1 \in T
  <2>1. i + 1 \in 1..n /\ (i + 1) - 1 = i /\ i + 1 \in Nat
    BY <1>2
  <2>2. f[i + 1] = IF i + 1 = 1 THEN ss[i + 1] ELSE f[i] \o ss[i + 1]
    BY <2>1 DEF Concatenates
  <2>3. ss[i + 1] \in Seq(X)
    BY <2>1
  <2>4. CASE i = 0
    <3>1. f[i + 1] = ss[i + 1] /\ (j <= i + 1 => j = i + 1)
      BY <2>2, <2>4
    <3>2. j <= i + 1 => Holds(f[i + 1], ss[j][x])
      BY <3>1 DEF Holds
    <3> QED
      BY <2>1, <2>3, <3>1, <3>2
  <2>5. CASE i # 0
    <3>1. f[i] \in Seq(X) /\ f[i + 1] = f[i] \o ss[i + 1]
      <4>1. i + 1 # 1
        BY <2>5
      <4> QED
        BY <1>2, <2>2, <2>5, <4>1
    <3>2. f[i + 1] \in Seq(X)
      BY <2>3, <3>1, ConcatHolds
    <3>3. CASE j <= i
      <4>1. Holds(f[i], ss[j][x])
        BY <1>2, <3>3
      <4>2. Holds(f[i] \o ss[i + 1], ss[j][x])
        BY <2>3, <3>1, <4>1, HeldByEither
      <4> QED
        BY <2>1, <3>1, <3>2, <4>2
    <3>4. CASE j = i + 1
      <4>1. Holds(ss[i + 1], ss[j][x])
        BY <3>4 DEF Holds
      <4>2. Holds(f[i] \o ss[i + 1], ss[j][x])
        BY <2>3, <3>1, <4>1, HeldByEither
      <4> QED
        BY <2>1, <3>1, <3>2, <4>2
    <3>5. CASE ~(j <= i + 1)
      BY <2>1, <3>2, <3>5
    <3> QED
      BY <3>3, <3>4, <3>5
  <2> QED
    BY <2>4, <2>5
<1> HIDE DEF T
<1>3. 0..n \subseteq T
  BY <1>1, <1>2, UpTo
<1>4. n \in T
  BY <1>3
<1> QED
  BY <1>4 DEF T

(* What is in one of the sequences is in the sequence of them all. *)
LEMMA FlattenHolds ==
    ASSUME NEW X, NEW ss \in Seq(Seq(X)), NEW j \in DOMAIN ss, NEW x \in DOMAIN ss[j]
    PROVE  Holds(FlattenSeq(ss), ss[j][x])
<1>1. PICK n \in Nat \ {0} : n = Len(ss) /\ ss # <<>> /\ j \in 1..n /\ \A i \in 1..n : ss[i] \in Seq(X)
  BY EmptySeq, LenProperties, ElementOfSeq
<1>2. PICK f : FlattenSeq(ss) = f[Len(ss)] /\ Concatenates(f, ss, Len(ss))
  BY <1>1, FlattenIs DEF Concatenates
<1>3. Holds(f[n], ss[j][x])
  BY <1>1, <1>2, ConcatenatedHolds
<1> QED
  BY <1>1, <1>2, <1>3

(* What the addresses of the banks are: each begins where the last ends.    *)
Stacks(f) ==
    f = [k \in 1..Len(PageBanks) + 1 |->
            IF k = 1 THEN Origin ELSE f[k - 1] + PageBanks[k - 1].count * PageBanks[k - 1].size]

(* The banks of pages have a number of pages, and a size that is not zero. *)
LEMMA BanksType ==
    /\ Len(PageBanks) \in Nat /\ DOMAIN PageBanks = 1..Len(PageBanks) /\ Origin \in Nat
    /\ \A k \in 1..Len(PageBanks) : /\ PageBanks[k].count \in Nat /\ PageBanks[k].size \in Nat \ {0}
                                    /\ PageBanks[k].count * PageBanks[k].size \in Nat
<1>0. PageBanks \in Seq([count : Nat, size : Nat \ {0}])
  BY LayoutIsSound
<1>1. Len(PageBanks) \in Nat /\ DOMAIN PageBanks = 1..Len(PageBanks)
      /\ \A k \in 1..Len(PageBanks) : PageBanks[k] \in [count : Nat, size : Nat \ {0}]
  BY <1>0, LenProperties, ElementOfSeq
<1>2. \A m, n \in Nat : m * n \in Nat
  OBVIOUS
<1>3. Origin \in Nat
  BY LayoutIsSound
<1> QED
  BY <1>1, <1>2, <1>3

(* There is a function that says where each bank starts. *)
LEMMA BanksExist == \E f : Stacks(f)
<1> DEFINE Bank(g, k) == IF k = 1 THEN Origin ELSE g[k - 1] + PageBanks[k - 1].count * PageBanks[k - 1].size
           Part(g, n) == \A k \in 1..n : g[k] = Bank(g, k)
           T == {n \in Nat : \E g \in [1..n -> Nat] : Part(g, n)}
           N == Len(PageBanks) + 1
<1>1. N \in Nat
  BY BanksType
<1>2. 0 \in T
  <2>1. [k \in 1..0 |-> 0] \in [1..0 -> Nat] /\ Part([k \in 1..0 |-> 0], 0)
    OBVIOUS
  <2> QED
    BY <2>1
<1>3. ASSUME NEW n \in Nat, n \in T, n < N PROVE n + 1 \in T
  <2>1. PICK g \in [1..n -> Nat] : Part(g, n)
    BY <1>3
  <2>2. Bank(g, n + 1) \in Nat
    <3>1. CASE n = 0
      BY <3>1, BanksType
    <3>2. CASE n # 0
      <4>1. n \in 1..n /\ n \in 1..Len(PageBanks) /\ n + 1 # 1 /\ (n + 1) - 1 = n
        BY <1>3, <3>2, BanksType
      <4>2. g[n] \in Nat
        BY <2>1, <4>1
      <4>3. PageBanks[n].count * PageBanks[n].size \in Nat
        BY <4>1, BanksType
      <4>4. Bank(g, n + 1) = g[n] + PageBanks[n].count * PageBanks[n].size
        BY <4>1
      <4> QED
        BY <4>2, <4>3, <4>4
    <3> QED
      BY <3>1, <3>2
  <2> DEFINE h == [k \in 1..n + 1 |-> IF k = n + 1 THEN Bank(g, n + 1) ELSE g[k]]
  <2>3. h \in [1..n + 1 -> Nat]
    BY <2>1, <2>2
  <2>4. ASSUME NEW k \in 1..n + 1 PROVE h[k] = Bank(h, k)
    <3>1. k # 1 => k - 1 \in 1..n /\ k - 1 \in 1..n + 1 /\ k - 1 # n + 1
      OBVIOUS
    <3>2. k # 1 => h[k - 1] = g[k - 1]
      BY <3>1
    <3>3. Bank(h, k) = Bank(g, k)
      BY <3>2
    <3>4. CASE k = n + 1
      BY <3>3, <3>4
    <3>5. CASE k # n + 1
      <4>1. k \in 1..n /\ h[k] = g[k]
        BY <3>5
      <4>2. g[k] = Bank(g, k)
        BY <2>1, <4>1
      <4> QED
        BY <3>3, <4>1, <4>2
    <3> QED
      BY <3>4, <3>5
  <2>5. n + 1 \in Nat
    OBVIOUS
  <2> HIDE DEF h, Bank
  <2> QED
    BY <2>3, <2>4, <2>5
<1>4. N \in T
  <2>1. T \subseteq Nat
    OBVIOUS
  <2> HIDE DEF T, N
  <2>2. 0..N \subseteq T
    BY <1>1, <1>2, <1>3, <2>1, UpTo
  <2> QED
    BY <1>1, <2>2
<1>5. PICK g \in [1..N -> Nat] : Part(g, N)
  BY <1>4
<1>6. g = [k \in 1..N |-> g[k]]
  OBVIOUS
<1>7. [k \in 1..N |-> g[k]] = [k \in 1..N |-> Bank(g, k)]
  BY <1>5
<1> QED
  BY <1>6, <1>7 DEF Stacks

(* Each bank starts where the one before it ends. *)
LEMMA BankStarts ==
    \A k \in 1..Len(PageBanks) + 1 :
        BankStart[k] = IF k = 1 THEN Origin ELSE BankStart[k - 1] + PageBanks[k - 1].count * PageBanks[k - 1].size
<1>1. Stacks(BankStart)
  BY BanksExist DEF BankStart, Stacks
<1> HIDE DEF BankStart
<1> QED
  BY <1>1 DEF Stacks

(* No bank begins below the first.                                          *)
LEMMA BankStartType ==
    \A k \in 1..Len(PageBanks) + 1 : BankStart[k] \in Nat /\ BankStart[k] >= Origin
<1> DEFINE T == {k \in Nat : k = 0 \/ (BankStart[k] \in Nat /\ BankStart[k] >= Origin)}
           N == Len(PageBanks) + 1
<1>1. N \in Nat /\ 0 \in T /\ T \subseteq Nat
  BY BanksType
<1>2. ASSUME NEW k \in Nat, k \in T, k < N PROVE k + 1 \in T
  <2>1. k + 1 \in 1..N /\ (k + 1) - 1 = k
    BY <1>1, <1>2
  <2>2. CASE k = 0
    <3>1. BankStart[k + 1] = Origin
      BY <2>1, <2>2, BankStarts
    <3> QED
      BY <3>1, BanksType
  <2>3. CASE k # 0
    <3>1. k + 1 # 1 /\ k \in 1..Len(PageBanks)
      BY <1>1, <1>2, <2>3, BanksType
    <3>2. BankStart[k + 1] = BankStart[k] + PageBanks[k].count * PageBanks[k].size
      BY <2>1, <3>1, BankStarts
    <3>3. PageBanks[k].count * PageBanks[k].size \in Nat /\ BankStart[k] \in Nat /\ BankStart[k] >= Origin
      BY <1>2, <2>3, <3>1, BanksType
    <3> QED
      BY <3>2, <3>3, BanksType
  <2> QED
    BY <2>2, <2>3
<1> HIDE DEF T, N
<1>3. 0..N \subseteq T
  BY <1>1, <1>2, UpTo
<1>4. ASSUME NEW k \in 1..N PROVE BankStart[k] \in Nat /\ BankStart[k] >= Origin
  <2>1. k \in 0..N /\ k # 0
    BY <1>1
  <2>2. k \in T
    BY <1>3, <2>1
  <2> QED
    BY <2>1, <2>2 DEF T
<1> QED
  BY <1>4 DEF N

(* Pages start at addresses, which end where the last bank ends. *)
LEMMA PagesType == PageStarts \subseteq Nat /\ MemoryEnd \in Nat /\ MemoryEnd >= Origin /\ Addresses \subseteq Nat
<1>1. MemoryEnd \in Nat /\ MemoryEnd >= Origin
  <2>1. Len(PageBanks) + 1 \in 1..Len(PageBanks) + 1
    BY BanksType
  <2> QED
    BY <2>1, BankStartType DEF MemoryEnd
<1>2. Addresses \subseteq Nat
  BY <1>1, BanksType DEF Addresses
<1>3. ASSUME NEW p \in PageStarts PROVE p \in Nat
  <2>0. PICK k \in DOMAIN PageBanks : \E i \in 0..PageBanks[k].count - 1 : p = BankStart[k] + i * PageBanks[k].size
    BY <1>3 DEF PageStarts
  <2>1. PICK i \in 0..PageBanks[k].count - 1 : p = BankStart[k] + i * PageBanks[k].size
    BY <2>0
  <2>2. k \in 1..Len(PageBanks) + 1 /\ k \in 1..Len(PageBanks)
    BY BanksType
  <2>3. BankStart[k] \in Nat /\ PageBanks[k].count \in Nat /\ PageBanks[k].size \in Nat
    BY <2>2, BankStartType, BanksType
  <2>4. \A m, n \in Nat : m * n \in Nat
    OBVIOUS
  <2>5. i \in Nat
    BY <2>3
  <2>6. i * PageBanks[k].size \in Nat
    BY <2>3, <2>4, <2>5
  <2> QED
    BY <2>1, <2>3, <2>6
<1> QED
  BY <1>1, <1>2, <1>3

(* Where there is memory a page begins with it.                             *)
LEMMA FirstPage == Addresses # {} => Origin \in PageStarts
<1> SUFFICES ASSUME Addresses # {}, Origin \notin PageStarts PROVE FALSE
  OBVIOUS
<1> DEFINE T == {k \in Nat : k = 0 \/ BankStart[k] = Origin}
           N == Len(PageBanks) + 1
<1>1. N \in Nat /\ N \in 1..N /\ 0 \in T /\ T \subseteq Nat
  BY BanksType
<1>2. ASSUME NEW k \in Nat, k \in T, k < N PROVE k + 1 \in T
  <2>1. k + 1 \in 1..N /\ (k + 1) - 1 = k
    BY <1>1, <1>2
  <2>2. CASE k = 0
    <3>1. BankStart[k + 1] = Origin
      BY <2>1, <2>2, BankStarts
    <3> QED
      BY <3>1
  <2>3. CASE k # 0
    <3>1. k + 1 # 1 /\ k \in 1..Len(PageBanks) /\ k \in DOMAIN PageBanks
      BY <1>1, <1>2, <2>3, BanksType
    <3>2. BankStart[k + 1] = BankStart[k] + PageBanks[k].count * PageBanks[k].size /\ BankStart[k] = Origin
      BY <1>2, <2>1, <2>3, <3>1, BankStarts
    <3>3. PageBanks[k].count \in Nat /\ PageBanks[k].size \in Nat
      BY <3>1, BanksType
    <3>4. PageBanks[k].count = 0
      <4>1. SUFFICES ASSUME PageBanks[k].count # 0 PROVE FALSE
        OBVIOUS
      <4>2. 0 \in 0..PageBanks[k].count - 1 /\ Origin = BankStart[k] + 0 * PageBanks[k].size
        <5>1. PICK count, size : count = PageBanks[k].count /\ size = PageBanks[k].size /\ count \in Nat /\ size \in Nat
          BY <3>3
        <5>2. 0 \in 0..count - 1 /\ 0 * size = 0
          BY <4>1, <5>1
        <5>3. Origin + 0 = Origin
          BY BanksType
        <5> QED
          BY <3>2, <5>1, <5>2, <5>3
      <4>3. Origin \in PageStarts
        BY <3>1, <4>2 DEF PageStarts
      <4> QED
        BY <4>3
    <3>5. BankStart[k + 1] = Origin
      BY <3>2, <3>3, <3>4, BanksType
    <3> QED
      BY <3>5
  <2> QED
    BY <2>2, <2>3
<1>3. N # 0 /\ N \in 0..N
  BY BanksType
<1> HIDE DEF T, N
<1>4. 0..N \subseteq T
  BY <1>1, <1>2, UpTo
<1>5. BankStart[N] = Origin
  <2>1. N \in T
    BY <1>3, <1>4
  <2> QED
    BY <1>3, <2>1 DEF T
<1>6. MemoryEnd = Origin
  BY <1>5 DEF MemoryEnd, N
<1> QED
  BY <1>6, BanksType DEF Addresses

(* A page begins at or below each address; the closest is its own.          *)
LEMMA PageOfType ==
    ASSUME NEW a \in Addresses
    PROVE  PageOf(a) \in PageStarts /\ PageOf(a) <= a /\ \A q \in PageStarts : q <= a => q <= PageOf(a)
<1> DEFINE Below == {a - p : p \in {q \in PageStarts : q <= a}}
<1>1. a \in Nat /\ Origin <= a /\ Origin \in PageStarts
  <2>1. a \in Nat /\ Origin \in PageStarts
    BY FirstPage, PagesType
  <2> QED
    BY <2>1, PagesType, BanksType DEF Addresses
<1>2. Below \subseteq Nat /\ Below # {}
  <2>1. ASSUME NEW x \in Below PROVE x \in Nat
    <3>1. PICK p \in PageStarts : p <= a /\ x = a - p
      BY <2>1
    <3>2. p \in Nat
      BY PagesType
    <3> QED
      BY <1>1, <3>1, <3>2
  <2>2. a - Origin \in Below
    BY <1>1
  <2> HIDE DEF Below
  <2> QED
    BY <2>1, <2>2
<1>3. PICK x \in Below : \A y \in Below : x <= y
  <2> HIDE DEF Below
  <2> QED
    BY <1>2, Smallest
<1>4. PICK p \in PageStarts : p <= a /\ x = a - p
  BY <1>3
<1>5. ASSUME NEW q \in PageStarts, q <= a PROVE q <= p
  <2>1. a - q \in Below
    BY <1>5
  <2>2. a - p <= a - q
    BY <1>3, <1>4, <2>1
  <2> QED
    BY <1>1, <2>2, PagesType
<1>6. \E r \in PageStarts : r <= a /\ \A q \in PageStarts : q <= a => q <= r
  BY <1>4, <1>5
<1> QED
  BY <1>6 DEF PageOf

(* No page goes past the beginning of another.                              *)
LEMMA PagesApart ==
    ASSUME NEW a \in Addresses, NEW b \in Addresses, PageOf(a) = PageOf(b),
           NEW p \in PageStarts \cup {MemoryEnd}, b < p
    PROVE  a < p
<1>1. a \in Nat /\ b \in Nat /\ p \in Nat /\ a < MemoryEnd /\ MemoryEnd \in Nat
  BY PagesType, BanksType DEF Addresses
<1>2. CASE p = MemoryEnd
  BY <1>1, <1>2
<1>3. CASE p \in PageStarts
  <2>1. p <= a => p <= PageOf(a)
    BY <1>3, PageOfType
  <2>2. PageOf(b) <= b /\ PageOf(b) \in Nat
    BY PageOfType, PagesType
  <2> QED
    BY <1>1, <2>1, <2>2
<1> QED
  BY <1>2, <1>3

(* The addresses of a range of memory are no fewer than they are, in order. *)
LEMMA AscendingType ==
    ASSUME NEW S, S \subseteq Nat, IsFiniteSet(S)
    PROVE  Ascending(S) \in Seq(S) /\ Len(Ascending(S)) = Cardinality(S)
<1> DEFINE Under(p) == {q \in S : q < p}
           n == Cardinality(S)
           rank == [p \in S |-> Cardinality(Under(p))]
<1>1. n \in Nat
  BY FS_CardinalityType
<1>2. ASSUME NEW p \in S PROVE IsFiniteSet(Under(p)) /\ rank[p] \in Nat /\ rank[p] < n
  <2>1. Under(p) \in SUBSET S /\ Under(p) # S
    <3>1. p \notin Under(p)
      OBVIOUS
    <3> QED
      BY <3>1
  <2>2. IsFiniteSet(Under(p)) /\ Cardinality(Under(p)) <= n /\ n # Cardinality(Under(p))
    <3> HIDE DEF Under, n
    <3>1. IsFiniteSet(Under(p)) /\ Cardinality(Under(p)) <= Cardinality(S)
      BY <2>1, FS_Subset
    <3>2. Cardinality(S) = Cardinality(Under(p)) => S = Under(p)
      BY <2>1, FS_Subset
    <3> QED
      BY <2>1, <3>1, <3>2 DEF n
  <2>3. Cardinality(Under(p)) \in Nat
    <3> HIDE DEF Under
    <3> QED
      BY <2>2, FS_CardinalityType
  <2> QED
    BY <1>1, <2>2, <2>3
<1>3. ASSUME NEW p \in S, NEW q \in S, p < q PROVE rank[p] # rank[q]
  <2>0. p \in Nat /\ q \in Nat
    OBVIOUS
  <2>1. Under(p) \in SUBSET Under(q) /\ p \in Under(q) /\ p \notin Under(p)
    <3>1. ASSUME NEW r \in Under(p) PROVE r \in Under(q)
      <4>1. r \in S /\ r \in Nat /\ r < p
        OBVIOUS
      <4> QED
        BY <1>3, <2>0, <4>1
    <3>2. p \in Under(q) /\ p \notin Under(p)
      BY <1>3, <2>0
    <3> QED
      BY <3>1, <3>2
  <2>2. IsFiniteSet(Under(q))
    BY <1>2
  <2> HIDE DEF Under
  <2>3. Cardinality(Under(q)) # Cardinality(Under(p))
    BY <2>1, <2>2, FS_Subset
  <2> QED
    BY <2>3
<1>4. rank \in Injection(S, 0..n - 1)
  <2>1. rank \in [S -> 0..n - 1]
    BY <1>1, <1>2
  <2>2. ASSUME NEW p \in S, NEW q \in S, rank[p] = rank[q] PROVE p = q
    <3>1. p \in Nat /\ q \in Nat /\ ~(p < q) /\ ~(q < p)
      BY <1>3, <2>2
    <3> QED
      BY <3>1
  <2> HIDE DEF rank
  <2> QED
    BY <2>1, <2>2 DEF Injection, IsInjective
<1>5. IsFiniteSet(0..n - 1) /\ Cardinality(0..n - 1) = n
  <2>1. n - 1 \in Int /\ 0 \in Int
    BY <1>1
  <2>2. Cardinality(0..n - 1) = IF 0 > n - 1 THEN 0 ELSE (n - 1) - 0 + 1
    BY <2>1, FS_Interval
  <2>3. IsFiniteSet(0..n - 1)
    BY <2>1, FS_Interval
  <2> QED
    BY <1>1, <2>2, <2>3
<1>6. rank \in Surjection(S, 0..n - 1)
  <2> HIDE DEF rank
  <2> QED
    BY <1>4, <1>5, FS_Injection
<1>7. ASSUME NEW i \in 1..n PROVE \E p \in S : Cardinality(Under(p)) = i - 1
  <2>1. i - 1 \in 0..n - 1
    BY <1>1
  <2>2. PICK p \in S : rank[p] = i - 1
    BY <1>6, <2>1 DEF Surjection
  <2> QED
    BY <2>2
<1>8. Ascending(S) \in [1..n -> S]
  BY <1>7 DEF Ascending
<1>9. Ascending(S) \in Seq(S)
  BY <1>1, <1>8, SeqDef
<1>10. Len(Ascending(S)) = n
  <2>1. DOMAIN Ascending(S) = 1..n /\ DOMAIN Ascending(S) = 1..Len(Ascending(S)) /\ Len(Ascending(S)) \in Nat
    BY <1>8, <1>9, LenProperties
  <2> QED
    BY <1>1, <2>1
<1> QED
  BY <1>9, <1>10

(* Division: what is left is less than the divisor.                          *)
LEMMA Division ==
    ASSUME NEW m \in Int, NEW d \in Nat \ {0}
    PROVE  m \div d \in Int /\ (m \div d) * d <= m /\ m < (m \div d) * d + d
OBVIOUS

(* Multiples of a number are in the order of what it is multiplied by. *)
LEMMA Times ==
    ASSUME NEW d \in Nat, NEW a \in Int, NEW b \in Int
    PROVE  a * d \in Int /\ (a + 1) * d = a * d + d /\ (a <= b => a * d <= b * d) /\ (a - 1) * d = a * d - d
           /\ (a < b /\ d # 0 => a * d < b * d)
OBVIOUS

(* The data of an element say which element they belong to, and where. *)
LEMMA DataType ==
    ASSUME NEW k, NEW n \in Nat
    PROVE  /\ Len(Data(k, n)) = n /\ \A i \in 1..n : Data(k, n)[i] = <<k, i>>
           /\ Data(k, n) \in Seq({<<k, i>> : i \in 1..n})
<1>1. Data(k, n) \in [1..n -> {<<k, i>> : i \in 1..n}] /\ \A i \in 1..n : Data(k, n)[i] = <<k, i>>
  BY DEF Data
<1>2. Data(k, n) \in Seq({<<k, i>> : i \in 1..n})
  BY <1>1, SeqDef
<1>3. DOMAIN Data(k, n) = 1..n
  BY <1>1
<1>4. Len(Data(k, n)) = n
  BY <1>2, <1>3, LenProperties
<1> QED
  BY <1>1, <1>2, <1>4

(* What is assumed of the constants that are numbers. *)
LEMMA SizesType == TransferSize \in Nat \ {0} /\ RetryCount \in Nat \ {0} /\ PageSize \in Nat \ {0} /\ Origin \in Nat
BY LayoutIsSound

(* Each block begins before the data end, and all of them reach to the end. *)
LEMMA BlockCountType ==
    ASSUME NEW n \in Nat
    PROVE  /\ BlockCount(n) \in Int
           /\ \A b \in 1..BlockCount(n) : Skipped(b) \in Nat /\ Skipped(b) < n /\ b * TransferSize = Skipped(b) + TransferSize
           /\ n <= BlockCount(n) * TransferSize
           /\ n # 0 => BlockCount(n) >= 1
<1> DEFINE m == n + TransferSize - 1
           q == BlockCount(n)
<1>1. m \in Int /\ TransferSize \in Nat \ {0} /\ q = m \div TransferSize
  BY SizesType DEF BlockCount
<1>2. q \in Int /\ q * TransferSize <= m /\ m < q * TransferSize + TransferSize
  BY <1>1, Division
<1> HIDE DEF q
<1>3. ASSUME NEW b \in 1..q PROVE Skipped(b) \in Nat /\ Skipped(b) < n /\ b * TransferSize = Skipped(b) + TransferSize
  <2>1. b \in Int /\ b <= q /\ 1 <= b
    BY <1>2
  <2>2. b * TransferSize <= q * TransferSize /\ 0 <= (b - 1) * TransferSize /\ (b - 1) * TransferSize = b * TransferSize - TransferSize
        /\ (b - 1) * TransferSize \in Int /\ b * TransferSize \in Int /\ q * TransferSize \in Int
    BY <1>1, <1>2, <2>1, Times
  <2> QED
    BY <1>1, <1>2, <2>2 DEF Skipped
<1>4. n <= q * TransferSize
  <2>1. q * TransferSize \in Int
    BY <1>1, <1>2, Times
  <2> QED
    BY <1>1, <1>2, <2>1
<1>5. n # 0 => q >= 1
  <2>1. ASSUME q < 1 PROVE q * TransferSize <= 0
    BY <1>1, <1>2, <2>1, Times
  <2>2. q * TransferSize \in Int
    BY <1>1, <1>2, Times
  <2> HIDE DEF m
  <2> QED
    BY <1>2, <1>4, <2>1, <2>2
<1> QED
  BY <1>2, <1>3, <1>4, <1>5 DEF q

(* A block holds the words of its element that follow those of the blocks   *)
(* before it.                                                               *)
LEMMA BlockType ==
    ASSUME NEW k, NEW n \in Nat, NEW b \in 1..BlockCount(n)
    PROVE  /\ Len(Block(Data(k, n), b)) \in Nat \ {0}
           /\ DOMAIN Block(Data(k, n), b) = 1..Len(Block(Data(k, n), b))
           /\ Skipped(b) \in Nat /\ b \in Nat \ {0} /\ Skipped(b) + Len(Block(Data(k, n), b)) <= n
           /\ Len(Block(Data(k, n), b)) = IF b * TransferSize < n THEN TransferSize ELSE n - Skipped(b)
           /\ \A i \in 1..Len(Block(Data(k, n), b)) : Block(Data(k, n), b)[i] = <<k, Skipped(b) + i>>
<1> DEFINE first == Skipped(b) + 1
           last == IF b * TransferSize < n THEN b * TransferSize ELSE n
           s == Block(Data(k, n), b)
<1>1. /\ BlockCount(n) \in Int /\ b \in Nat \ {0} /\ Skipped(b) \in Nat /\ Skipped(b) < n
      /\ b * TransferSize = Skipped(b) + TransferSize /\ TransferSize \in Nat \ {0}
  BY BlockCountType, SizesType
<1>2. s = SubSeq(Data(k, n), first, last)
  BY DataType DEF Block, Skipped
<1>3. first \in Int /\ last \in Int /\ first <= last /\ \A i \in first..last : i \in 1..n
  BY <1>1
<1>4. \A i \in first..last : Data(k, n)[i] \in {<<k, j>> : j \in 1..n}
  BY <1>3, DataType
<1>5. /\ s \in Seq({<<k, j>> : j \in 1..n}) /\ Len(s) = last - first + 1
      /\ \A i \in 1..last - first + 1 : s[i] = Data(k, n)[first + i - 1]
  <2> HIDE DEF first, last, s
  <2> QED
    BY <1>2, <1>3, <1>4, SubSeqProperties
<1>6. DOMAIN s = 1..Len(s)
  BY <1>5, LenProperties
<1>7. Len(s) = last - Skipped(b) /\ Len(s) \in Nat \ {0} /\ Skipped(b) + Len(s) <= n
  <2>1. last \in Int /\ last <= n /\ first = Skipped(b) + 1 /\ first <= last
    BY <1>1
  <2>2. Len(s) = last - first + 1 /\ Skipped(b) \in Nat /\ n \in Nat
    BY <1>1, <1>5
  <2> HIDE DEF first, last, s
  <2> QED
    BY <2>1, <2>2
<1>8. ASSUME NEW i \in 1..Len(s) PROVE s[i] = <<k, Skipped(b) + i>>
  <2>1. i \in 1..last - first + 1 /\ first + i - 1 = Skipped(b) + i
    BY <1>1, <1>5
  <2>2. Skipped(b) + i \in 1..n
    BY <1>1, <1>7
  <2>3. s[i] = Data(k, n)[Skipped(b) + i]
    BY <1>5, <2>1
  <2> QED
    BY <2>2, <2>3, DataType
<1>9. Len(s) = IF b * TransferSize < n THEN TransferSize ELSE n - Skipped(b)
  BY <1>1, <1>7
<1> QED
  BY <1>1, <1>6, <1>7, <1>8, <1>9

(* Every word of an element is in one of its blocks.                        *)
LEMMA BlocksCover ==
    ASSUME NEW k, NEW n \in Nat, NEW i \in 1..n
    PROVE  \E b \in 1..BlockCount(n) : \E j \in DOMAIN Block(Data(k, n), b) : i = Skipped(b) + j
<1> DEFINE b == (i - 1) \div TransferSize + 1
           q == (i - 1) \div TransferSize
<1>1. TransferSize \in Nat \ {0} /\ i - 1 \in Int /\ n - 1 \in Int /\ BlockCount(n) \in Int
  BY SizesType, BlockCountType
<1>2. q \in Int /\ q * TransferSize <= i - 1 /\ i - 1 < q * TransferSize + TransferSize
  BY <1>1, Division
<1> HIDE DEF q
<1>3. q >= 0
  <2>1. ASSUME q < 0 PROVE q * TransferSize + TransferSize <= 0
    <3>1. q + 1 <= 0 /\ (q + 1) * TransferSize = q * TransferSize + TransferSize
      BY <1>1, <1>2, <2>1, Times
    <3>2. (q + 1) * TransferSize <= 0 * TransferSize
      BY <1>1, <1>2, <3>1, Times
    <3> QED
      BY <1>1, <3>1, <3>2
  <2>2. q * TransferSize \in Int /\ TransferSize \in Nat
    BY <1>1, <1>2, Times
  <2>3. ~(q < 0)
    BY <1>1, <1>2, <2>1, <2>2
  <2> QED
    BY <1>2, <2>3
<1>4. q + 1 <= BlockCount(n)
  <2>1. ASSUME q >= BlockCount(n) PROVE BlockCount(n) * TransferSize <= q * TransferSize
    BY <1>1, <1>2, <2>1, Times
  <2>2. n <= BlockCount(n) * TransferSize /\ BlockCount(n) * TransferSize \in Int /\ q * TransferSize \in Int
    BY <1>1, <1>2, BlockCountType, Times
  <2>3. ~(q >= BlockCount(n))
    <3>1. q * TransferSize <= i - 1 /\ i - 1 < n
      BY <1>2
    <3> QED
      BY <2>1, <2>2, <3>1
  <2>4. q \in Int /\ BlockCount(n) \in Int
    BY <1>1, <1>2
  <2> QED
    BY <2>3, <2>4
<1>5. b = q + 1 /\ b \in 1..BlockCount(n) /\ Skipped(b) = q * TransferSize
  BY <1>1, <1>2, <1>3, <1>4 DEF Skipped, q
<1>6. i - Skipped(b) \in 1..Len(Block(Data(k, n), b))
  <2>1. /\ Len(Block(Data(k, n), b)) = IF b * TransferSize < n THEN TransferSize ELSE n - Skipped(b)
        /\ Skipped(b) \in Nat
    BY <1>5, BlockType
  <2> HIDE DEF b
  <2>0. Skipped(b) <= i - 1 /\ i - 1 < Skipped(b) + TransferSize
    BY <1>2, <1>5
  <2>2. PICK z \in Nat : z = Skipped(b) /\ z <= i - 1 /\ i - 1 < z + TransferSize
    BY <2>0, <2>1
  <2>3. PICK c \in Nat : c = Len(Block(Data(k, n), b)) /\ (c = TransferSize \/ c = n - z)
    <3>1. b \in 1..BlockCount(n)
      BY <1>5
    <3>2. Len(Block(Data(k, n), b)) \in Nat
      BY <3>1, BlockType
    <3> QED
      BY <2>1, <2>2, <3>2
  <2>4. TransferSize \in Nat /\ i \in 1..n
    BY <1>1
  <2>5. i - z \in 1..c
    BY <2>2, <2>3, <2>4
  <2> QED
    BY <2>2, <2>3, <2>5
<1>7. i - Skipped(b) \in DOMAIN Block(Data(k, n), b) /\ i = Skipped(b) + (i - Skipped(b))
  BY <1>5, <1>6, BlockType
<1> QED
  BY <1>5, <1>7

(* The items of a concatenation, by their places.                           *)
Joins(s, t, m, n) ==
    /\ m \in Nat /\ n \in Nat /\ m = Len(s) /\ n = Len(t)
    /\ DOMAIN s = 1..m /\ DOMAIN t = 1..n /\ DOMAIN (s \o t) = 1..m + n
    /\ \A i \in 1..m : (s \o t)[i] = s[i]
    /\ \A i \in 1..m + n : i > m => (s \o t)[i] = t[i - m]
(* Two sequences of a type joined are a sequence of it. *)
LEMMA Joined ==
    ASSUME NEW X, NEW s \in Seq(X), NEW t \in Seq(X)
    PROVE  s \o t \in Seq(X) /\ \E m, n : Joins(s, t, m, n)
<1>1. /\ s \o t \in Seq(X) /\ Len(s \o t) = Len(s) + Len(t)
      /\ \A i \in 1..Len(s) + Len(t) : (s \o t)[i] = IF i <= Len(s) THEN s[i] ELSE t[i - Len(s)]
  BY ConcatProperties
<1>2. Len(s) \in Nat /\ Len(t) \in Nat /\ DOMAIN s = 1..Len(s) /\ DOMAIN t = 1..Len(t)
      /\ DOMAIN (s \o t) = 1..Len(s \o t)
  BY <1>1, LenProperties
<1>3. Joins(s, t, Len(s), Len(t))
  BY <1>1, <1>2 DEF Joins
<1> QED
  BY <1>1, <1>3

(* A block is written by the command that has its number and its data. *)
LEMMA BlockWriteType ==
    ASSUME NEW e, NEW k \in DOMAIN e, NEW b \in BlocksOf(e, k)
    PROVE  /\ BlockWrite(e, k, b) \in BlockWrites(e) /\ WriteItem(e, k, b) \in MemoryItems(e)
           /\ BlockWrite(e, k, b).cmd = "write" /\ BlockWrite(e, k, b).at = b + 1
           /\ BlockWrite(e, k, b).data = Block(Data(k, e[k].size), b)
           /\ WriteItem(e, k, b).asks = "dnload" /\ WriteItem(e, k, b).arg = BlockWrite(e, k, b)
<1>1. BlockWrite(e, k, b) \in BlockWrites(e)
  BY DEF BlockWrites
<1> QED
  BY <1>1 DEF BlockWrite, WriteItem, MemoryItems, Downloads, Item, Command

(* What writes a block of an element is a write. *)
LEMMA WritesAreWrites ==
    ASSUME NEW e, NEW k \in DOMAIN e, NEW item, WritesOf(item, e, k)
    PROVE  IsWrite(item) /\ IsDownload(item) /\ ~IsPoll(item) /\ ~IsErase(item)
<1>1. PICK b \in BlocksOf(e, k) : item = WriteItem(e, k, b) /\ IsDownload(item)
  BY DEF WritesOf
<1>2. item.arg.cmd = "write"
  BY <1>1, BlockWriteType
<1> QED
  BY <1>1, <1>2 DEF IsWrite, IsDownload, IsPoll, IsErase

(* What is asked of the device for memory, as far as it begins neither with *)
(* a block nor with a question about one.                                   *)
Heads(s) == s # <<>> => ~IsPoll(s[1]) /\ ~IsWrite(s[1])
LinkedSeqs(e) == {s \in Seq(MemoryItems(e)) : Linked(s, e) /\ Heads(s)}

LinkedAt(s, e, i) ==
    /\ IsDownload(s[i]) => i + 1 \in DOMAIN s /\ IsPoll(s[i + 1])
    /\ i > 1 /\ IsPoll(s[i]) => IsDownload(s[i - 1])
    /\ i > 1 /\ IsWrite(s[i]) => IsPoll(s[i - 1])
    /\ i > 2 => \A k \in DOMAIN e : WritesOf(s[i], e, k) => WritesOf(s[i - 2], e, k) \/ PointsTo(s[i - 2], e, k)
(* A sequence is linked when it is at each of its items. *)
LEMMA LinkedEverywhere == \A s, e : Linked(s, e) <=> \A i \in DOMAIN s : LinkedAt(s, e, i)
BY DEF Linked, LinkedAt

(* Joining linked sequences that begin a call gives such a sequence. *)
LEMMA LinkedClosed == ASSUME NEW e PROVE Closed(LinkedSeqs(e)) /\ <<>> \in LinkedSeqs(e)
<1>1. ASSUME NEW s \in LinkedSeqs(e), NEW t \in LinkedSeqs(e) PROVE s \o t \in LinkedSeqs(e)
  <2>1. /\ s \in Seq(MemoryItems(e)) /\ t \in Seq(MemoryItems(e)) /\ Heads(s) /\ Heads(t)
        /\ (\A i \in DOMAIN s : LinkedAt(s, e, i)) /\ (\A i \in DOMAIN t : LinkedAt(t, e, i))
    BY LinkedEverywhere DEF LinkedSeqs
  <2>2. s \o t \in Seq(MemoryItems(e)) /\ \E m, n : Joins(s, t, m, n)
    BY <2>1, Joined
  <2>3. PICK m, n : Joins(s, t, m, n)
    BY <2>2
  <2> DEFINE u == s \o t
  <2>4. /\ m \in Nat /\ n \in Nat /\ DOMAIN s = 1..m /\ DOMAIN t = 1..n /\ DOMAIN u = 1..m + n
        /\ (\A i \in 1..m : u[i] = s[i]) /\ (\A i \in 1..m + n : i > m => u[i] = t[i - m])
    BY <2>3 DEF Joins
  <2> HIDE DEF u
  <2>5. n > 0 => ~IsPoll(t[1]) /\ ~IsWrite(t[1])
    <3>1. n > 0 => t # <<>>
      BY <2>3 DEF Joins
    <3> QED
      BY <2>1, <3>1 DEF Heads
  <2>6. ASSUME NEW i \in 1..m PROVE LinkedAt(u, e, i)
    <3>1. LinkedAt(s, e, i) /\ u[i] = s[i] /\ (i > 1 => u[i - 1] = s[i - 1]) /\ (i > 2 => u[i - 2] = s[i - 2])
      BY <2>1, <2>4
    <3>2. i + 1 \in DOMAIN s => i + 1 \in DOMAIN u /\ u[i + 1] = s[i + 1]
      BY <2>4
    <3> QED
      BY <3>1, <3>2 DEF LinkedAt
  <2>7. ASSUME NEW i \in 1..m + n, i > m PROVE LinkedAt(u, e, i)
    <3>1. PICK j \in 1..n : j = i - m
      BY <2>4, <2>7
    <3>2. LinkedAt(t, e, j) /\ u[i] = t[j] /\ (j > 1 => u[i - 1] = t[j - 1]) /\ (j > 2 => u[i - 2] = t[j - 2])
      <4>1. LinkedAt(t, e, j)
        BY <2>1, <2>4
      <4>2. i \in Int /\ j \in Int /\ m \in Nat /\ n \in Nat /\ i - m = j
        BY <2>4, <3>1
      <4>3. u[i] = t[j]
        BY <2>4, <2>7, <4>2
      <4>4. j > 1 => i - 1 \in 1..m + n /\ i - 1 > m /\ (i - 1) - m = j - 1
        BY <4>2
      <4>5. j > 2 => i - 2 \in 1..m + n /\ i - 2 > m /\ (i - 2) - m = j - 2
        BY <4>2
      <4>6. j > 1 => u[i - 1] = t[j - 1]
        BY <2>4, <4>4
      <4>7. j > 2 => u[i - 2] = t[j - 2]
        BY <2>4, <4>5
      <4> QED
        BY <4>1, <4>3, <4>6, <4>7
    <3>3. j + 1 \in DOMAIN t => i + 1 \in DOMAIN u /\ u[i + 1] = t[j + 1]
      BY <2>4, <2>7, <3>1
    <3>0. j \in Int /\ i \in Int /\ j >= 1
      BY <2>4
    <3>4. CASE j = 1
      <4>1. ~IsPoll(u[i]) /\ ~IsWrite(u[i])
        BY <2>4, <2>5, <3>0, <3>1, <3>2, <3>4
      <4>2. \A k \in DOMAIN e : ~WritesOf(u[i], e, k)
        BY <4>1, WritesAreWrites
      <4> QED
        BY <3>2, <3>3, <4>1, <4>2 DEF LinkedAt
    <3>5. CASE j = 2
      <4>1. IsWrite(t[2]) => IsPoll(t[1])
        BY <3>2, <3>5 DEF LinkedAt
      <4>2. ~IsPoll(t[1])
        BY <2>4, <2>5, <3>0, <3>1
      <4>3. \A k \in DOMAIN e : ~WritesOf(u[i], e, k)
        BY <3>2, <3>5, <4>1, <4>2, WritesAreWrites
      <4> QED
        BY <3>0, <3>2, <3>3, <3>5, <4>3 DEF LinkedAt
    <3>6. CASE j > 2
      BY <3>0, <3>2, <3>3, <3>6 DEF LinkedAt
    <3> QED
      BY <3>0, <3>4, <3>5, <3>6
  <2>8. \A i \in DOMAIN u : LinkedAt(u, e, i)
    BY <2>4, <2>6, <2>7
  <2>9. Heads(u)
    <3>1. CASE m > 0
      <4>1. s # <<>> /\ u[1] = s[1]
        BY <2>4, <3>1
      <4> QED
        BY <2>1, <4>1 DEF Heads
    <3>2. CASE m = 0 /\ n > 0
      <4>1. u[1] = t[1]
        BY <2>4, <3>2
      <4> QED
        BY <2>5, <3>2, <4>1 DEF Heads
    <3>3. CASE m = 0 /\ n = 0
      <4>1. u \in Seq(MemoryItems(e)) /\ DOMAIN u = 1..0
        BY <2>2, <2>4, <3>3 DEF u
      <4>2. u = <<>>
        BY <4>1
      <4> QED
        BY <4>2 DEF Heads
    <3> QED
      BY <2>4, <3>1, <3>2, <3>3
  <2>10. u \in Seq(MemoryItems(e))
    BY <2>2 DEF u
  <2>11. Linked(u, e)
    BY <2>8, LinkedEverywhere
  <2> QED
    BY <2>9, <2>10, <2>11 DEF LinkedSeqs, u
<1>2. <<>> \in LinkedSeqs(e)
  BY DEF LinkedSeqs, Linked, Heads
<1> QED
  BY <1>1, <1>2 DEF Closed

(* What holds of the items of two sequences holds of their concatenation.   *)
LEMMA ConcatKeeps ==
    ASSUME NEW X, NEW s \in Seq(X), NEW t \in Seq(X)
    PROVE  /\ NoWrites(s) /\ NoWrites(t) => NoWrites(s \o t)
           /\ NoErases(s) /\ NoErases(t) => NoErases(s \o t)
           /\ AltBefore(s) /\ AltBefore(t) => AltBefore(s \o t)
           /\ NoWrites(s) /\ EraseFirst(t) => EraseFirst(s \o t)
<1>1. PICK m, n : Joins(s, t, m, n)
  BY Joined
<1> DEFINE u == s \o t
<1>2. /\ m \in Nat /\ n \in Nat /\ DOMAIN s = 1..m /\ DOMAIN t = 1..n /\ DOMAIN u = 1..m + n
      /\ (\A i \in 1..m : u[i] = s[i]) /\ (\A i \in 1..m + n : i > m => u[i] = t[i - m])
  BY <1>1 DEF Joins
<1> HIDE DEF u
<1>3. ASSUME NEW i \in DOMAIN u
      PROVE  \/ i \in DOMAIN s /\ u[i] = s[i]
             \/ i > m /\ i - m \in DOMAIN t /\ u[i] = t[i - m]
  <2>1. i <= m => i \in 1..m
    BY <1>2
  <2>2. i > m => i - m \in 1..n
    BY <1>2
  <2> QED
    BY <1>2, <2>1, <2>2
<1>4. NoWrites(s) /\ NoWrites(t) => NoWrites(u)
  BY <1>3 DEF NoWrites
<1>5. NoErases(s) /\ NoErases(t) => NoErases(u)
  BY <1>3 DEF NoErases
<1>6. ASSUME AltBefore(s), AltBefore(t) PROVE AltBefore(u)
  <2>1. SUFFICES ASSUME NEW i \in DOMAIN u, IsWrite(u[i]) PROVE \E j \in DOMAIN u : j < i /\ u[j].asks = "alt"
    BY DEF AltBefore
  <2>2. CASE i \in DOMAIN s /\ u[i] = s[i]
    <3>1. PICK j \in DOMAIN s : j < i /\ s[j].asks = "alt"
      BY <1>6, <2>1, <2>2 DEF AltBefore
    <3>2. j \in DOMAIN u /\ u[j] = s[j]
      BY <1>2
    <3> QED
      BY <3>1, <3>2
  <2>3. CASE i > m /\ i - m \in DOMAIN t /\ u[i] = t[i - m]
    <3>1. PICK j \in DOMAIN t : j < i - m /\ t[j].asks = "alt"
      BY <1>6, <2>1, <2>3 DEF AltBefore
    <3>2. j + m \in 1..m + n /\ j + m > m /\ (j + m) - m = j /\ j + m < i
      BY <1>2, <3>1
    <3>3. j + m \in DOMAIN u /\ u[j + m] = t[j]
      BY <1>2, <3>2
    <3> QED
      BY <3>1, <3>2, <3>3
  <2> QED
    BY <1>3, <2>2, <2>3
<1>7. ASSUME NoWrites(s), EraseFirst(t) PROVE EraseFirst(u)
  <2>1. SUFFICES ASSUME NEW i \in DOMAIN u, NEW j \in DOMAIN u, i < j, IsWrite(u[i]) PROVE ~IsErase(u[j])
    BY DEF EraseFirst
  <2>2. i > m /\ i - m \in DOMAIN t /\ u[i] = t[i - m]
    BY <1>3, <1>7, <2>1 DEF NoWrites
  <2>3. j > m
    BY <1>2, <2>1, <2>2
  <2>4. j - m \in DOMAIN t /\ u[j] = t[j - m] /\ i - m < j - m
    BY <1>2, <2>1, <2>3
  <2> QED
    BY <1>7, <2>1, <2>2, <2>4 DEF EraseFirst
<1> QED
  BY <1>4, <1>5, <1>6, <1>7 DEF u

(* What has to precede a write, and what a write has to precede, does not matter where there is none. *)
LEMMA NothingToWrite ==
    ASSUME NEW s
    PROVE  (NoWrites(s) => AltBefore(s)) /\ (NoErases(s) => EraseFirst(s))
BY DEF NoWrites, NoErases, AltBefore, EraseFirst

(* The requests that erase, and those that write.                           *)
ErasingSeqs(e) == {s \in LinkedSeqs(e) : NoWrites(s)}
WritingSeqs(e) == {s \in LinkedSeqs(e) : NoErases(s) /\ AltBefore(s)}

(* Erasures joined are erasures, and writes joined are writes. *)
LEMMA SeqsClosed ==
    ASSUME NEW e
    PROVE  /\ Closed(ErasingSeqs(e)) /\ <<>> \in ErasingSeqs(e) /\ ErasingSeqs(e) \subseteq Seq(MemoryItems(e))
           /\ Closed(WritingSeqs(e)) /\ <<>> \in WritingSeqs(e) /\ WritingSeqs(e) \subseteq Seq(MemoryItems(e))
<1>1. LinkedSeqs(e) \subseteq Seq(MemoryItems(e))
  BY DEF LinkedSeqs
<1>2. ASSUME NEW s \in LinkedSeqs(e), NEW t \in LinkedSeqs(e)
      PROVE  /\ NoWrites(s) /\ NoWrites(t) => NoWrites(s \o t)
             /\ NoErases(s) /\ NoErases(t) => NoErases(s \o t)
             /\ AltBefore(s) /\ AltBefore(t) => AltBefore(s \o t)
  <2>1. s \in Seq(MemoryItems(e)) /\ t \in Seq(MemoryItems(e))
    BY <1>1
  <2> QED
    BY <2>1, ConcatKeeps
<1>3. <<>> \in LinkedSeqs(e) /\ NoWrites(<<>>) /\ NoErases(<<>>) /\ AltBefore(<<>>)
  BY LinkedClosed DEF NoWrites, NoErases, AltBefore
<1>4. ASSUME NEW s \in LinkedSeqs(e), NEW t \in LinkedSeqs(e) PROVE s \o t \in LinkedSeqs(e)
  BY LinkedClosed DEF Closed
<1>5. Closed(ErasingSeqs(e))
  BY <1>2, <1>4 DEF Closed, ErasingSeqs
<1>6. Closed(WritingSeqs(e))
  BY <1>2, <1>4 DEF Closed, WritingSeqs
<1> QED
  BY <1>1, <1>3, <1>5, <1>6 DEF ErasingSeqs, WritingSeqs

(* One request that neither gives the device a command nor asks about one.  *)
LEMMA OneItem ==
    ASSUME NEW e, NEW item \in MemoryItems(e), ~IsDownload(item), ~IsPoll(item)
    PROVE  <<item>> \in ErasingSeqs(e) /\ <<item>> \in WritingSeqs(e)
<1>1. ~IsWrite(item) /\ ~IsErase(item) /\ \A k \in DOMAIN e : ~WritesOf(item, e, k)
  BY DEF IsWrite, IsErase, WritesOf
<1>2. <<item>> \in Seq(MemoryItems(e)) /\ DOMAIN <<item>> = {1} /\ <<item>>[1] = item
  OBVIOUS
<1>3. Linked(<<item>>, e) /\ Heads(<<item>>)
  <2>1. ASSUME NEW i \in DOMAIN <<item>> PROVE LinkedAt(<<item>>, e, i)
    <3>1. i = 1
      BY <1>2
    <3> QED
      BY <1>1, <1>2, <3>1 DEF LinkedAt
  <2>2. Heads(<<item>>)
    BY <1>1, <1>2 DEF Heads
  <2> QED
    BY <2>1, <2>2, LinkedEverywhere
<1>4. NoWrites(<<item>>) /\ NoErases(<<item>>) /\ AltBefore(<<item>>)
  BY <1>1, <1>2 DEF NoWrites, NoErases, AltBefore
<1> QED
  BY <1>2, <1>3, <1>4 DEF ErasingSeqs, WritingSeqs, LinkedSeqs

(* Two sequences of one item joined are a pair. *)
LEMMA TwoItems == ASSUME NEW x, NEW y PROVE <<x>> \o <<y>> = <<x, y>>
<1>1. <<x>> \in Seq({x, y}) /\ <<y>> \in Seq({x, y}) /\ Len(<<x>>) = 1 /\ Len(<<y>>) = 1
  OBVIOUS
<1> DEFINE u == <<x>> \o <<y>>
<1>2. u \in Seq({x, y}) /\ Len(u) = 2 /\ u[1] = x /\ u[2] = y
  BY <1>1, ConcatProperties
<1>3. <<x, y>> \in Seq({x, y}) /\ Len(<<x, y>>) = 2 /\ <<x, y>>[1] = x /\ <<x, y>>[2] = y
  OBVIOUS
<1> HIDE DEF u
<1>4. \A i \in 1..Len(u) : u[i] = <<x, y>>[i]
  BY <1>2, <1>3
<1>5. u = <<x, y>>
  BY <1>2, <1>3, <1>4, SeqEqual
<1> QED
  BY <1>5 DEF u

(* One command that is no block, and its status.                            *)
LEMMA OnePair ==
    ASSUME NEW e, NEW command \in Pointers \cup Erasures(e)
    PROVE  /\ Download(command) \o PollWhileBusy \in ErasingSeqs(e)
           /\ command \in Pointers => Download(command) \o PollWhileBusy \in WritingSeqs(e)
<1> DEFINE s == Download(command) \o PollWhileBusy
           first == Item("dnload", command)
           second == Item("poll", {"dnloadBusy"})
<1>1. s = <<first, second>>
  <2>1. s = <<first>> \o <<second>>
    BY DEF Download, PollWhileBusy
  <2> HIDE DEF first, second
  <2> QED
    BY <2>1, TwoItems
<1>2. first.asks = "dnload" /\ first.arg = command /\ second.asks = "poll"
  BY DEF Item
<1>3. first \in MemoryItems(e)
  BY DEF MemoryItems, Downloads, Item
<1>4. second \in MemoryItems(e)
  BY DEF MemoryItems, Questions, Item
<1>5. command.cmd \in {"pointer", "erase"}
  BY DEF Pointers, Erasures
<1>6. IsDownload(first) /\ ~IsPoll(first) /\ ~IsWrite(first) /\ IsPoll(second) /\ ~IsDownload(second)
  BY <1>2, <1>5 DEF IsDownload, IsPoll, IsWrite
<1>7. ~IsWrite(second) /\ ~IsErase(second) /\ \A k \in DOMAIN e : ~WritesOf(second, e, k) /\ ~WritesOf(first, e, k)
  BY <1>6, WritesAreWrites DEF IsWrite, IsErase, WritesOf
<1> HIDE DEF first, second, s
<1>8. s \in Seq(MemoryItems(e)) /\ DOMAIN s = 1..2 /\ s[1] = first /\ s[2] = second /\ s # <<>>
  BY <1>1, <1>3, <1>4
<1>9. ASSUME NEW i \in DOMAIN s PROVE LinkedAt(s, e, i)
  <2>1. i = 1 \/ i = 2
    BY <1>8
  <2>2. CASE i = 1
    <3>1. i + 1 = 2 /\ i + 1 \in DOMAIN s
      BY <1>8, <2>2
    <3> QED
      BY <1>6, <1>7, <1>8, <2>2, <3>1 DEF LinkedAt
  <2>3. CASE i = 2
    <3>1. i - 1 = 1
      BY <2>3
    <3> QED
      BY <1>6, <1>7, <1>8, <2>3, <3>1 DEF LinkedAt
  <2> QED
    BY <2>1, <2>2, <2>3
<1>10. Linked(s, e) /\ Heads(s)
  <2>1. Linked(s, e)
    BY <1>9, LinkedEverywhere
  <2> QED
    BY <1>6, <1>8, <2>1 DEF Heads
<1>11. NoWrites(s) /\ AltBefore(s)
  <2>1. NoWrites(s)
    BY <1>6, <1>7, <1>8 DEF NoWrites
  <2> QED
    BY <2>1, NothingToWrite
<1>12. command \in Pointers => NoErases(s)
  <2>1. command \in Pointers => ~IsErase(first)
    BY <1>2 DEF IsErase, Pointers
  <2> QED
    BY <1>7, <1>8, <2>1 DEF NoErases
<1> QED
  BY <1>8, <1>10, <1>11, <1>12 DEF ErasingSeqs, WritingSeqs, LinkedSeqs, s

(* The number of blocks is a number. *)
LEMMA BlockCountNat == ASSUME NEW n \in Nat PROVE BlockCount(n) \in Nat
<1> DEFINE m == n + TransferSize - 1
           q == BlockCount(n)
<1>1. m \in Nat /\ TransferSize \in Nat \ {0} /\ q = m \div TransferSize
  BY SizesType DEF BlockCount
<1>2. q \in Int /\ m < q * TransferSize + TransferSize
  BY <1>1, Division
<1> HIDE DEF q
<1>3. ASSUME q < 0 PROVE FALSE
  <2>1. q + 1 <= 0 /\ q + 1 \in Int
    BY <1>2, <1>3
  <2>2. (q + 1) * TransferSize <= 0 * TransferSize /\ (q + 1) * TransferSize = q * TransferSize + TransferSize
        /\ q * TransferSize \in Int
    BY <1>1, <1>2, <2>1, Times
  <2>3. 0 * TransferSize = 0
    BY <1>1
  <2> HIDE DEF m
  <2> QED
    BY <1>1, <1>2, <2>2, <2>3
<1> QED
  BY <1>2, <1>3 DEF q

Elements == Seq([at : Int, size : Nat])

(* An element has an address and a size. *)
LEMMA ElementType ==
    ASSUME NEW e \in Elements, NEW k \in DOMAIN e
    PROVE  /\ e[k] \in [at : Int, size : Nat] /\ e[k].at \in Int /\ e[k].size \in Nat
           /\ BlockCount(e[k].size) \in Nat /\ DOMAIN e = 1..Len(e) /\ Len(e) \in Nat
<1>1. e[k] \in [at : Int, size : Nat] /\ DOMAIN e = 1..Len(e) /\ Len(e) \in Nat
  BY LenProperties, ElementOfSeq DEF Elements
<1> QED
  BY <1>1, BlockCountNat

(* A block belongs to one element.                                          *)
LEMMA OwnElement ==
    ASSUME NEW e \in Elements, NEW k \in DOMAIN e, NEW l \in DOMAIN e, NEW item,
           WritesOf(item, e, k), WritesOf(item, e, l)
    PROVE  k = l
<1>1. PICK b \in BlocksOf(e, k) : item = WriteItem(e, k, b)
  BY DEF WritesOf
<1>2. PICK a \in BlocksOf(e, l) : item = WriteItem(e, l, a)
  BY DEF WritesOf
<1>3. item.arg.data = Block(Data(k, e[k].size), b) /\ item.arg.data = Block(Data(l, e[l].size), a)
  <2>1. item.arg.data = Block(Data(k, e[k].size), b)
    BY <1>1, BlockWriteType
  <2>2. item.arg.data = Block(Data(l, e[l].size), a)
    BY <1>2, BlockWriteType
  <2> QED
    BY <2>1, <2>2
<1>4. ASSUME NEW j \in DOMAIN e, NEW c \in BlocksOf(e, j)
      PROVE  Block(Data(j, e[j].size), c)[1] = <<j, Skipped(c) + 1>>
  <2>1. c \in 1..BlockCount(e[j].size) /\ e[j].size \in Nat
    BY ElementType DEF BlocksOf
  <2>2. 1 \in 1..Len(Block(Data(j, e[j].size), c))
    BY <2>1, BlockType
  <2> QED
    BY <2>1, <2>2, BlockType
<1>5. <<k, Skipped(b) + 1>> = <<l, Skipped(a) + 1>>
  BY <1>3, <1>4
<1> QED
  BY <1>5

(* The blocks of an element, one after the other.                           *)
RunAt(s, e, k, i) ==
    /\ WritesOf(s[i], e, k) \/ IsPoll(s[i])
    /\ WritesOf(s[i], e, k) => i + 1 \in DOMAIN s /\ IsPoll(s[i + 1])
    /\ IsPoll(s[i]) => i > 1 /\ WritesOf(s[i - 1], e, k)
    /\ i > 1 /\ WritesOf(s[i], e, k) => IsPoll(s[i - 1])
Run(e, k) == {s \in Seq(MemoryItems(e)) : \A i \in DOMAIN s : RunAt(s, e, k, i)}

(* What writes a block does not poll. *)
LEMMA NotBoth == ASSUME NEW e, NEW k \in DOMAIN e, NEW item, WritesOf(item, e, k) PROVE ~IsPoll(item)
BY WritesAreWrites

(* Two runs of writes of an element joined are one. *)
LEMMA RunClosed == ASSUME NEW e, NEW k \in DOMAIN e PROVE Closed(Run(e, k)) /\ <<>> \in Run(e, k)
<1>1. ASSUME NEW s \in Run(e, k), NEW t \in Run(e, k) PROVE s \o t \in Run(e, k)
  <2>1. /\ s \in Seq(MemoryItems(e)) /\ t \in Seq(MemoryItems(e))
        /\ (\A i \in DOMAIN s : RunAt(s, e, k, i)) /\ (\A i \in DOMAIN t : RunAt(t, e, k, i))
    BY DEF Run
  <2>2. s \o t \in Seq(MemoryItems(e)) /\ \E m, n : Joins(s, t, m, n)
    BY <2>1, Joined
  <2>3. PICK m, n : Joins(s, t, m, n)
    BY <2>2
  <2> DEFINE u == s \o t
  <2>4. /\ m \in Nat /\ n \in Nat /\ DOMAIN s = 1..m /\ DOMAIN t = 1..n /\ DOMAIN u = 1..m + n
        /\ (\A i \in 1..m : u[i] = s[i]) /\ (\A i \in 1..m + n : i > m => u[i] = t[i - m])
    BY <2>3 DEF Joins
  <2> HIDE DEF u
  <2>5. ASSUME NEW i \in 1..m PROVE RunAt(u, e, k, i)
    <3>1. RunAt(s, e, k, i) /\ u[i] = s[i] /\ (i > 1 => u[i - 1] = s[i - 1])
      BY <2>1, <2>4
    <3>2. i + 1 \in DOMAIN s => i + 1 \in DOMAIN u /\ u[i + 1] = s[i + 1]
      BY <2>4
    <3> QED
      BY <3>1, <3>2 DEF RunAt
  <2>6. ASSUME NEW i \in 1..m + n, i > m PROVE RunAt(u, e, k, i)
    <3>1. PICK j \in 1..n : j = i - m
      BY <2>4, <2>6
    <3>2. i \in Int /\ j \in Int /\ j >= 1
      BY <2>4
    <3>3. RunAt(t, e, k, j)
      BY <2>1, <2>4
    <3>4. u[i] = t[j]
      BY <2>4, <2>6, <3>1
    <3>5. j > 1 => u[i - 1] = t[j - 1]
      <4>1. j > 1 => i - 1 \in 1..m + n /\ i - 1 > m /\ (i - 1) - m = j - 1
        BY <2>4, <3>1, <3>2
      <4> QED
        BY <2>4, <4>1
    <3>6. j + 1 \in DOMAIN t => i + 1 \in DOMAIN u /\ u[i + 1] = t[j + 1]
      <4>1. j + 1 \in 1..n => i + 1 \in 1..m + n /\ i + 1 > m /\ (i + 1) - m = j + 1
        BY <2>4, <2>6, <3>1, <3>2
      <4> QED
        BY <2>4, <4>1
    <3>7. CASE j > 1
      <4>1. i > 1
        BY <2>4, <3>1, <3>2, <3>7
      <4> QED
        BY <3>3, <3>4, <3>5, <3>6, <3>7, <4>1 DEF RunAt
    <3>8. CASE j = 1
      <4>1. ~IsPoll(t[j]) /\ WritesOf(t[j], e, k)
        BY <3>3, <3>8 DEF RunAt
      <4>2. i > 1 => IsPoll(u[i - 1])
        <5>1. SUFFICES ASSUME i > 1 PROVE IsPoll(u[i - 1])
          OBVIOUS
        <5>2. i - 1 = m /\ m \in 1..m /\ m + 1 \notin DOMAIN s
          <6>1. i - 1 = m /\ m >= 1
            BY <2>4, <3>1, <3>2, <3>8, <5>1
          <6> QED
            BY <2>4, <6>1
        <5>3. RunAt(s, e, k, m) /\ u[i - 1] = s[m]
          BY <2>1, <2>4, <5>2
        <5> QED
          BY <5>2, <5>3 DEF RunAt
      <4> QED
        BY <3>3, <3>4, <3>6, <4>1, <4>2 DEF RunAt
    <3> QED
      BY <3>2, <3>7, <3>8
  <2>7. \A i \in DOMAIN u : RunAt(u, e, k, i)
    BY <2>4, <2>5, <2>6
  <2>8. u \in Seq(MemoryItems(e))
    BY <2>2 DEF u
  <2> QED
    BY <2>7, <2>8 DEF Run, u
<1> QED
  BY <1>1 DEF Closed, Run

(* One block, and its status.                                               *)
LEMMA OneBlock ==
    ASSUME NEW e, NEW k \in DOMAIN e, NEW b \in BlocksOf(e, k)
    PROVE  Download(BlockWrite(e, k, b)) \o PollUntilIdle = <<WriteItem(e, k, b), Item("poll", {"dnloadBusy", "idle", "uploadIdle"})>>
           /\ Download(BlockWrite(e, k, b)) \o PollUntilIdle \in Run(e, k)
<1> DEFINE s == Download(BlockWrite(e, k, b)) \o PollUntilIdle
           first == WriteItem(e, k, b)
           second == Item("poll", {"dnloadBusy", "idle", "uploadIdle"})
<1>1. s = <<first, second>>
  <2>1. s = <<first>> \o <<second>>
    BY DEF Download, PollUntilIdle, WriteItem
  <2> HIDE DEF first, second
  <2> QED
    BY <2>1, TwoItems
<1>2. first \in MemoryItems(e) /\ IsDownload(first)
  BY BlockWriteType DEF IsDownload
<1>3. second \in MemoryItems(e) /\ IsPoll(second)
  BY DEF MemoryItems, Questions, Item, IsPoll
<1>4. WritesOf(first, e, k) /\ ~IsPoll(first) /\ ~WritesOf(second, e, k)
  <2>1. WritesOf(first, e, k)
    BY <1>2 DEF WritesOf
  <2> HIDE DEF first, second
  <2> QED
    BY <1>3, <2>1, NotBoth
<1> HIDE DEF first, second, s
<1>5. s \in Seq(MemoryItems(e)) /\ DOMAIN s = 1..2 /\ s[1] = first /\ s[2] = second
  BY <1>1, <1>2, <1>3
<1>6. ASSUME NEW i \in DOMAIN s PROVE RunAt(s, e, k, i)
  <2>1. i = 1 \/ i = 2
    BY <1>5
  <2>2. CASE i = 1
    <3>1. i + 1 = 2 /\ i + 1 \in DOMAIN s
      BY <1>5, <2>2
    <3> QED
      BY <1>3, <1>4, <1>5, <2>2, <3>1 DEF RunAt
  <2>3. CASE i = 2
    <3>1. i - 1 = 1
      BY <2>3
    <3> QED
      BY <1>3, <1>4, <1>5, <2>3, <3>1 DEF RunAt
  <2> QED
    BY <2>1, <2>2, <2>3
<1> QED
  BY <1>1, <1>5, <1>6 DEF Run, s, first, second

(* The blocks of an element are a run of its writes, none of them left out. *)
LEMMA BlocksType ==
    ASSUME NEW e \in Elements, NEW k \in DOMAIN e
    PROVE  /\ Blocks(Data(k, e[k].size)) \in Run(e, k)
           /\ \A b \in BlocksOf(e, k) : Holds(Blocks(Data(k, e[k].size)), WriteItem(e, k, b))
<1> DEFINE n == BlockCount(e[k].size)
           ss == [b \in 1..n |-> Download(BlockWrite(e, k, b)) \o PollUntilIdle]
<1>1. e[k].size \in Nat /\ n \in Nat /\ Len(Data(k, e[k].size)) = e[k].size /\ BlocksOf(e, k) = 1..n
  BY ElementType, DataType DEF BlocksOf
<1>2. Blocks(Data(k, e[k].size)) = FlattenSeq(ss)
  BY <1>1 DEF Blocks, BlockWrite
<1>3. \A b \in 1..n : Download(BlockWrite(e, k, b)) \o PollUntilIdle \in Run(e, k)
  BY <1>1, OneBlock
<1>4. ss \in [1..n -> Run(e, k)]
  BY <1>3
<1>5. ss \in Seq(Run(e, k)) /\ Run(e, k) \subseteq Seq(MemoryItems(e)) /\ DOMAIN ss = 1..n
  <2> HIDE DEF n, ss
  <2>1. ss \in Seq(Run(e, k))
    BY <1>1, <1>4, SeqDef
  <2>2. Run(e, k) \subseteq Seq(MemoryItems(e))
    BY DEF Run
  <2> QED
    BY <1>4, <2>1, <2>2
<1>6. ss \in Seq(Seq(MemoryItems(e)))
  BY <1>5, SeqMonotonic
<1> HIDE DEF n, ss
<1>7. FlattenSeq(ss) \in Run(e, k)
  BY <1>5, RunClosed, FlattenKeeps
<1>8. ASSUME NEW b \in BlocksOf(e, k) PROVE Holds(FlattenSeq(ss), WriteItem(e, k, b))
  <2>1. ss[b] = <<WriteItem(e, k, b), Item("poll", {"dnloadBusy", "idle", "uploadIdle"})>>
    BY <1>1, OneBlock DEF ss
  <2>2. 1 \in DOMAIN ss[b] /\ ss[b][1] = WriteItem(e, k, b)
    BY <2>1
  <2>3. b \in DOMAIN ss
    BY <1>1, <1>5
  <2> QED
    BY <1>6, <2>2, <2>3, FlattenHolds
<1> QED
  BY <1>2, <1>7, <1>8

(* The address pointer is set, and the blocks that count from it follow.     *)
LEMMA PointedRun ==
    ASSUME NEW e \in Elements, NEW k \in DOMAIN e, NEW t \in Run(e, k)
    PROVE  SetAddressPointer(e[k].at) \o t \in LinkedSeqs(e) /\ NoErases(SetAddressPointer(e[k].at) \o t)
<1> DEFINE s == SetAddressPointer(e[k].at)
           first == Item("dnload", Command("pointer", e[k].at, <<>>))
           second == Item("poll", {"dnloadBusy"})
           u == s \o t
<1>1. s = <<first, second>>
  <2>1. s = <<first>> \o <<second>>
    BY DEF SetAddressPointer, Download, PollWhileBusy
  <2> HIDE DEF first, second
  <2> QED
    BY <2>1, TwoItems
<1>2. /\ IsDownload(first) /\ PointsTo(first, e, k) /\ ~IsPoll(first) /\ ~IsWrite(first) /\ ~IsErase(first)
      /\ IsPoll(second) /\ ~IsDownload(second) /\ ~IsErase(second)
  BY DEF IsDownload, PointsTo, IsPoll, IsWrite, IsErase, Item, Command
<1>3. s \in LinkedSeqs(e) /\ NoErases(s)
  <2>1. Command("pointer", e[k].at, <<>>) \in Pointers
    BY ElementType DEF Pointers, Command
  <2>2. s \in WritingSeqs(e)
    BY <2>1, OnePair DEF SetAddressPointer
  <2> QED
    BY <2>2 DEF WritingSeqs
<1>4. /\ s \in Seq(MemoryItems(e)) /\ (\A i \in DOMAIN s : LinkedAt(s, e, i))
      /\ t \in Seq(MemoryItems(e)) /\ (\A i \in DOMAIN t : RunAt(t, e, k, i))
  BY <1>3, LinkedEverywhere DEF LinkedSeqs, Run
<1>5. u \in Seq(MemoryItems(e)) /\ \E m, n : Joins(s, t, m, n)
  BY <1>4, Joined
<1>6. PICK n : Joins(s, t, 2, n)
  <2>1. PICK m, n : Joins(s, t, m, n)
    BY <1>5
  <2>2. m = 2
    BY <1>1, <2>1 DEF Joins
  <2> QED
    BY <2>1, <2>2
<1> HIDE DEF first, second
<1>7. /\ n \in Nat /\ DOMAIN s = 1..2 /\ DOMAIN t = 1..n /\ DOMAIN u = 1..2 + n
      /\ (\A i \in 1..2 : u[i] = s[i]) /\ (\A i \in 1..2 + n : i > 2 => u[i] = t[i - 2])
      /\ s[1] = first /\ s[2] = second
  BY <1>1, <1>6 DEF Joins
<1> HIDE DEF u, s
<1>8. u[1] = first /\ u[2] = second
  BY <1>7
<1>9. ASSUME NEW j \in 1..n
      PROVE  /\ RunAt(t, e, k, j)
             /\ IsDownload(t[j]) \/ IsWrite(t[j]) \/ IsErase(t[j]) => WritesOf(t[j], e, k) /\ ~IsErase(t[j])
             /\ \A l \in DOMAIN e : WritesOf(t[j], e, l) => l = k
  <2>1. RunAt(t, e, k, j)
    BY <1>4, <1>7
  <2>2. IsPoll(t[j]) => ~IsDownload(t[j]) /\ ~IsWrite(t[j]) /\ ~IsErase(t[j])
    BY DEF IsPoll, IsDownload, IsWrite, IsErase
  <2>3. WritesOf(t[j], e, k) \/ IsPoll(t[j])
    BY <2>1 DEF RunAt
  <2>4. WritesOf(t[j], e, k) => ~IsErase(t[j])
    BY WritesAreWrites
  <2>5. ASSUME NEW l \in DOMAIN e, WritesOf(t[j], e, l) PROVE l = k
    <3>1. ~IsPoll(t[j])
      BY <2>5, NotBoth
    <3> QED
      BY <2>3, <2>5, <3>1, OwnElement
  <2> QED
    BY <2>1, <2>2, <2>3, <2>4, <2>5
<1>10. ASSUME NEW i \in 1..2 + n, i <= 2 PROVE LinkedAt(u, e, i)
  <2>1. LinkedAt(s, e, i) /\ u[i] = s[i] /\ (i > 1 => u[i - 1] = s[i - 1]) /\ ~(i > 2)
    BY <1>4, <1>7, <1>10
  <2>2. i + 1 \in DOMAIN s => i + 1 \in DOMAIN u /\ u[i + 1] = s[i + 1]
    BY <1>7
  <2> QED
    BY <2>1, <2>2 DEF LinkedAt
<1>11. ASSUME NEW i \in 1..2 + n, i > 2 PROVE LinkedAt(u, e, i)
  <2>0. PICK j \in 1..n : j = i - 2
    BY <1>7, <1>11
  <2>1. i \in Int /\ j \in Int /\ j >= 1 /\ i = j + 2
    BY <1>7, <2>0
  <2>2. u[i] = t[j]
    BY <1>7, <1>11, <2>0
  <2>3. RunAt(t, e, k, j) /\ (IsDownload(t[j]) \/ IsWrite(t[j]) => WritesOf(t[j], e, k))
        /\ \A l \in DOMAIN e : WritesOf(t[j], e, l) => l = k
    BY <1>9
  <2>4. j > 1 => u[i - 1] = t[j - 1]
    <3>1. j > 1 => i - 1 \in 1..2 + n /\ i - 1 > 2 /\ (i - 1) - 2 = j - 1
      BY <1>7, <2>1
    <3> QED
      BY <1>7, <3>1
  <2>5. j > 2 => u[i - 2] = t[j - 2] /\ j - 1 \in 1..n
    <3>1. j > 2 => i - 2 \in 1..2 + n /\ i - 2 > 2 /\ (i - 2) - 2 = j - 2 /\ j - 1 \in 1..n
      BY <1>7, <2>1
    <3> QED
      BY <1>7, <3>1
  <2>6. j + 1 \in DOMAIN t => i + 1 \in DOMAIN u /\ u[i + 1] = t[j + 1]
    <3>1. j + 1 \in 1..n => i + 1 \in 1..2 + n /\ i + 1 > 2 /\ (i + 1) - 2 = j + 1
      BY <1>7, <2>1
    <3> QED
      BY <1>7, <3>1
  <2>7. IsDownload(u[i]) => i + 1 \in DOMAIN u /\ IsPoll(u[i + 1])
    BY <2>2, <2>3, <2>6 DEF RunAt
  <2>8. IsPoll(u[i]) => IsDownload(u[i - 1])
    <3>1. SUFFICES ASSUME IsPoll(t[j]) PROVE IsDownload(u[i - 1])
      BY <2>2
    <3>2. j > 1 /\ WritesOf(t[j - 1], e, k)
      BY <2>3, <3>1 DEF RunAt
    <3> QED
      BY <2>4, <3>2, WritesAreWrites
  <2>9. IsWrite(u[i]) => IsPoll(u[i - 1])
    <3>1. SUFFICES ASSUME IsWrite(t[j]) PROVE IsPoll(u[i - 1])
      BY <2>2
    <3>2. WritesOf(t[j], e, k)
      BY <2>3, <3>1
    <3>3. CASE j = 1
      <4>1. i - 1 = 2
        BY <2>1, <3>3
      <4> QED
        BY <1>2, <1>8, <4>1
    <3>4. CASE j > 1
      BY <2>3, <2>4, <3>2, <3>4 DEF RunAt
    <3> QED
      BY <2>1, <3>3, <3>4
  <2>10. ASSUME NEW l \in DOMAIN e, WritesOf(u[i], e, l) PROVE WritesOf(u[i - 2], e, l) \/ PointsTo(u[i - 2], e, l)
    <3>1. l = k /\ WritesOf(t[j], e, k)
      BY <2>2, <2>3, <2>10
    <3>2. CASE j = 1
      <4>1. i - 2 = 1
        BY <2>1, <3>2
      <4> QED
        BY <1>2, <1>8, <3>1, <4>1
    <3>3. CASE j > 1
      <4>1. IsPoll(t[j - 1]) /\ j - 1 \in 1..n
        BY <1>7, <2>3, <3>1, <3>3 DEF RunAt
      <4>2. RunAt(t, e, k, j - 1)
        BY <1>9, <4>1
      <4>3. j - 1 > 1 /\ WritesOf(t[(j - 1) - 1], e, k)
        BY <4>1, <4>2 DEF RunAt
      <4>4. j > 2 /\ (j - 1) - 1 = j - 2
        BY <2>1, <4>3
      <4> QED
        BY <2>5, <3>1, <4>3, <4>4
    <3> QED
      BY <2>1, <3>2, <3>3
  <2> QED
    BY <2>7, <2>8, <2>9, <2>10 DEF LinkedAt
<1>12. Linked(u, e)
  <2>1. \A i \in DOMAIN u : LinkedAt(u, e, i)
    BY <1>7, <1>10, <1>11
  <2> QED
    BY <2>1, LinkedEverywhere
<1>13. Heads(u)
  BY <1>2, <1>8 DEF Heads
<1>14. NoErases(t)
  BY <1>7, <1>9 DEF NoErases
<1>15. NoErases(u)
  BY <1>3, <1>4, <1>14, ConcatKeeps DEF u
<1> QED
  BY <1>5, <1>12, <1>13, <1>15 DEF LinkedSeqs, u, s

(* The pages of an element are asked for at addresses of its own.           *)
LEMMA PageAddressesType ==
    ASSUME NEW element \in [at : Int, size : Nat]
    PROVE  LET S == PageAddresses(element.at, element.at + element.size) IN
           S \subseteq Nat /\ S \subseteq Touched(element) /\ IsFiniteSet(S)
<1> DEFINE a == element.at
           z == element.at + element.size
           S == PageAddresses(a, z)
<1>1. a \in Int /\ z \in Int /\ Origin \in Nat /\ PageStarts \cup {MemoryEnd} \subseteq Nat
  BY PagesType, SizesType
<1>2. S # {} => a \in Nat
  BY <1>1 DEF PageAddresses
<1>3. S \subseteq {a} \cup a..z - 1
  BY <1>1 DEF PageAddresses
<1>4. S \subseteq Nat
  BY <1>1, <1>2 DEF PageAddresses
<1>5. S \subseteq a..z
  BY <1>1, <1>3 DEF PageAddresses
<1>6. IsFiniteSet(S)
  <2>1. IsFiniteSet(a..z)
    BY <1>1, FS_Interval
  <2> HIDE DEF a, z, S
  <2> QED
    BY <1>5, <2>1, FS_Subset
<1> QED
  BY <1>3, <1>4, <1>6 DEF Touched, Cells

(* Erasing an element writes nothing, and is linked. *)
LEMMA EraseType ==
    ASSUME NEW e \in Elements, NEW k \in DOMAIN e
    PROVE  Erase(e[k].at, e[k].size) \in ErasingSeqs(e)
<1> DEFINE S == PageAddresses(e[k].at, e[k].at + e[k].size)
           pages == Ascending(S)
           E == ErasingSeqs(e)
           ss == [i \in DOMAIN pages |-> ErasePage(pages[i])]
<1>1. S \subseteq Nat /\ S \subseteq Touched(e[k]) /\ IsFiniteSet(S)
  BY ElementType, PageAddressesType
<1>2. pages \in Seq(S)
  <2> HIDE DEF S
  <2> QED
    BY <1>1, AscendingType
<1>3. ASSUME NEW p \in S PROVE ErasePage(p) \in E
  <2>1. Command("erase", p, <<>>) \in Erasures(e)
    BY <1>1 DEF Erasures, Command
  <2> QED
    BY <2>1, OnePair DEF ErasePage
<1>4. ss \in Seq(E)
  <2> HIDE DEF S, pages, E
  <2>1. pages \in [1..Len(pages) -> S] /\ Len(pages) \in Nat /\ DOMAIN pages = 1..Len(pages)
    BY <1>2, LenProperties
  <2>2. ss \in [1..Len(pages) -> E]
    BY <1>3, <2>1
  <2> HIDE DEF ss
  <2> QED
    BY <2>1, <2>2, SeqDef
<1>5. FlattenSeq(ss) \in E
  <2> HIDE DEF ss
  <2> QED
    BY <1>4, SeqsClosed, FlattenKeeps
<1>6. ASSUME NEW what \in {"prepare", "descriptor", "giveUp"} PROVE <<Item(what, 0)>> \in E
  <2>1. Item(what, 0) \in MemoryItems(e) /\ ~IsDownload(Item(what, 0)) /\ ~IsPoll(Item(what, 0))
    BY DEF Item, MemoryItems, Questions, GivesUpItem, IsDownload, IsPoll
  <2> QED
    BY <2>1, OneItem
<1>7. \A s, t \in E : s \o t \in E
  BY SeqsClosed DEF Closed
<1>8. Prepare \o Descriptor \in E
  BY <1>6, <1>7 DEF Prepare, Descriptor
<1> HIDE DEF E, ss
<1> QED
  BY <1>5, <1>6, <1>7, <1>8 DEF Erase, E, ss

(* Writing an element erases nothing, is linked, and writes all of its blocks. *)
LEMMA WriteType ==
    ASSUME NEW e \in Elements, NEW k \in DOMAIN e
    PROVE  /\ Write(e[k].at, Data(k, e[k].size), FlashAlt) \in WritingSeqs(e)
           /\ Write(e[k].at, Data(k, e[k].size), FlashAlt) # <<>>
           /\ \A b \in BlocksOf(e, k) : Holds(Write(e[k].at, Data(k, e[k].size), FlashAlt), WriteItem(e, k, b))
<1> DEFINE t == Blocks(Data(k, e[k].size))
           s == SetAddressPointer(e[k].at)
           a == Item("alt", FlashAlt)
           L == LinkedSeqs(e)
           w == Write(e[k].at, Data(k, e[k].size), FlashAlt)
<1>1. t \in Run(e, k) /\ \A b \in BlocksOf(e, k) : Holds(t, WriteItem(e, k, b))
  BY BlocksType
<1>2. s \o t \in L /\ NoErases(s \o t)
  <2> HIDE DEF t
  <2> QED
    BY <1>1, PointedRun
<1>3. <<a>> \in WritingSeqs(e) /\ a.asks = "alt"
  <2>1. a \in MemoryItems(e) /\ ~IsDownload(a) /\ ~IsPoll(a) /\ a.asks = "alt"
    BY DEF Item, MemoryItems, Alts, IsDownload, IsPoll, FlashAlt
  <2> HIDE DEF a
  <2> QED
    BY <2>1, OneItem
<1>4. Prepare \in WritingSeqs(e)
  <2>1. Item("prepare", 0) \in MemoryItems(e) /\ ~IsDownload(Item("prepare", 0)) /\ ~IsPoll(Item("prepare", 0))
    BY DEF Item, MemoryItems, Questions, IsDownload, IsPoll
  <2> QED
    BY <2>1, OneItem DEF Prepare
<1> HIDE DEF t, s, a
<1> DEFINE p == <<a>> \o Prepare
<1>5. p \in WritingSeqs(e)
  BY <1>3, <1>4, SeqsClosed DEF Closed
<1>6. L \subseteq Seq(MemoryItems(e)) /\ p \in L /\ NoErases(p) /\ WritingSeqs(e) \subseteq L
  BY <1>5 DEF WritingSeqs, LinkedSeqs
<1>7. s \in Seq(MemoryItems(e)) /\ t \in Seq(MemoryItems(e))
  <2>1. t \in Seq(MemoryItems(e))
    BY <1>1 DEF Run
  <2>2. Command("pointer", e[k].at, <<>>) \in Pointers
    BY ElementType DEF Pointers, Command
  <2>3. s \in WritingSeqs(e)
    BY <2>2, OnePair DEF s, SetAddressPointer
  <2> QED
    BY <1>6, <2>1, <2>3
<1>8. w = p \o (s \o t)
  <2>1. w = (p \o s) \o t
    BY DEF Write, Alt, s, t, a
  <2>2. (p \o s) \o t = p \o (s \o t)
    <3> HIDE DEF p
    <3> QED
      BY <1>6, <1>7, ConcatAssociative
  <2> QED
    BY <2>1, <2>2
<1>9. w \in L
  <2> HIDE DEF p, w
  <2> QED
    BY <1>2, <1>6, <1>8, LinkedClosed DEF Closed
<1>10. NoErases(w)
  <2> HIDE DEF p, w
  <2> QED
    BY <1>2, <1>6, <1>8, ConcatKeeps
<1>11. w[1] = a /\ w # <<>> /\ 1 \in DOMAIN w
  <2>1. p[1] = a /\ 1 \in DOMAIN p
    <3>1. p = <<a, Item("prepare", 0)>>
      BY TwoItems DEF Prepare
    <3> QED
      BY <3>1
  <2>2. PICK m, n : Joins(p, s \o t, m, n)
    <3> HIDE DEF p
    <3> QED
      BY <1>2, <1>6, Joined
  <2> HIDE DEF p, w
  <2>3. 1 \in 1..m /\ 1 \in 1..m + n
    BY <2>1, <2>2 DEF Joins
  <2> QED
    BY <1>8, <2>1, <2>2, <2>3 DEF Joins
<1>12. AltBefore(w)
  <2>1. ~IsWrite(w[1])
    BY <1>3, <1>11 DEF IsWrite, IsDownload
  <2>2. ASSUME NEW i \in DOMAIN w, IsWrite(w[i]) PROVE \E j \in DOMAIN w : j < i /\ w[j].asks = "alt"
    <3>1. i # 1 /\ i \in 1..Len(w) /\ Len(w) \in Nat
      <4> HIDE DEF w
      <4> QED
        BY <1>6, <1>9, <2>1, <2>2, LenProperties
    <3>2. 1 < i
      BY <3>1
    <3> QED
      BY <1>3, <1>11, <3>2
  <2> HIDE DEF w
  <2> QED
    BY <2>2 DEF AltBefore
<1>13. ASSUME NEW b \in BlocksOf(e, k) PROVE Holds(w, WriteItem(e, k, b))
  <2>1. Holds(t, WriteItem(e, k, b))
    BY <1>1
  <2>2. s \o t \in Seq(MemoryItems(e)) /\ p \in Seq(MemoryItems(e))
    BY <1>2, <1>6
  <2> HIDE DEF p, w
  <2>3. Holds(s \o t, WriteItem(e, k, b))
    BY <1>7, <2>1, HeldByEither
  <2> QED
    BY <1>8, <2>2, <2>3, HeldByEither
<1> QED
  BY <1>9, <1>10, <1>11, <1>12, <1>13 DEF WritingSeqs

(* A whole download: it erases, then it writes every block.                  *)
Whole(s, e) ==
    /\ s \in Seq(MemoryItems(e)) /\ s # <<>> /\ Heads(s)
    /\ Linked(s, e) /\ EraseFirst(s) /\ AltBefore(s)
    /\ \A k \in DOMAIN e : \A b \in BlocksOf(e, k) : Ahead(s, e, k, b)

(* Erasures followed by all the writes are all there is to do. *)
LEMMA ErasedThenWritten ==
    ASSUME NEW e, NEW s \in ErasingSeqs(e), NEW t \in WritingSeqs(e), t # <<>>,
           \A k \in DOMAIN e : \A b \in BlocksOf(e, k) : Holds(t, WriteItem(e, k, b))
    PROVE  Whole(s \o t, e)
<1>1. s \in LinkedSeqs(e) /\ t \in LinkedSeqs(e) /\ NoWrites(s) /\ NoErases(t) /\ AltBefore(t)
  BY DEF ErasingSeqs, WritingSeqs
<1>2. s \in Seq(MemoryItems(e)) /\ t \in Seq(MemoryItems(e))
  BY <1>1 DEF LinkedSeqs
<1> DEFINE u == s \o t
<1>3. u \in LinkedSeqs(e)
  BY <1>1, LinkedClosed DEF Closed
<1>4. u \in Seq(MemoryItems(e)) /\ Linked(u, e) /\ Heads(u)
  BY <1>3 DEF LinkedSeqs
<1>5. EraseFirst(u) /\ AltBefore(u)
  BY <1>1, <1>2, NothingToWrite, ConcatKeeps
<1>6. u # <<>>
  BY <1>2, ConcatEqualIffEmpty
<1>7. \A k \in DOMAIN e : \A b \in BlocksOf(e, k) : Ahead(u, e, k, b)
  BY <1>2, HeldByEither DEF Ahead
<1> QED
  BY <1>4, <1>5, <1>6, <1>7 DEF Whole

(* What a placed wireless stack takes to write is whole. *)
LEMMA OneWhole ==
    ASSUME NEW e \in Elements, e = <<e[1]>>
    PROVE  Whole(Erase(e[1].at, e[1].size) \o Write(e[1].at, Data(1, e[1].size), FlashAlt), e)
<1>1. DOMAIN e = {1}
  <2>1. DOMAIN <<e[1]>> = {1}
    OBVIOUS
  <2> QED
    BY <2>1
<1>2. 1 \in DOMAIN e
  BY <1>1
<1>3. /\ Erase(e[1].at, e[1].size) \in ErasingSeqs(e)
      /\ Write(e[1].at, Data(1, e[1].size), FlashAlt) \in WritingSeqs(e)
      /\ Write(e[1].at, Data(1, e[1].size), FlashAlt) # <<>>
      /\ \A b \in BlocksOf(e, 1) : Holds(Write(e[1].at, Data(1, e[1].size), FlashAlt), WriteItem(e, 1, b))
  BY <1>2, EraseType, WriteType
<1> QED
  BY <1>1, <1>3, ErasedThenWritten

(* So is what a file takes, where everything is erased before anything is written. *)
LEMMA FileWhole ==
    ASSUME NEW e \in Elements, e # <<>>
    PROVE  Whole(DownloadFile(e), e)
<1> DEFINE es == [k \in DOMAIN e |-> Erase(e[k].at, e[k].size)]
           ws == [k \in DOMAIN e |-> Write(e[k].at, Data(k, e[k].size), FlashAlt)]
<1>1. Len(e) \in Nat \ {0} /\ DOMAIN e = 1..Len(e)
  BY EmptySeq, LenProperties DEF Elements
<1>2. es \in Seq(ErasingSeqs(e))
  <2>1. es \in [1..Len(e) -> ErasingSeqs(e)]
    BY <1>1, EraseType
  <2> HIDE DEF es
  <2> QED
    BY <1>1, <2>1, SeqDef
<1>3. ws \in Seq(WritingSeqs(e)) /\ DOMAIN ws = DOMAIN e
  <2>1. ws \in [1..Len(e) -> WritingSeqs(e)]
    BY <1>1, WriteType
  <2> HIDE DEF ws
  <2> QED
    BY <1>1, <2>1, SeqDef
<1>4. ws \in Seq(Seq(MemoryItems(e)))
  <2> HIDE DEF ws
  <2> QED
    BY <1>3, SeqsClosed, SeqMonotonic
<1>5. FlattenSeq(es) \in ErasingSeqs(e)
  <2> HIDE DEF es
  <2> QED
    BY <1>2, SeqsClosed, FlattenKeeps
<1>6. FlattenSeq(ws) \in WritingSeqs(e)
  <2> HIDE DEF ws
  <2> QED
    BY <1>3, SeqsClosed, FlattenKeeps
<1>7. ASSUME NEW k \in DOMAIN e, NEW item, Holds(ws[k], item)
      PROVE  Holds(FlattenSeq(ws), item)
  <2>1. PICK x \in DOMAIN ws[k] : ws[k][x] = item
    BY <1>7 DEF Holds
  <2>2. k \in DOMAIN ws
    BY <1>3
  <2> HIDE DEF ws
  <2> QED
    BY <1>4, <2>1, <2>2, FlattenHolds
<1>8. \A k \in DOMAIN e : \A b \in BlocksOf(e, k) : Holds(FlattenSeq(ws), WriteItem(e, k, b))
  <2>1. ASSUME NEW k \in DOMAIN e, NEW b \in BlocksOf(e, k) PROVE Holds(ws[k], WriteItem(e, k, b))
    BY WriteType
  <2> HIDE DEF ws
  <2> QED
    BY <1>7, <2>1
<1>9. FlattenSeq(ws) # <<>>
  <2>1. 1 \in DOMAIN e
    BY <1>1
  <2>2. ws[1] # <<>> /\ ws[1] \in Seq(MemoryItems(e))
    <3>1. ws[1] # <<>> /\ ws[1] \in WritingSeqs(e)
      BY <2>1, WriteType
    <3> HIDE DEF ws
    <3> QED
      BY <3>1, SeqsClosed
  <2> HIDE DEF ws
  <2>3. 1 \in DOMAIN ws[1]
    BY <2>2, EmptySeq, LenProperties
  <2>4. Holds(ws[1], ws[1][1])
    BY <2>3 DEF Holds
  <2>5. Holds(FlattenSeq(ws), ws[1][1])
    BY <1>7, <2>1, <2>4
  <2> QED
    BY <2>5 DEF Holds
<1>10. Whole(FlattenSeq(es) \o FlattenSeq(ws), e)
  <2> HIDE DEF es, ws
  <2> QED
    BY <1>5, <1>6, <1>8, <1>9, ErasedThenWritten
<1> QED
  BY <1>10 DEF DownloadFile

(* As a download begins, the device may be in any state.                     *)
LEMMA WholeDownloads ==
    ASSUME NEW e, NEW s, NEW d, Whole(s, e)
    PROVE  /\ DownloadsItems(s, d, e) /\ Progress(s, d, e)
           /\ \A k \in DOMAIN e : \A b \in BlocksOf(e, k) : Ahead(s, e, k, b)
<1>1. ~IsPoll(s[1]) /\ ~IsWrite(s[1])
  BY DEF Whole, Heads
<1>2. AimedAt(s, d, e)
  BY <1>1, WritesAreWrites DEF AimedAt, WritesNext
<1> QED
  BY <1>2 DEF Whole, DownloadsItems, Progress

(* A sequence with one more in front.                                       *)
LEMMA Prepended ==
    ASSUME NEW X, NEW x \in X, NEW s \in Seq(X)
    PROVE  /\ <<x>> \o s \in Seq(X) /\ <<x>> \o s # <<>>
           /\ Head(<<x>> \o s) = x /\ Tail(<<x>> \o s) = s
<1> DEFINE u == <<x>> \o s
<1>1. <<x>> \in Seq(X) /\ Len(<<x>>) = 1 /\ <<x>>[1] = x
  OBVIOUS
<1>2. u \in Seq(X) /\ Len(u) = 1 + Len(s) /\ \A i \in 1..1 + Len(s) : u[i] = IF i <= 1 THEN <<x>>[i] ELSE s[i - 1]
  BY <1>1, ConcatProperties
<1>3. Len(s) \in Nat
  BY LenProperties
<1> HIDE DEF u
<1>4. u # <<>> /\ u[1] = x
  BY <1>1, <1>2, <1>3, EmptySeq
<1>5. Head(u) = x
  BY <1>2, <1>4
<1>6. Tail(u) \in Seq(X) /\ Len(Tail(u)) = Len(s) /\ \A i \in 1..Len(Tail(u)) : Tail(u)[i] = u[i + 1]
  BY <1>2, <1>3, <1>4, HeadTailProperties
<1>7. ASSUME NEW i \in 1..Len(s) PROVE Tail(u)[i] = s[i]
  <2>1. i + 1 \in 1..1 + Len(s) /\ ~(i + 1 <= 1) /\ (i + 1) - 1 = i
    BY <1>3
  <2> QED
    BY <1>2, <1>6, <2>1
<1>8. Tail(u) = s
  BY <1>6, <1>7, SeqEqual
<1> QED
  BY <1>2, <1>4, <1>5, <1>8 DEF u

(* The option bytes are at an address, of an alternate setting of their own. *)
LEMMA OptionBytesAreBeyond == OptionBytesAt \in Int /\ OptionBytesAlt = 1 /\ FlashAlt = 0 /\ MemoryEnd \in Int
BY PagesType DEF OptionBytesAt, OptionBytesAlt, FlashAlt

(* The requests that no transaction needs more than.                         *)
LEMMA PlainParts ==
    ASSUME NEW blind \in BOOLEAN
    PROVE  LET S == Seq(PlainItems(blind)) IN
           /\ \A n \in {0, 1} : Alt(n) \in S /\ Alt(n) # <<>>
           /\ Prepare \in S /\ Abort \in S /\ PollWhileBusy \in S /\ PollUntilIdle \in S
           /\ \A what \in {"anyStatus", "mayAbort", "upload"} : <<Item(what, 0)>> \in S /\ <<Item(what, 0)>> # <<>>
           /\ \A command \in Pointers \cup Raws \cup Leaves \cup OptionWrites(blind) : Download(command) \in S /\ Download(command) # <<>>
           /\ \A a \in Int : SetAddressPointer(a) \in S
           /\ \A s, t \in S : s \o t \in S /\ (s # <<>> => s \o t # <<>>)
<1> DEFINE I == PlainItems(blind)
           S == Seq(I)
<1>1. ASSUME NEW n \in {0, 1} PROVE Alt(n) \in S /\ Alt(n) # <<>>
  <2>1. Item("alt", n) \in I
    BY DEF PlainItems, Alts, Item
  <2> HIDE DEF I
  <2> QED
    BY <2>1 DEF Alt
<1>2. ASSUME NEW what \in {"anyStatus", "mayAbort", "upload", "prepare", "abort", "isIdle"}
      PROVE  Item(what, 0) \in I /\ <<Item(what, 0)>> \in S /\ <<Item(what, 0)>> # <<>>
  <2>1. Item(what, 0) \in I
    BY DEF PlainItems, Questions, Item
  <2> HIDE DEF I
  <2> QED
    BY <2>1
<1>3. Prepare \in S /\ Abort \in S
  <2>1. Item("prepare", 0) \in I /\ Item("abort", 0) \in I /\ Item("isIdle", 0) \in I
    BY <1>2
  <2> HIDE DEF I
  <2> QED
    BY <2>1 DEF Prepare, Abort
<1>4. PollWhileBusy \in S /\ PollUntilIdle \in S
  <2>1. Item("poll", {"dnloadBusy"}) \in I /\ Item("poll", {"dnloadBusy", "idle", "uploadIdle"}) \in I
    BY DEF PlainItems, Questions, Item
  <2> HIDE DEF I
  <2> QED
    BY <2>1 DEF PollWhileBusy, PollUntilIdle
<1>5. ASSUME NEW command \in Pointers \cup Raws \cup Leaves \cup OptionWrites(blind)
      PROVE  Download(command) \in S /\ Download(command) # <<>>
  <2>1. Item("dnload", command) \in I
    BY DEF PlainItems, Downloads, Item
  <2> HIDE DEF I
  <2> QED
    BY <2>1 DEF Download
<1>6. \A s, t \in S : s \o t \in S /\ (s # <<>> => s \o t # <<>>)
  <2> HIDE DEF I
  <2> QED
    BY ConcatProperties, ConcatEqualIffEmpty
<1>7. ASSUME NEW a \in Int PROVE SetAddressPointer(a) \in S
  <2>1. Command("pointer", a, <<>>) \in Pointers
    BY DEF Command, Pointers
  <2> HIDE DEF I, S
  <2> QED
    BY <1>4, <1>5, <1>6, <2>1 DEF SetAddressPointer
<1> HIDE DEF I, S
<1> QED
  BY <1>1, <1>2, <1>3, <1>4, <1>5, <1>6, <1>7 DEF I, S

UploadsLast(s) == \A i \in DOMAIN s : s[i].asks = "upload" => i = Len(s)
(* Reading something writes nothing, and ends with what reads it. *)
LEMMA UploadType ==
    ASSUME NEW blind \in BOOLEAN, NEW at \in Int, NEW n \in {0, 1}
    PROVE  Upload(at, n) \in Seq(PlainItems(blind)) /\ Upload(at, n) # <<>> /\ UploadsLast(Upload(at, n))
<1> DEFINE I == {item \in PlainItems(blind) : item.asks # "upload"}
           t == <<Item("mayAbort", 0), Item("upload", 0)>>
           s == Alt(n) \o Prepare \o Abort \o SetAddressPointer(at)
<1>1. \A x, y \in I : <<x>> \in Seq(I) /\ <<x, y>> \in Seq(I)
  <2> HIDE DEF I
  <2> QED
    OBVIOUS
<1>2. Item("alt", n) \in I /\ Item("prepare", 0) \in I /\ Item("abort", 0) \in I /\ Item("isIdle", 0) \in I
  BY DEF PlainItems, Alts, Questions, Item
<1>3. Item("poll", {"dnloadBusy"}) \in I
  BY DEF PlainItems, Questions, Item
<1>4. Item("dnload", Command("pointer", at, <<>>)) \in I
  BY DEF PlainItems, Downloads, Pointers, Item, Command
<1> HIDE DEF I
<1>5. \A u, v \in Seq(I) : u \o v \in Seq(I)
  BY ConcatProperties
<1>6. s \in Seq(I)
  <2>1. SetAddressPointer(at) \in Seq(I)
    BY <1>1, <1>3, <1>4, <1>5 DEF SetAddressPointer, Download, PollWhileBusy
  <2>2. Alt(n) \o Prepare \o Abort \in Seq(I)
    BY <1>1, <1>2, <1>5 DEF Alt, Prepare, Abort
  <2> QED
    BY <1>5, <2>1, <2>2
<1>7. I \subseteq PlainItems(blind)
  BY DEF I
<1>8. s \in Seq(PlainItems(blind))
  <2> HIDE DEF s
  <2> QED
    BY <1>6, <1>7, SeqMonotonic
<1>9. t \in Seq(PlainItems(blind)) /\ Len(t) = 2 /\ t[1].asks = "mayAbort"
  <2>1. Item("mayAbort", 0) \in PlainItems(blind) /\ Item("upload", 0) \in PlainItems(blind) /\ Item("mayAbort", 0).asks = "mayAbort"
    BY DEF PlainItems, Questions, Item
  <2> HIDE DEF I
  <2> QED
    BY <2>1
<1>10. Upload(at, n) = s \o t
  BY DEF Upload
<1> HIDE DEF s, t
<1>11. s \o t \in Seq(PlainItems(blind)) /\ s \o t # <<>>
  <2>1. t # <<>>
    BY <1>9
  <2> QED
    BY <1>8, <1>9, <2>1, ConcatProperties, ConcatEqualIffEmpty
<1>12. UploadsLast(s \o t)
  <2>1. PICK m, k : Joins(s, t, m, k)
    BY <1>8, <1>9, Joined
  <2>2. k = 2 /\ m \in Nat /\ DOMAIN s = 1..m /\ DOMAIN (s \o t) = 1..m + 2 /\ m = Len(s)
    BY <1>9, <2>1 DEF Joins
  <2>3. Len(s \o t) = m + 2
    BY <1>8, <1>9, <2>2, ConcatProperties
  <2>4. ASSUME NEW i \in DOMAIN (s \o t), (s \o t)[i].asks = "upload" PROVE i = m + 2
    <3>1. CASE i <= m
      <4>1. i \in 1..m /\ (s \o t)[i] = s[i]
        BY <2>1, <2>2, <3>1 DEF Joins
      <4>2. s[i] \in I
        BY <1>6, <2>2, <4>1, ElementOfSeq
      <4> QED
        BY <2>4, <4>1, <4>2 DEF I
    <3>2. CASE i = m + 1
      <4>1. i > m /\ i - m = 1 /\ i \in 1..m + 2
        BY <2>2, <3>2
      <4>2. (s \o t)[i] = t[1]
        BY <2>1, <2>2, <4>1 DEF Joins
      <4> QED
        BY <1>9, <2>4, <4>2
    <3> QED
      BY <2>2, <3>1, <3>2
  <2> QED
    BY <2>3, <2>4 DEF UploadsLast
<1> QED
  BY <1>10, <1>11, <1>12

(* The option bytes are one word, and one block.                            *)
LEMMA OptionWriteType ==
    ASSUME NEW blind \in BOOLEAN, NEW o \in KeptOptions(blind)
    PROVE  Write(OptionBytesAt, <<o>>, OptionBytesAlt) \in Seq(PlainItems(blind))
           /\ Write(OptionBytesAt, <<o>>, OptionBytesAlt) # <<>>
<1> DEFINE S == Seq(PlainItems(blind))
           f == [b \in 1..1 |-> Download(Command("write", b + 1, Block(<<o>>, b))) \o PollUntilIdle]
<1>1. BlockCount(1) = 1
  <2>1. TransferSize \in Nat \ {0}
    BY SizesType
  <2>2. (1 + TransferSize - 1) = TransferSize
    BY <2>1
  <2>3. TransferSize \div TransferSize = 1
    <3>1. TransferSize \div TransferSize \in Int
          /\ (TransferSize \div TransferSize) * TransferSize <= TransferSize
          /\ TransferSize < (TransferSize \div TransferSize) * TransferSize + TransferSize
      BY <2>1, Division
    <3>2. PICK q \in Int : q = TransferSize \div TransferSize
      BY <3>1
    <3>3. q * TransferSize \in Int /\ (2 <= q => 2 * TransferSize <= q * TransferSize)
          /\ (q <= 0 => q * TransferSize <= 0 * TransferSize)
      BY <2>1, <3>2, Times
    <3>4. 2 * TransferSize = TransferSize + TransferSize /\ 0 * TransferSize = 0
      BY <2>1
    <3>5. q * TransferSize <= TransferSize /\ TransferSize < q * TransferSize + TransferSize
      BY <3>1, <3>2
    <3>6. ~(2 <= q) /\ ~(q <= 0)
      BY <2>1, <3>3, <3>4, <3>5
    <3> QED
      BY <3>2, <3>6
  <2> QED
    BY <2>2, <2>3 DEF BlockCount
<1>2. Block(<<o>>, 1) = <<o>>
  <2>1. Len(<<o>>) = 1 /\ TransferSize \in Nat \ {0} /\ (1 - 1) * TransferSize + 1 = 1
    BY SizesType
  <2>2. Block(<<o>>, 1) = SubSeq(<<o>>, 1, 1)
    <3>1. (IF 1 * TransferSize < 1 THEN 1 * TransferSize ELSE 1) = 1
      BY <2>1
    <3> QED
      BY <2>1, <3>1 DEF Block
  <2> QED
    BY <2>2
<1>3. Command("write", 1 + 1, Block(<<o>>, 1)) \in OptionWrites(blind)
  BY <1>2 DEF OptionWrites, Command
<1>4. f[1] \in S
  <2>1. f[1] = Download(Command("write", 1 + 1, Block(<<o>>, 1))) \o PollUntilIdle
    OBVIOUS
  <2> HIDE DEF f
  <2> QED
    BY <1>3, <2>1, PlainParts
<1>5. f \in Seq(S)
  <2>1. \A b \in 1..1 : f[b] \in S
    <3> HIDE DEF f, S
    <3> QED
      BY <1>4
  <2>2. f = [b \in 1..1 |-> f[b]]
    OBVIOUS
  <2> HIDE DEF f, S
  <2>3. f \in [1..1 -> S]
    BY <2>1, <2>2
  <2> QED
    BY <2>3, SeqDef
<1>6. FlattenSeq(f) \in S
  <2>1. S \subseteq Seq(PlainItems(blind)) /\ <<>> \in S /\ Closed(S)
    BY EmptySeq, PlainParts DEF Closed
  <2> HIDE DEF f, S
  <2> QED
    BY <1>5, <2>1, FlattenKeeps
<1>7. Blocks(<<o>>) = FlattenSeq(f)
  <2>1. Len(<<o>>) = 1
    OBVIOUS
  <2> QED
    BY <1>1, <2>1 DEF Blocks
<1>8. Alt(1) \in S /\ Alt(1) # <<>> /\ Prepare \in S /\ SetAddressPointer(OptionBytesAt) \in S
  BY PlainParts, OptionBytesAreBeyond
<1>9. Blocks(<<o>>) \in S
  BY <1>6, <1>7
<1>10. \A s, t \in S : s \o t \in S /\ (s # <<>> => s \o t # <<>>)
  BY PlainParts
<1> HIDE DEF S
<1> QED
  BY <1>8, <1>9, <1>10, OptionBytesAreBeyond DEF Write, S

(* A call asks for one item or more. *)
LEMMA CallType ==
    ASSUME NEW I, NEW s \in Seq(I), s # <<>>
    PROVE  /\ Must(s) \in CallsOf(I) /\ May(s) \in CallsOf(I)
           /\ <<Must(s)>> \in Seq(CallsOf(I)) /\ <<May(s)>> \in Seq(CallsOf(I))
<1>1. Must(s) \in CallsOf(I) /\ May(s) \in CallsOf(I)
  BY DEF Must, May, CallsOf
<1> QED
  BY <1>1

(* A sequence is its first element before the others.                       *)
LEMMA HeadThenTail ==
    ASSUME NEW X, NEW s \in Seq(X), s # <<>>
    PROVE  Head(s) \in X /\ Tail(s) \in Seq(X) /\ s = <<Head(s)>> \o Tail(s)
<1>1. PICK x \in X : x = Head(s)
  BY HeadTailProperties
<1>2. PICK t \in Seq(X) : t = Tail(s)
  BY HeadTailProperties
<1>3. Len(t) = Len(s) - 1 /\ (\A i \in 1..Len(t) : t[i] = s[i + 1]) /\ Len(s) \in Nat /\ Len(s) # 0 /\ s[1] = x
  BY <1>1, <1>2, HeadTailProperties, LenProperties, EmptySeq
<1>4. <<x>> \in Seq(X) /\ Len(<<x>>) = 1 /\ <<x>>[1] = x
  BY <1>1
<1>5. PICK u : u = <<x>> \o t
  OBVIOUS
<1>6. u \in Seq(X) /\ Len(u) = Len(s) /\ \A i \in 1..Len(s) : u[i] = IF i <= 1 THEN <<x>>[i] ELSE t[i - 1]
  <2>1. u \in Seq(X) /\ Len(u) = 1 + Len(t) /\ \A i \in 1..1 + Len(t) : u[i] = IF i <= 1 THEN <<x>>[i] ELSE t[i - 1]
    BY <1>4, <1>5, ConcatProperties
  <2>2. 1 + Len(t) = Len(s)
    BY <1>3
  <2> QED
    BY <2>1, <2>2
<1>7. ASSUME NEW i \in 1..Len(s) PROVE u[i] = s[i]
  <2>1. CASE i = 1
    BY <1>3, <1>4, <1>6, <2>1
  <2>2. CASE i # 1
    <3>1. i - 1 \in 1..Len(t) /\ ~(i <= 1) /\ (i - 1) + 1 = i
      BY <1>3, <2>2
    <3>2. u[i] = t[i - 1]
      BY <1>6, <3>1
    <3> QED
      BY <1>3, <3>1, <3>2
  <2> QED
    BY <2>1, <2>2
<1>8. u = s
  BY <1>6, <1>7, SeqEqual
<1> QED
  BY <1>1, <1>2, <1>5, <1>8

(* A todo of a transaction that writes nothing ends with the release, if it *)
(* has one.                                                                 *)
ReleaseCalls == {Must(<<Item("release", 0)>>), May(<<Item("release", 0)>>)}
AnyWork(blind) == PlainWork(blind) \cup ReleaseCalls
(* What a transaction that writes no memory may have left to do: how it begins, how it ends and what it is made of. *)
LEMMA PlainTodo ==
    ASSUME NEW blind, NEW W, W = PlainWork(blind), NEW T, T = PlainTodos(blind), NEW A, A = AnyWork(blind)
    PROVE  /\ \A t \in T : t \in Seq(A)
           /\ <<>> \in T /\ End \in T /\ EndAnyway \in T
           /\ \A s \in Seq(W) : s \in T
           /\ \A s \in Seq(W), t \in T : s \o t \in T
           /\ \A t \in T \ {<<>>} :
                 t \in {End, EndAnyway} \/ (Head(t) \in W /\ Tail(t) \in T)
<1> DEFINE must == Must(<<Item("release", 0)>>)
           may == May(<<Item("release", 0)>>)
<1>1. W \subseteq A /\ must \in A /\ may \in A /\ End = <<must>> /\ EndAnyway = <<may>>
  BY DEF AnyWork, ReleaseCalls, End, EndAnyway
<1>2. \A t : t \in T <=> \E s \in Seq(W) : \E r \in {<<>>, End, EndAnyway} : t = s \o r
  BY DEF PlainTodos
<1> HIDE DEF must, may
<1>3. End \in Seq(A) /\ EndAnyway \in Seq(A) /\ <<>> \in Seq(A) /\ <<>> \in Seq(W)
  BY <1>1, EmptySeq
<1>4. \A s \in Seq(W) : s \in Seq(A)
  BY <1>1, SeqMonotonic
<1>5. ASSUME NEW t \in T PROVE t \in Seq(A)
  <2>1. PICK s \in Seq(W), r \in {<<>>, End, EndAnyway} : t = s \o r
    BY <1>2
  <2>2. s \in Seq(A) /\ r \in Seq(A)
    BY <1>3, <1>4
  <2> QED
    BY <2>1, <2>2, ConcatProperties
<1>6. <<>> \in T /\ End \in T /\ EndAnyway \in T
  <2>1. ASSUME NEW r \in {<<>>, End, EndAnyway} PROVE r \in T
    <3>1. <<>> \o r = r
      BY <1>3, ConcatEmptySeq
    <3> QED
      BY <1>2, <1>3, <3>1
  <2> QED
    BY <2>1
<1>7. ASSUME NEW s \in Seq(W) PROVE s \in T
  <2>1. s \o <<>> = s
    BY ConcatEmptySeq
  <2> QED
    BY <1>2, <2>1
<1>8. ASSUME NEW s \in Seq(W), NEW t \in T PROVE s \o t \in T
  <2>1. PICK u \in Seq(W), r \in {<<>>, End, EndAnyway} : t = u \o r
    BY <1>2
  <2>2. s \in Seq(A) /\ u \in Seq(A) /\ r \in Seq(A)
    BY <1>3, <1>4
  <2>3. s \o (u \o r) = (s \o u) \o r
    BY <2>2, ConcatAssociative
  <2>4. s \o u \in Seq(W)
    BY ConcatProperties
  <2> QED
    BY <1>2, <2>1, <2>3, <2>4
<1>9. ASSUME NEW call \in W, NEW t \in T
      PROVE /\ <<call>> \o t \in T /\ <<call>> \o t # <<>> /\ Head(<<call>> \o t) = call /\ Tail(<<call>> \o t) = t
  <2>1. <<call>> \in Seq(W)
    OBVIOUS
  <2>2. t \in Seq(A) /\ call \in A
    BY <1>1, <1>5
  <2> QED
    BY <1>8, <2>1, <2>2, Prepended
<1>10. ASSUME NEW t \in T, t # <<>>
       PROVE  t \in {End, EndAnyway} \/ (Head(t) \in W /\ Tail(t) \in T)
  <2>1. PICK s \in Seq(W), r \in {<<>>, End, EndAnyway} : t = s \o r
    BY <1>2
  <2>2. CASE s = <<>>
    <3>1. t = r
      BY <1>3, <2>1, <2>2, ConcatEmptySeq
    <3> QED
      BY <1>10, <3>1
  <2>3. CASE s # <<>>
    <3>1. PICK call \in W, u \in Seq(W) : s = <<call>> \o u
      <4>1. Head(s) \in W /\ Tail(s) \in Seq(W) /\ s = <<Head(s)>> \o Tail(s)
        BY <2>3, HeadThenTail
      <4> QED
        BY <4>1
    <3>5. call \in A /\ u \in Seq(A) /\ r \in Seq(A)
      BY <1>1, <1>3, <1>4
    <3>2. <<call>> \in Seq(A) /\ u \in Seq(A) /\ r \in Seq(A)
      BY <3>5
    <3>3. t = <<call>> \o (u \o r)
      BY <2>1, <3>1, <3>2, ConcatAssociative
    <3>4. u \o r \in T
      BY <1>2
    <3> QED
      BY <1>9, <3>3, <3>4
  <2> QED
    BY <2>2, <2>3
<1>11. (\A t \in T : t \in Seq(A)) /\ (\A s \in Seq(W) : s \in T) /\ \A s \in Seq(W), t \in T : s \o t \in T
  BY <1>5, <1>7, <1>8
<1>13. \A t \in T \ {<<>>} :
                 t \in {End, EndAnyway} \/ (Head(t) \in W /\ Tail(t) \in T)
  BY <1>10
<1> QED
  BY <1>6, <1>11, <1>13

(* A call put in front of it makes another such transaction. *)
LEMMA PlainPrepended ==
    ASSUME NEW blind, NEW call \in PlainWork(blind), NEW t \in PlainTodos(blind)
    PROVE  /\ <<call>> \o t \in PlainTodos(blind) /\ <<call>> \o t # <<>>
           /\ Head(<<call>> \o t) = call /\ Tail(<<call>> \o t) = t
<1>1. PICK W, T, A : W = PlainWork(blind) /\ T = PlainTodos(blind) /\ A = AnyWork(blind)
  OBVIOUS
<1>2. t \in Seq(A) /\ \A s \in Seq(W) : s \o t \in T
  BY <1>1, PlainTodo
<1>3. call \in A /\ <<call>> \in Seq(W)
  BY <1>1 DEF AnyWork
<1>4. <<call>> \o t \in T
  BY <1>2, <1>3
<1> QED
  BY <1>1, <1>2, <1>3, <1>4, Prepended

(* The calls such transactions are made of. *)
LEMMA PlainFacts ==
    ASSUME NEW blind \in BOOLEAN
    PROVE  LET S == Seq(PlainWork(blind)) IN
           /\ Begin \in S
           /\ \A what \in {"giveUp", "needed", "setValue", "correct", "startFUS"} : Then(what) \in S
           /\ \A at \in Int : \A n \in {0, 1} : <<May(Upload(at, n))>> \in S
           /\ ReadOptionBytes \in S /\ \A o \in KeptOptions(blind) : WriteOptionBytes(o) \in S
           /\ Leave \in S /\ <<Raw>> \in S
           /\ \A s, t \in S : s \o t \in S
<1> DEFINE I == PlainItems(blind)
           C == PlainWork(blind)
           S == Seq(C)
<1>0. CallsOf(I) \subseteq C /\ LocalCalls \subseteq C
  BY DEF PlainWork
<1>1. \A s, t \in S : s \o t \in S
  <2> HIDE DEF C
  <2> QED
    BY ConcatProperties
<1>2. ASSUME NEW s \in Seq(I), s # <<>> PROVE <<Must(s)>> \in S /\ <<May(s)>> \in S /\ Must(s) \in C /\ May(s) \in C
  <2> HIDE DEF I, C
  <2>1. Must(s) \in C /\ May(s) \in C
    BY <1>0, <1>2, CallType
  <2> QED
    BY <2>1
<1>3. \A what \in {"anyStatus", "mayAbort", "upload"} : <<Item(what, 0)>> \in Seq(I) /\ <<Item(what, 0)>> # <<>>
  BY PlainParts
<1>4. \A what \in {"claim", "giveUp", "needed", "setValue", "correct", "startFUS"} :
         Must(<<Item(what, 0)>>) \in C /\ <<Must(<<Item(what, 0)>>)>> \in S
  <2>1. \A what \in {"claim", "giveUp", "needed", "setValue", "correct", "startFUS"} : Must(<<Item(what, 0)>>) \in C
    BY <1>0 DEF LocalCalls
  <2> HIDE DEF C
  <2> QED
    BY <2>1
<1>5. Begin \in S /\ \A what \in {"giveUp", "needed", "setValue", "correct", "startFUS"} : Then(what) \in S
  BY <1>4 DEF Then, Begin
<1>6. ASSUME NEW at \in Int, NEW n \in {0, 1} PROVE <<May(Upload(at, n))>> \in S
  <2>1. Upload(at, n) \in Seq(I) /\ Upload(at, n) # <<>>
    BY UploadType
  <2> HIDE DEF I
  <2> QED
    BY <1>2, <2>1
<1>7. ReadOptionBytes \in S
  BY <1>6, OptionBytesAreBeyond DEF ReadOptionBytes
<1>8. ASSUME NEW o \in KeptOptions(blind) PROVE WriteOptionBytes(o) \in S
  <2>1. Write(OptionBytesAt, <<o>>, OptionBytesAlt) \in Seq(I) /\ Write(OptionBytesAt, <<o>>, OptionBytesAlt) # <<>>
    BY OptionWriteType
  <2> QED
    BY <1>2, <2>1 DEF WriteOptionBytes
<1>9. Alt(0) \in Seq(I) /\ Alt(0) # <<>> /\ Prepare \in Seq(I) /\ Abort \in Seq(I) /\ PollWhileBusy \in Seq(I)
      /\ \A s, t \in Seq(I) : s \o t \in Seq(I) /\ (s # <<>> => s \o t # <<>>)
  BY PlainParts
<1>10. /\ Download(Command("leave", 0, <<>>)) \in Seq(I) /\ Download(Command("leave", 0, <<>>)) # <<>>
       /\ Download(Command("raw", 0, <<>>)) \in Seq(I)
       /\ SetAddressPointer(OptionBytesAt) \in Seq(I) /\ SetAddressPointer(OptionBytesAt) # <<>>
  <2>1. /\ Command("leave", 0, <<>>) \in Leaves /\ Command("raw", 0, <<>>) \in Raws
        /\ Command("pointer", OptionBytesAt, <<>>) \in Pointers
    BY OptionBytesAreBeyond DEF Command, Leaves, Raws, Pointers
  <2>2. \A command \in Pointers \cup Raws \cup Leaves \cup OptionWrites(blind) : Download(command) \in Seq(I) /\ Download(command) # <<>>
    BY PlainParts
  <2>3. SetAddressPointer(OptionBytesAt) \in Seq(I)
    BY PlainParts, OptionBytesAreBeyond
  <2>4. SetAddressPointer(OptionBytesAt) # <<>>
    <3> HIDE DEF I
    <3> QED
      BY <1>9, <2>1, <2>2 DEF SetAddressPointer
  <2> HIDE DEF I
  <2> QED
    BY <2>1, <2>2, <2>3, <2>4
<1> HIDE DEF I
<1>11. /\ Alt(0) \o Prepare \o Abort \in Seq(I) /\ Alt(0) \o Prepare \o Abort # <<>>
       /\ Alt(0) \o Prepare \o Download(Command("raw", 0, <<>>)) \o PollWhileBusy \in Seq(I)
       /\ Alt(0) \o Prepare \o Download(Command("raw", 0, <<>>)) \o PollWhileBusy # <<>>
  BY <1>9, <1>10
<1>12. <<Raw>> \in S
  BY <1>2, <1>11 DEF Raw, FlashAlt
<1>13. Leave \in S
  <2>1. /\ Must(Alt(0) \o Prepare \o Abort) \in C /\ May(SetAddressPointer(OptionBytesAt)) \in C
        /\ Must(Download(Command("leave", 0, <<>>))) \in C /\ May(<<Item("anyStatus", 0)>>) \in C
    BY <1>2, <1>3, <1>10, <1>11
  <2> HIDE DEF C
  <2> QED
    BY <2>1 DEF Leave, FlashAlt
<1> HIDE DEF S, C
<1> QED
  BY <1>1, <1>5, <1>6, <1>7, <1>8, <1>12, <1>13 DEF S, C, I

KnownTransactions == [kind : TransactionKinds \ {"none"}, elements : Elements]
WritingKinds == {"downloadFirmware", "downloadWirelessStack"}
ClaimCall == Must(<<Item("claim", 0)>>)

(* The calls of a transaction: it claims the interface, and goes on.        *)
LEMMA CallsOfPlain ==
    ASSUME NEW blind \in BOOLEAN, NEW task \in KnownTransactions, task.kind \notin WritingKinds
    PROVE  /\ Calls(task) \in PlainTodos(blind) /\ Tail(Calls(task)) \in PlainTodos(blind)
           /\ Calls(task) # <<>> /\ Head(Calls(task)) = ClaimCall
<1> DEFINE W == PlainWork(blind)
           S == Seq(W)
           T == PlainTodos(blind)
<1>1. /\ \A what \in {"giveUp", "needed", "setValue", "correct", "startFUS"} : Then(what) \in S
      /\ \A at \in Int : \A n \in {0, 1} : <<May(Upload(at, n))>> \in S
      /\ ReadOptionBytes \in S /\ Leave \in S /\ <<Raw>> \in S
      /\ \A s, t \in S : s \o t \in S
  BY PlainFacts
<1>2. <<May(Upload(Origin, FlashAlt)), May(Upload(Origin, FlashAlt))>> \in S
  <2>1. Upload(Origin, FlashAlt) \in Seq(PlainItems(blind)) /\ Upload(Origin, FlashAlt) # <<>>
    BY UploadType, SizesType DEF FlashAlt
  <2>2. May(Upload(Origin, FlashAlt)) \in W
    BY <2>1, CallType DEF PlainWork
  <2> HIDE DEF W
  <2> QED
    BY <2>2
<1>3. <<May(Upload(Origin, FlashAlt))>> \in S
  BY <1>1, SizesType DEF FlashAlt
<1>4. ClaimCall \in W /\ Begin = <<ClaimCall>>
  BY DEF Begin, ClaimCall, PlainWork, LocalCalls
<1>7. End \in T /\ EndAnyway \in T /\ (\A s \in S : s \in T) /\ \A s \in S, t \in T : s \o t \in T
  BY PlainTodo
<1>5. ASSUME NEW s \in T, Calls(task) = Begin \o s
      PROVE  Calls(task) \in T /\ Tail(Calls(task)) \in T /\ Calls(task) # <<>> /\ Head(Calls(task)) = ClaimCall
  <2>1. PICK t : t = Calls(task)
    OBVIOUS
  <2>2. t = <<ClaimCall>> \o s
    BY <1>4, <1>5, <2>1
  <2>3. t \in T /\ Tail(t) = s /\ t # <<>> /\ Head(t) = ClaimCall
    BY <1>4, <2>2, PlainPrepended
  <2> QED
    BY <2>1, <2>3
<1>6. \E s \in T : Calls(task) = Begin \o s
  <2> HIDE DEF S, T, W
  <2>1. CASE task.kind = "invalidFile"
    <3>1. Calls(task) = Begin \o Then("giveUp")
      BY <2>1 DEF Calls
    <3> QED
      BY <1>1, <1>7, <3>1
  <2>2. CASE task.kind \in {"setOSBoot", "setRecoveryBoot"}
    <3>1. Calls(task) = Begin \o (ReadOptionBytes \o Then("setValue"))
      BY <2>2 DEF Calls
    <3> QED
      BY <1>1, <1>7, <3>1
  <2>3. CASE task.kind = "downloadOptionBytes"
    <3>1. Calls(task) = Begin \o (ReadOptionBytes \o Then("correct"))
      BY <2>3 DEF Calls
    <3> QED
      BY <1>1, <1>7, <3>1
  <2>4. CASE task.kind = "exitRecoveryMode"
    <3>1. Calls(task) = Begin \o (Leave \o EndAnyway)
      BY <2>4 DEF Calls
    <3> QED
      BY <1>1, <1>7, <3>1
  <2>5. CASE task.kind = "wirelessStatus"
    <3>1. Calls(task) = Begin \o (<<May(Upload(Origin, FlashAlt))>> \o Then("needed") \o End)
      BY <2>5 DEF Calls
    <3> QED
      BY <1>1, <1>3, <1>7, <3>1
  <2>6. CASE task.kind = "startFUS"
    <3>1. Calls(task) = Begin \o (<<May(Upload(Origin, FlashAlt))>> \o Then("needed") \o Then("startFUS"))
      BY <2>6 DEF Calls
    <3> QED
      BY <1>1, <1>3, <1>7, <3>1
  <2>7. CASE task.kind = "deleteWirelessStack"
    <3>1. Calls(task) = Begin \o (<<Raw>> \o End)
      BY <2>7 DEF Calls
    <3> QED
      BY <1>1, <1>7, <3>1
  <2>8. CASE task.kind = "upgradeWirelessStack"
    <3>1. Calls(task) = Begin \o (<<Raw>> \o EndAnyway)
      BY <2>8 DEF Calls
    <3> QED
      BY <1>1, <1>7, <3>1
  <2>9. CASE task.kind = "checkWirelessStack"
    <3>1. Calls(task) = Begin \o (<<May(Upload(Origin, FlashAlt)), May(Upload(Origin, FlashAlt))>> \o End)
      BY <2>9 DEF Calls
    <3> QED
      BY <1>1, <1>2, <1>7, <3>1
  <2> QED
    BY <2>1, <2>2, <2>3, <2>4, <2>5, <2>6, <2>7, <2>8, <2>9 DEF KnownTransactions, TransactionKinds, WritingKinds
<1> QED
  BY <1>5, <1>6 DEF T

(* A transaction that writes memory claims the interface, and then reads the option bytes or downloads the file. *)
LEMMA CallsOfWriting ==
    ASSUME NEW task \in KnownTransactions, task.kind \in WritingKinds
    PROVE  /\ Calls(task) # <<>> /\ Head(Calls(task)) = ClaimCall
           /\ task.kind = "downloadFirmware" /\ task.elements = <<>> => Tail(Calls(task)) = End
           /\ task.kind = "downloadFirmware" /\ task.elements # <<>> =>
                 Tail(Calls(task)) = DownloadTodo(DownloadFile(task.elements))
           /\ task.kind = "downloadWirelessStack" =>
                 Tail(Calls(task)) = <<May(Upload(OptionBytesAt, OptionBytesAlt))>> \o Then("place")
<1>1. ASSUME NEW W, ClaimCall \in W, NEW s \in Seq(W), Calls(task) = Begin \o s
      PROVE  Calls(task) # <<>> /\ Head(Calls(task)) = ClaimCall /\ Tail(Calls(task)) = s
  <2>1. Begin = <<ClaimCall>>
    BY DEF Begin, ClaimCall
  <2> QED
    BY <1>1, <2>1, Prepended
<1>2. CASE task.kind = "downloadWirelessStack"
  <2> DEFINE s == <<May(Upload(OptionBytesAt, OptionBytesAlt))>> \o Then("place")
             W == PlainWork(TRUE) \cup {Must(<<Item("place", 0)>>)}
  <2>1. Calls(task) = Begin \o s
    BY <1>2 DEF Calls, ReadOptionBytes
  <2>2. ClaimCall \in W
    BY DEF ClaimCall, PlainWork, LocalCalls
  <2>3. s \in Seq(W)
    <3>1. ReadOptionBytes \in Seq(W)
      <4>1. ReadOptionBytes \in Seq(PlainWork(TRUE)) /\ PlainWork(TRUE) \subseteq W
        BY PlainFacts
      <4> HIDE DEF W
      <4> QED
        BY <4>1, SeqMonotonic
    <3>2. Must(<<Item("place", 0)>>) \in W
      OBVIOUS
    <3> HIDE DEF W
    <3>3. Then("place") \in Seq(W)
      BY <3>2 DEF Then
    <3> QED
      BY <3>1, <3>3, ConcatProperties DEF ReadOptionBytes
  <2> HIDE DEF s, W
  <2>4. Calls(task) # <<>> /\ Head(Calls(task)) = ClaimCall /\ Tail(Calls(task)) = s
    BY <1>1, <2>1, <2>2, <2>3
  <2> QED
    BY <1>2, <2>4 DEF s
<1>3. CASE task.kind = "downloadFirmware"
  <2> DEFINE e == task.elements
             I == MemoryItems(e) \cup {Item("claim", 0), Item("release", 0)}
             W == CallsOf(I)
  <2>1. e \in Elements
    BY DEF KnownTransactions
  <2>2. <<Item("claim", 0)>> \in Seq(I) /\ <<Item("release", 0)>> \in Seq(I) /\ <<Item("release", 0)>> # <<>>
    <3>1. Item("claim", 0) \in I /\ Item("release", 0) \in I
      OBVIOUS
    <3> HIDE DEF I
    <3> QED
      BY <3>1
  <2>6. MemoryItems(e) \subseteq I
    OBVIOUS
  <2> HIDE DEF I
  <2>7. ClaimCall \in W
    BY <2>2, CallType DEF ClaimCall
  <2>3. End \in Seq(CallsOf(I))
    BY <2>2, CallType DEF End
  <2>4. CASE e = <<>>
    <3>1. Calls(task) = Begin \o End
      <4>1. <<>> \o End = End
        BY <2>3, ConcatEmptySeq
      <4> QED
        BY <1>3, <2>4, <4>1 DEF Calls
    <3>2. Calls(task) # <<>> /\ Head(Calls(task)) = ClaimCall /\ Tail(Calls(task)) = End
      BY <1>1, <2>3, <2>7, <3>1
    <3> QED
      BY <1>3, <2>4, <3>2
  <2>5. CASE e # <<>>
    <3>1. Calls(task) = Begin \o DownloadTodo(DownloadFile(e))
      BY <1>3, <2>5 DEF Calls, DownloadTodo
    <3>2. DownloadFile(e) \in Seq(I) /\ DownloadFile(e) # <<>>
      <4>1. DownloadFile(e) \in Seq(MemoryItems(e)) /\ DownloadFile(e) # <<>>
        BY <2>1, <2>5, FileWhole DEF Whole
      <4> QED
        BY <2>6, <4>1, SeqMonotonic
    <3>3. DownloadTodo(DownloadFile(e)) \in Seq(CallsOf(I))
      <4>1. <<Must(DownloadFile(e))>> \in Seq(CallsOf(I))
        BY <3>2, CallType
      <4> QED
        BY <2>3, <4>1, ConcatProperties DEF DownloadTodo
    <3>4. Calls(task) # <<>> /\ Head(Calls(task)) = ClaimCall /\ Tail(Calls(task)) = DownloadTodo(DownloadFile(e))
      BY <1>1, <2>7, <3>1, <3>3
    <3> QED
      BY <1>3, <2>5, <3>4
  <2> QED
    BY <2>4, <2>5
<1> QED
  BY <1>2, <1>3 DEF WritingKinds

DeviceFields == {"state", "alt", "pointer", "cmd", "memory", "options"}
Status == {"prepare", "isIdle", "poll", "anyStatus"}
Transfers == Status \cup {"alt", "descriptor", "dnload", "upload", "abort", "mayAbort", "clear"}
Accepted(d, item) ==
    [d EXCEPT !.cmd = item.arg, !.state = IF item.arg.cmd = "leave" THEN "manifestSync" ELSE "dnloadSync"]

(* What a request can do to a device, whether or not it is answered.         *)
Shifts(d, item, x) == \E mode \in DeviceStates :
    /\ x = [d EXCEPT !.state = mode]
    /\ mode \in {"dnloadSync", "dnloadBusy"} => Pending(d)
    /\ item.asks \in {"dnload", "poll"} => mode \in {"error", "gone", "dnloadBusy"}
Outcome(d, item, x) ==
    \/ x = d
    \/ Shifts(d, item, x)
    \/ item.asks = "alt" /\ x = [d EXCEPT !.alt = item.arg]
    \/ item.asks = "dnload" /\ d.state \in {"idle", "dnloadIdle"} /\ x = Accepted(d, item)
    \/ item.asks \in Status /\ d.state = "dnloadBusy" /\ x = Executed(d)

(* What its answer tells.                                                    *)
Told(d, item, x, says) ==
    says # "nothing" =>
        /\ item.asks = "alt" => x = [d EXCEPT !.alt = item.arg]
        /\ item.asks = "dnload" => d.state \in {"idle", "dnloadIdle"} /\ x = Accepted(d, item)
        /\ item.asks = "upload" => x = [d EXCEPT !.state = "uploadIdle"]
        /\ item.asks = "poll" /\ says \notin {"error", "dnloadBusy"} =>
              /\ says = x.state
              /\ \/ d.state = "dnloadBusy" /\ x = Executed(d)
                 \/ d.state \in {"idle", "dnloadIdle", "uploadIdle"} /\ x = d

(* Being asked for its status a device carries out what it is busy with, or goes on. *)
LEMMA StatusOutcome ==
    ASSUME NEW d, d.state \in DeviceStates, DOMAIN d = DeviceFields, d.state # "gone",
           NEW item, item.asks \in Status, NEW r \in GetStatus(d)
    PROVE  Outcome(d, item, r.dev) /\ Told(d, item, r.dev, r.says)
<1>1. CASE d.state = "dnloadSync"
  <2>1. r = Says([d EXCEPT !.state = "dnloadBusy"])
    BY <1>1 DEF GetStatus
  <2>2. r.dev = [d EXCEPT !.state = "dnloadBusy"] /\ r.says = "dnloadBusy"
    BY <2>1 DEF Says, Answer, DeviceFields
  <2>3. Shifts(d, item, r.dev)
    BY <1>1, <2>2 DEF Shifts, DeviceStates, Pending
  <2> QED
    BY <2>2, <2>3 DEF Outcome, Told, Status
<1>2. CASE d.state = "dnloadBusy"
  <2>1. r = Says(d) \/ r = Says(Executed(d))
    BY <1>2 DEF GetStatus
  <2>2. CASE r = Says(d)
    BY <1>2, <2>2 DEF Says, Answer, Outcome, Told, Status
  <2>3. CASE r = Says(Executed(d))
    <3>1. r.dev = Executed(d) /\ r.says = Executed(d).state
      BY <2>3 DEF Says, Answer
    <3> QED
      BY <1>2, <3>1 DEF Outcome, Told, Status
  <2> QED
    BY <2>1, <2>2, <2>3
<1>3. CASE d.state = "manifestSync"
  <2>1. r.dev = [d EXCEPT !.state = "gone"] /\ r.says = "nothing"
    BY <1>3 DEF GetStatus, Answer
  <2>2. Shifts(d, item, r.dev)
    BY <2>1 DEF Shifts, DeviceStates
  <2> QED
    BY <2>1, <2>2 DEF Outcome, Told
<1>4. CASE d.state \in {"idle", "dnloadIdle", "uploadIdle", "error"}
  <2>1. r.dev = d /\ r.says = d.state
    BY <1>4 DEF GetStatus, Says, Answer
  <2> QED
    BY <1>4, <2>1 DEF Outcome, Told, Status
<1> QED
  BY <1>1, <1>2, <1>3, <1>4 DEF DeviceStates

(* Nothing else than what is listed becomes of a device that answers a request. *)
LEMMA ResponseOutcome ==
    ASSUME NEW d, d.state \in DeviceStates, DOMAIN d = DeviceFields,
           NEW item, item.asks \in Transfers, NEW r \in Responses(d, item)
    PROVE  Outcome(d, item, r.dev) /\ Told(d, item, r.dev, r.says)
<1>1. CASE d.state = "gone"
  <2>0. r \in {Answer(d, "nothing")}
    BY <1>1 DEF Responses
  <2>1. r.dev = d /\ r.says = "nothing"
    BY <2>0 DEF Answer
  <2> QED
    BY <2>1 DEF Outcome, Told
<1>2. CASE d.state # "gone" /\ item.asks \in Status
  <2>1. r \in GetStatus(d)
    BY <1>2 DEF Responses, Status
  <2> QED
    BY <1>2, <2>1, StatusOutcome
<1>3. CASE d.state # "gone" /\ item.asks = "alt"
  <2>1. r.dev = [d EXCEPT !.alt = item.arg] /\ r.says = "ok"
    BY <1>3 DEF Responses, Answer
  <2> QED
    BY <1>3, <2>1 DEF Outcome, Told
<1>4. CASE d.state # "gone" /\ item.asks = "descriptor"
  <2>1. r.dev = d /\ r.says = "ok"
    BY <1>4 DEF Responses, Answer
  <2> QED
    BY <1>4, <2>1 DEF Outcome, Told
<1>5. ASSUME r \in Stalls(d) PROVE Outcome(d, item, r.dev) /\ Told(d, item, r.dev, r.says)
  <2>1. r.dev = [d EXCEPT !.state = "error"] /\ r.says = "nothing"
    BY <1>5 DEF Stalls, Answer
  <2>2. Shifts(d, item, r.dev)
    BY <2>1 DEF Shifts, DeviceStates
  <2> QED
    BY <2>1, <2>2 DEF Outcome, Told
<1>6. ASSUME NEW mode \in {"idle", "uploadIdle"}, r \in Moves(d, mode), item.asks \in {"upload", "abort", "mayAbort", "clear"},
             item.asks = "upload" => mode = "uploadIdle"
      PROVE  Outcome(d, item, r.dev) /\ Told(d, item, r.dev, r.says)
  <2>1. r.dev = [d EXCEPT !.state = mode] /\ r.says = "ok"
    BY <1>6 DEF Moves, Answer
  <2>2. Shifts(d, item, r.dev)
    BY <1>6, <2>1 DEF Shifts, DeviceStates
  <2> QED
    BY <1>6, <2>1, <2>2 DEF Outcome, Told
<1>7. CASE d.state # "gone" /\ item.asks = "dnload"
  <2>1. CASE d.state \in {"idle", "dnloadIdle"}
    <3>1. r \in Moves([d EXCEPT !.cmd = item.arg], IF item.arg.cmd = "leave" THEN "manifestSync" ELSE "dnloadSync")
      BY <1>7, <2>1 DEF Responses
    <3>2. r.dev = Accepted(d, item) /\ r.says = "ok"
      BY <3>1 DEF Moves, Answer, Accepted, DeviceFields
    <3> QED
      BY <1>7, <2>1, <3>2 DEF Outcome, Told
  <2>2. CASE d.state \notin {"idle", "dnloadIdle"}
    <3>1. r \in Stalls(d)
      BY <1>7, <2>2 DEF Responses
    <3> QED
      BY <1>5, <3>1
  <2> QED
    BY <2>1, <2>2
<1>8. CASE d.state # "gone" /\ item.asks = "upload"
  <2>1. r \in Moves(d, "uploadIdle") \/ r \in Stalls(d)
    BY <1>8 DEF Responses
  <2> QED
    BY <1>5, <1>6, <1>8, <2>1
<1>9. CASE d.state # "gone" /\ item.asks \in {"abort", "mayAbort"}
  <2>1. r \in Moves(d, "idle") \/ r \in Stalls(d)
    BY <1>9 DEF Responses
  <2> QED
    BY <1>5, <1>6, <1>9, <2>1
<1>10. CASE d.state # "gone" /\ item.asks = "clear"
  <2>1. r \in Moves(d, "idle") \/ r \in Stalls(d)
    BY <1>10 DEF Responses
  <2> QED
    BY <1>5, <1>6, <1>10, <2>1
<1> QED
  BY <1>1, <1>2, <1>3, <1>4, <1>7, <1>8, <1>9, <1>10 DEF Transfers

(* Nor of one that does not, or that fails. *)
LEMMA AnyOutcome ==
    ASSUME NEW d, d.state \in DeviceStates, DOMAIN d = DeviceFields,
           NEW item, item.asks \in Transfers, NEW r \in Responses(d, item) \cup Faults(d, item)
    PROVE  Outcome(d, item, r.dev) /\ Told(d, item, r.dev, r.says)
<1>1. CASE r \in Responses(d, item)
  BY <1>1, ResponseOutcome
<1>2. CASE r \in Faults(d, item)
  <2>1. CASE r = Answer(d, "nothing")
    BY <2>1 DEF Answer, Outcome, Told
  <2>2. CASE r = Answer([d EXCEPT !.state = "gone"], "nothing")
    <3>1. r.dev = [d EXCEPT !.state = "gone"] /\ r.says = "nothing"
      BY <2>2 DEF Answer
    <3>2. Shifts(d, item, r.dev)
      BY <3>1 DEF Shifts, DeviceStates
    <3> QED
      BY <3>1, <3>2 DEF Outcome, Told
  <2>3. CASE r \in {Answer(q.dev, "nothing") : q \in Responses(d, item)}
    <3>1. PICK q \in Responses(d, item) : r = Answer(q.dev, "nothing")
      BY <2>3
    <3>2. r.dev = q.dev /\ r.says = "nothing"
      BY <3>1 DEF Answer
    <3>3. Outcome(d, item, q.dev)
      BY ResponseOutcome
    <3> QED
      BY <3>2, <3>3 DEF Told
  <2>4. CASE d.state = "dnloadBusy" /\ item.asks = "poll" /\ r = Says([d EXCEPT !.state = "error"])
    <3>1. r.dev = [d EXCEPT !.state = "error"] /\ r.says = "error"
      BY <2>4 DEF Says, Answer, DeviceFields
    <3>2. Shifts(d, item, r.dev)
      BY <3>1 DEF Shifts, DeviceStates
    <3> QED
      BY <2>4, <3>1, <3>2 DEF Outcome, Told
  <2> QED
    BY <1>2, <2>1, <2>2, <2>3, <2>4 DEF Faults
<1> QED
  BY <1>1, <1>2

-----------------------------------------------------------------------------
(* What a command does when it is carried out.                               *)

Keeps(d, x, fields) == DOMAIN x = DOMAIN d /\ \A f \in fields : x[f] = d[f]

(* Carrying out a command that writes nothing leaves memory and option bytes alone. *)
LEMMA ExecutedPlain ==
    ASSUME NEW d, DOMAIN d = DeviceFields, d.cmd \in Pointers \cup Raws
    PROVE  /\ Keeps(d, Executed(d), {"alt", "cmd", "memory", "options"}) /\ Executed(d).state = "dnloadIdle"
           /\ Executed(d).pointer = IF d.cmd.cmd = "pointer" THEN d.cmd.at ELSE d.pointer
<1>1. CASE d.cmd \in Pointers
  <2>1. d.cmd.cmd = "pointer"
    BY <1>1 DEF Pointers
  <2>2. Executed(d) = [[d EXCEPT !.state = "dnloadIdle"] EXCEPT !.pointer = d.cmd.at]
    BY <2>1 DEF Executed
  <2> QED
    BY <2>1, <2>2 DEF Keeps, DeviceFields
<1>2. CASE d.cmd \in Raws
  <2>1. d.cmd.cmd = "raw"
    BY <1>2 DEF Raws
  <2>2. Executed(d) = [d EXCEPT !.state = "dnloadIdle"]
    BY <2>1 DEF Executed
  <2> QED
    BY <2>1, <2>2 DEF Keeps, DeviceFields
<1> QED
  BY <1>1, <1>2

(* Carrying out an erasure alters one page at most. *)
LEMMA ExecutedErasure ==
    ASSUME NEW d, DOMAIN d = DeviceFields, d.cmd.cmd = "erase"
    PROVE  /\ Keeps(d, Executed(d), {"alt", "cmd", "pointer", "options"}) /\ Executed(d).state \in {"dnloadIdle", "error"}
           /\ \A a \in Addresses : \/ Executed(d).memory[a] = d.memory[a]
                                   \/ d.cmd.at \in Addresses /\ PageOf(a) = PageOf(d.cmd.at)
<1>1. CASE d.cmd.at \in Addresses
  <2> DEFINE m == [a \in Addresses |-> IF PageOf(a) = PageOf(d.cmd.at) THEN Erased ELSE d.memory[a]]
  <2>1. Executed(d) = [[d EXCEPT !.state = "dnloadIdle"] EXCEPT !.memory = m]
    BY <1>1 DEF Executed, DeviceFields
  <2>2. \A a \in Addresses : m[a] = d.memory[a] \/ PageOf(a) = PageOf(d.cmd.at)
    OBVIOUS
  <2> HIDE DEF m
  <2> QED
    BY <1>1, <2>1, <2>2 DEF Keeps, DeviceFields
<1>2. CASE d.cmd.at \notin Addresses
  <2>1. Executed(d) = [d EXCEPT !.state = "error"]
    BY <1>2 DEF Executed
  <2> QED
    BY <2>1 DEF Keeps, DeviceFields
<1> QED
  BY <1>1, <1>2

(* Writing the option bytes alters nothing else, and restarts the device. *)
LEMMA ExecutedOptions ==
    ASSUME NEW d, DOMAIN d = DeviceFields, d.cmd.cmd = "write", d.alt = OptionBytesAlt
    PROVE  /\ Keeps(d, Executed(d), {"alt", "cmd", "pointer", "memory"}) /\ Executed(d).state = "gone"
           /\ Executed(d).options = Head(d.cmd.data)
<1>1. Executed(d) = [d EXCEPT !.state = "gone", !.options = Head(d.cmd.data)]
  <2>1. d.alt # FlashAlt
    BY DEF FlashAlt, OptionBytesAlt
  <2> QED
    BY <2>1 DEF Executed
<1> QED
  BY <1>1 DEF Keeps, DeviceFields

Target(d) == d.pointer + (d.cmd.at - 2) * TransferSize
(* Writing a block alters its cells only, which have to be erased, or nothing at all. *)
LEMMA ExecutedWrite ==
    ASSUME NEW d, DOMAIN d = DeviceFields, d.cmd.cmd = "write", d.alt = FlashAlt
    PROVE  LET at == Target(d)
               n == Len(d.cmd.data)
               x == Executed(d) IN
           /\ Keeps(d, x, {"alt", "cmd", "pointer", "options"})
           /\ \/ x.state = "error" /\ x.memory = d.memory
              \/ /\ x.state = "dnloadIdle" /\ InMemory(at, n)
                 /\ \A a \in at..at + n - 1 : d.memory[a] = Erased
                 /\ \A a \in Addresses : x.memory[a] = IF a \in at..at + n - 1 THEN d.cmd.data[a - at + 1] ELSE d.memory[a]
<1> DEFINE at == Target(d)
           n == Len(d.cmd.data)
           cells == at..at + n - 1
           m == [a \in Addresses |-> IF a \in cells THEN d.cmd.data[a - at + 1] ELSE d.memory[a]]
<1>0. d.alt # OptionBytesAlt
  BY DEF FlashAlt, OptionBytesAlt
<1>1. CASE InMemory(at, n) /\ \A a \in cells : d.memory[a] = Erased
  <2>1. Executed(d) = [[d EXCEPT !.state = "dnloadIdle"] EXCEPT !.memory = m]
    BY <1>0, <1>1 DEF Executed, Target, DeviceFields
  <2>2. \A a \in Addresses : m[a] = IF a \in cells THEN d.cmd.data[a - at + 1] ELSE d.memory[a]
    OBVIOUS
  <2> HIDE DEF m
  <2> QED
    BY <1>1, <2>1, <2>2 DEF Keeps, DeviceFields
<1>2. CASE ~(InMemory(at, n) /\ \A a \in cells : d.memory[a] = Erased)
  <2>1. Executed(d) = [d EXCEPT !.state = "error"]
    BY <1>0, <1>2 DEF Executed, Target
  <2> QED
    BY <2>1 DEF Keeps, DeviceFields
<1> QED
  BY <1>1, <1>2

HostFields == {"job", "todo", "tries", "read", "result", "blind"}
First(todo) == Head(Head(todo).items)
Swapped(todo, p) ==
    IF p \o Tail(Head(todo).items) = <<>> THEN Tail(todo)
    ELSE <<[items |-> p \o Tail(Head(todo).items), must |-> Head(todo).must]>> \o Tail(todo)
Detours == {<<>>, <<Item("clear", 0)>>, <<Item("anyStatus", 0)>>, Abort}

(* What the host makes of an answer, or of none.                             *)
Resulted(h, x) == x.result = IF x.todo = <<>> /\ h.result = "running" THEN "ok" ELSE h.result
SameJob(h, x) == x.job = h.job /\ x.blind = h.blind /\ DOMAIN x = HostFields
Stays(h, x) == SameJob(h, x) /\ x.todo = h.todo /\ x.read = h.read /\ x.result = h.result
GivesUp(h, x) ==
    /\ SameJob(h, x) /\ x.read = h.read
    /\ IF Head(h.todo).must
       THEN x.todo = (IF EndsAnyway(h.job.kind) THEN EndAnyway ELSE <<>>) /\ x.result = "failed"
       ELSE x.todo = Tail(h.todo) /\ Resulted(h, x)
MovesOn(h, x, item, says, p, options) ==
    /\ SameJob(h, x) /\ x.todo = Swapped(h.todo, p) /\ Resulted(h, x)
    /\ x.read = IF item.asks = "upload" THEN options ELSE h.read
    /\ p # <<>> => item.asks \in {"prepare", "mayAbort"}
    /\ item.asks \notin {"prepare", "mayAbort", "anyStatus"} => says # "nothing"
    /\ item.asks = "poll" => says \notin {"error", "dnloadBusy"}
HostStep(h, x, item, says, options) ==
    \/ Stays(h, x)
    \/ GivesUp(h, x)
    \/ \E p \in Detours : MovesOn(h, x, item, says, p, options)

(* The first call, and the first thing it asks for. *)
LEMMA HeadOfCalls ==
    ASSUME NEW I, NEW todo \in Seq(CallsOf(I)), todo # <<>>
    PROVE  /\ Head(todo) \in CallsOf(I) /\ Tail(todo) \in Seq(CallsOf(I))
           /\ Head(todo).items \in Seq(I) /\ Head(todo).items # <<>> /\ Head(todo).must \in BOOLEAN
           /\ Head(todo) = [items |-> Head(todo).items, must |-> Head(todo).must]
           /\ First(todo) \in I /\ First(todo) = Head(todo).items[1]
           /\ 1 \in DOMAIN Head(todo).items
           /\ Tail(Head(todo).items) \in Seq(I)
<1>1. Head(todo) \in CallsOf(I) /\ Tail(todo) \in Seq(CallsOf(I))
  BY HeadTailProperties
<1>2. PICK s, b : s = Head(todo).items /\ b = Head(todo).must /\ s \in Seq(I) /\ s # <<>> /\ b \in BOOLEAN
                  /\ Head(todo) = [items |-> s, must |-> b]
  BY <1>1 DEF CallsOf
<1>3. Head(s) \in I /\ Head(s) = s[1] /\ Tail(s) \in Seq(I) /\ 1 \in DOMAIN s
  <2>1. Head(s) \in I /\ Tail(s) \in Seq(I)
    BY <1>2, HeadTailProperties
  <2>2. Len(s) \in Nat \ {0} /\ DOMAIN s = 1..Len(s)
    BY <1>2, EmptySeq, LenProperties
  <2> QED
    BY <1>2, <2>1, <2>2
<1> QED
  BY <1>1, <1>2, <1>3 DEF First

(* Going on drops the item that is due, and may put others in its place. *)
LEMMA RestSwaps ==
    ASSUME NEW I, host.todo \in Seq(CallsOf(I)), host.todo # <<>>
    PROVE  /\ Rest = Swapped(host.todo, <<>>)
           /\ \A p \in Detours : p # <<>> => Instead(p) = Swapped(host.todo, p)
<1>1. PICK todo, s, b, t :
          /\ todo = host.todo /\ todo # <<>> /\ s = Head(todo).items /\ b = Head(todo).must /\ t = Tail(s)
          /\ s \in Seq(I) /\ s # <<>> /\ t \in Seq(I) /\ Head(todo) = [items |-> s, must |-> b]
  <2>1. PICK todo : todo = host.todo /\ todo \in Seq(CallsOf(I)) /\ todo # <<>>
    OBVIOUS
  <2>2. /\ Head(todo).items \in Seq(I) /\ Head(todo).items # <<>> /\ Tail(Head(todo).items) \in Seq(I)
        /\ Head(todo) = [items |-> Head(todo).items, must |-> Head(todo).must]
    BY <2>1, HeadOfCalls
  <2> QED
    BY <2>1, <2>2
<1>2. ASSUME NEW p PROVE Instead(p) = <<[items |-> p \o t, must |-> b]>> \o Tail(todo)
  <2>1. Instead(p) = <<[Head(todo) EXCEPT !.items = p \o t]>> \o Tail(todo)
    <3>1. Instead(p) = <<[Head(todo) EXCEPT !.items = p \o Tail(Head(todo).items)]>> \o Tail(todo)
      BY <1>1 DEF Instead
    <3> QED
      BY <1>1, <3>1
  <2>2. PICK y, u : y = Head(todo) /\ u = p \o t /\ y = [items |-> s, must |-> b]
    BY <1>1
  <2>3. [y EXCEPT !.items = u] = [items |-> u, must |-> b]
    <3>1. [[items |-> s, must |-> b] EXCEPT !.items = u] = [items |-> u, must |-> b]
      OBVIOUS
    <3>2. y = [items |-> s, must |-> b]
      BY <2>2
    <3> QED
      BY <3>1, <3>2, Zenon
  <2> QED
    BY <2>1, <2>2, <2>3
<1>3. ASSUME NEW p \in Detours, p # <<>> PROVE p \o t # <<>>
  <2>1. p \in Seq(Questions) /\ t \in Seq(I \cup Questions)
    <3>1. Item("clear", 0) \in Questions /\ Item("anyStatus", 0) \in Questions /\ Item("abort", 0) \in Questions
          /\ Item("isIdle", 0) \in Questions
      BY DEF Questions, Item
    <3>0. \A y, z \in Questions : <<y>> \in Seq(Questions) /\ <<y, z>> \in Seq(Questions) /\ <<>> \in Seq(Questions)
      OBVIOUS
    <3>2. p \in Seq(Questions)
      BY <3>0, <3>1 DEF Detours, Abort
    <3> QED
      BY <1>1, <3>2, SeqMonotonic
  <2>2. p \in Seq(I \cup Questions)
    BY <2>1, SeqMonotonic
  <2> QED
    BY <1>3, <2>1, <2>2, ConcatEqualIffEmpty
<1>4. <<>> \o t = t
  BY <1>1, ConcatEmptySeq
<1>5. Len(s) = 1 <=> t = <<>>
  <2>1. Len(s) \in Nat \ {0} /\ Len(t) = Len(s) - 1
    BY <1>1, EmptySeq, HeadTailProperties
  <2>2. t = <<>> <=> Len(t) = 0
    BY <1>1, EmptySeq
  <2> QED
    BY <2>1, <2>2
<1>6. Rest = Swapped(host.todo, <<>>)
  <2>1. Rest = IF Len(s) = 1 THEN Tail(todo) ELSE Instead(<<>>)
    BY <1>1 DEF Rest
  <2>2. Swapped(host.todo, <<>>) = IF <<>> \o t = <<>> THEN Tail(todo) ELSE <<[items |-> <<>> \o t, must |-> b]>> \o Tail(todo)
    BY <1>1 DEF Swapped
  <2> QED
    BY <1>2, <1>4, <1>5, <2>1, <2>2
<1>7. ASSUME NEW p \in Detours, p # <<>> PROVE Instead(p) = Swapped(host.todo, p)
  <2>1. Swapped(host.todo, p) = IF p \o t = <<>> THEN Tail(todo) ELSE <<[items |-> p \o t, must |-> b]>> \o Tail(todo)
    BY <1>1 DEF Swapped
  <2> QED
    BY <1>2, <1>3, <1>7, <2>1
<1> QED
  BY <1>6, <1>7

(* After an answer the host tries again, gives the call up, or goes on. *)
LEMMA HostMoves ==
    ASSUME NEW I, host.todo \in Seq(CallsOf(I)), host.todo # <<>>, DOMAIN host = HostFields,
           Due.asks \in Transfers, Due.asks = "poll" => "dnloadBusy" \in Due.arg,
           NEW says, NEW x, x = [host EXCEPT !.tries = @ + 1] \/ x = After(says)
    PROVE  HostStep(host, x, Due, says, device.options)
<1>1. ASSUME NEW n, x = [host EXCEPT !.tries = n] PROVE HostStep(host, x, Due, says, device.options)
  <2>1. Stays(host, x)
    BY <1>1 DEF Stays, SameJob, HostFields
  <2> QED
    BY <2>1 DEF HostStep
<1>2. ASSUME NEW todo, NEW y, y = Proceed(todo)
      PROVE  SameJob(host, y) /\ y.todo = todo /\ Resulted(host, y) /\ y.read = host.read
  BY <1>2 DEF Proceed, SameJob, HostFields, Resulted
<1>3. ASSUME x = CallFails PROVE HostStep(host, x, Due, says, device.options)
  <2>1. GivesUp(host, x)
    <3>1. CASE Head(host.todo).must
      BY <1>3, <3>1 DEF CallFails, GivesUp, SameJob, HostFields
    <3>2. CASE ~Head(host.todo).must
      <4>1. x = Proceed(Tail(host.todo))
        BY <1>3, <3>2 DEF CallFails
      <4> QED
        BY <1>2, <3>2, <4>1 DEF GivesUp
    <3> QED
      BY <3>1, <3>2
  <2> QED
    BY <2>1 DEF HostStep
<1>4. ASSUME NEW p \in Detours, x = Proceed(Swapped(host.todo, p)), Due.asks # "upload",
             p # <<>> => Due.asks \in {"prepare", "mayAbort"},
             Due.asks \notin {"prepare", "mayAbort", "anyStatus"} => says # "nothing",
             Due.asks = "poll" => says \notin {"error", "dnloadBusy"}
      PROVE  HostStep(host, x, Due, says, device.options)
  <2>1. MovesOn(host, x, Due, says, p, device.options)
    BY <1>2, <1>4 DEF MovesOn
  <2> QED
    BY <2>1 DEF HostStep
<1>5. /\ Rest = Swapped(host.todo, <<>>) /\ Instead(<<Item("clear", 0)>>) = Swapped(host.todo, <<Item("clear", 0)>>)
      /\ Instead(<<Item("anyStatus", 0)>>) = Swapped(host.todo, <<Item("anyStatus", 0)>>) /\ Instead(Abort) = Swapped(host.todo, Abort)
      /\ {<<>>, <<Item("clear", 0)>>, <<Item("anyStatus", 0)>>, Abort} \subseteq Detours
  <2>1. <<Item("clear", 0)>> # <<>> /\ <<Item("anyStatus", 0)>> # <<>> /\ Abort # <<>>
    BY DEF Abort
  <2> QED
    BY <2>1, RestSwaps DEF Detours
<1>6. CASE x = [host EXCEPT !.tries = @ + 1]
  <2>1. x = [host EXCEPT !.tries = host.tries + 1]
    BY <1>6
  <2> QED
    BY <1>1, <2>1
<1>7. CASE x = After(says)
  <2>1. CASE Due.asks = "prepare"
    <3>1. x = Proceed(AfterPrepare(says))
      BY <1>7, <2>1 DEF After
    <3>2. AfterPrepare(says) \in {Instead(<<Item("clear", 0)>>), Rest, Instead(Abort)}
      <4>1. CASE says \in {"nothing", "error"}
        BY <4>1 DEF AfterPrepare
      <4>2. CASE says = "idle"
        BY <4>2 DEF AfterPrepare
      <4>3. CASE says \notin {"nothing", "error", "idle"}
        BY <4>3 DEF AfterPrepare
      <4> QED
        BY <4>1, <4>2, <4>3
    <3>3. PICK p \in Detours : AfterPrepare(says) = Swapped(host.todo, p)
      BY <1>5, <3>2
    <3> QED
      BY <1>4, <2>1, <3>1, <3>3
  <2>2. CASE Due.asks = "isIdle"
    <3>1. (x = Proceed(Swapped(host.todo, <<>>)) /\ says = "idle") \/ x = CallFails
      BY <1>5, <1>7, <2>2 DEF After
    <3> QED
      BY <1>3, <1>4, <1>5, <2>2, <3>1
  <2>3. CASE Due.asks = "mayAbort"
    <3>1. x = Proceed(Rest) \/ x = Proceed(Instead(<<Item("anyStatus", 0)>>))
      BY <1>7, <2>3 DEF After
    <3>2. \E p \in Detours : x = Proceed(Swapped(host.todo, p))
      BY <1>5, <3>1
    <3> QED
      BY <1>4, <2>3, <3>2
  <2>4. CASE Due.asks = "anyStatus"
    <3>1. x = Proceed(Swapped(host.todo, <<>>))
      BY <1>5, <1>7, <2>4 DEF After
    <3> QED
      BY <1>4, <1>5, <2>4, <3>1
  <2>5. CASE Due.asks = "poll"
    <3>1. \/ x = CallFails
          \/ x = [host EXCEPT !.tries = 0]
          \/ x = Proceed(Swapped(host.todo, <<>>)) /\ says \notin {"nothing", "error"} /\ says \notin Due.arg
      BY <1>5, <1>7, <2>5 DEF After
    <3>2. says \notin Due.arg => says # "dnloadBusy"
      BY <2>5
    <3>3. CASE x = Proceed(Swapped(host.todo, <<>>)) /\ says \notin {"nothing", "error"} /\ says \notin Due.arg
      BY <1>4, <1>5, <2>5, <3>2, <3>3
    <3> QED
      BY <1>1, <1>3, <3>1, <3>3
  <2>6. CASE Due.asks = "upload"
    <3>1. x = CallFails \/ (says # "nothing" /\ x = [Proceed(Swapped(host.todo, <<>>)) EXCEPT !.read = device.options])
      BY <1>5, <1>7, <2>6 DEF After
    <3>2. CASE says # "nothing" /\ x = [Proceed(Swapped(host.todo, <<>>)) EXCEPT !.read = device.options]
      <4>1. PICK y : y = Proceed(Swapped(host.todo, <<>>))
        OBVIOUS
      <4>2. SameJob(host, y) /\ y.todo = Swapped(host.todo, <<>>) /\ Resulted(host, y)
        BY <1>2, <4>1
      <4>3. x = [y EXCEPT !.read = device.options]
        BY <3>2, <4>1
      <4>4. SameJob(host, x) /\ x.todo = Swapped(host.todo, <<>>) /\ Resulted(host, x) /\ x.read = device.options
        BY <4>2, <4>3 DEF SameJob, Resulted, HostFields
      <4>5. MovesOn(host, x, Due, says, <<>>, device.options)
        BY <2>6, <3>2, <4>4 DEF MovesOn
      <4> QED
        BY <1>5, <4>5 DEF HostStep
    <3> QED
      BY <1>3, <3>1, <3>2
  <2>7. CASE Due.asks \in {"alt", "descriptor", "dnload", "abort", "clear"}
    <3>1. x = CallFails \/ (says # "nothing" /\ x = Proceed(Swapped(host.todo, <<>>)))
      BY <1>5, <1>7, <2>7 DEF After
    <3> QED
      BY <1>3, <1>4, <1>5, <2>7, <3>1
  <2> QED
    BY <2>1, <2>2, <2>3, <2>4, <2>5, <2>6, <2>7 DEF Transfers, Status
<1> QED
  BY <1>6, <1>7

(* A command that is of no download alters no memory.                        *)
LEMMA CarryForeign ==
    ASSUME NEW blind \in BOOLEAN, NEW d, DeviceType(d, blind),
           d.cmd \in Pointers \cup Raws \/ (d.cmd \in OptionWrites(blind) /\ Clean(d))
    PROVE  /\ DeviceType(Executed(d), blind) /\ Keeps(d, Executed(d), {"alt", "cmd", "memory"})
           /\ Executed(d).state \in {"dnloadIdle", "error", "gone"}
           /\ Executed(d).pointer = IF d.cmd.cmd = "pointer" THEN d.cmd.at ELSE d.pointer
           /\ d.cmd \in Pointers \cup Raws => Executed(d).options = d.options
<1> DEFINE y == Executed(d)
<1>1. DOMAIN d = DeviceFields /\ d.alt \in {0, 1} /\ d.pointer \in Int /\ d.options \in KeptOptions(blind)
  BY DEF DeviceType, DeviceFields
<1>2. CASE d.cmd \in Pointers \cup Raws
  <2>1. /\ Keeps(d, y, {"alt", "cmd", "memory", "options"}) /\ y.state = "dnloadIdle"
        /\ y.pointer = IF d.cmd.cmd = "pointer" THEN d.cmd.at ELSE d.pointer
    BY <1>1, <1>2, ExecutedPlain
  <2>2. d.cmd.cmd = "pointer" => d.cmd.at \in Int
    BY <1>2 DEF Pointers, Raws
  <2> HIDE DEF y
  <2>3. DeviceType(y, blind)
    BY <1>1, <2>1, <2>2 DEF DeviceType, Keeps, DeviceStates, DeviceFields
  <2> QED
    BY <2>1, <2>3 DEF Keeps, y
<1>3. CASE d.cmd \in OptionWrites(blind) /\ Clean(d)
  <2>1. PICK o \in KeptOptions(blind) : d.cmd.data = <<o>> /\ d.cmd.cmd = "write"
    BY <1>3 DEF OptionWrites
  <2>2. CASE d.alt = OptionBytesAlt
    <3>1. Keeps(d, y, {"alt", "cmd", "pointer", "memory"}) /\ y.state = "gone" /\ y.options = Head(d.cmd.data)
      BY <1>1, <2>1, <2>2, ExecutedOptions
    <3>2. Head(d.cmd.data) = o
      BY <2>1
    <3>3. d.cmd \notin Pointers \cup Raws
      BY <2>1 DEF Pointers, Raws
    <3> HIDE DEF y
    <3>4. DeviceType(y, blind)
      BY <1>1, <3>1, <3>2 DEF DeviceType, Keeps, DeviceStates, DeviceFields
    <3> QED
      BY <2>1, <3>1, <3>3, <3>4 DEF Keeps, y
  <2>3. CASE d.alt = FlashAlt
    <3> DEFINE at == Target(d)
    <3>1. /\ Keeps(d, y, {"alt", "cmd", "pointer", "options"})
          /\ \/ y.state = "error" /\ y.memory = d.memory
             \/ InMemory(at, Len(d.cmd.data)) /\ \A a \in at..at + Len(d.cmd.data) - 1 : d.memory[a] = Erased
      BY <1>1, <2>1, <2>3, ExecutedWrite
    <3>2. Len(d.cmd.data) = 1
      BY <2>1
    <3>3. ~(InMemory(at, 1) /\ \A a \in at..at + 1 - 1 : d.memory[a] = Erased)
      <4>1. SUFFICES ASSUME InMemory(at, 1), \A a \in at..at + 1 - 1 : d.memory[a] = Erased PROVE FALSE
        OBVIOUS
      <4>2. at \in Addresses /\ at \in Nat
        BY <4>1, PagesType DEF InMemory
      <4>3. d.memory[at] = Erased
        BY <4>1, <4>2
      <4>4. d.memory[at] = Old
        BY <1>3, <4>2 DEF Clean
      <4> QED
        BY <4>3, <4>4 DEF Erased, Old
    <3>4. y.state = "error" /\ y.memory = d.memory
      BY <3>1, <3>2, <3>3
    <3> HIDE DEF y
    <3>5. DeviceType(y, blind)
      BY <1>1, <3>1, <3>4 DEF DeviceType, Keeps, DeviceStates, DeviceFields
    <3> QED
      BY <2>1, <3>1, <3>4, <3>5 DEF Keeps, y
  <2> QED
    BY <1>1, <2>2, <2>3 DEF OptionBytesAlt, FlashAlt
<1> QED
  BY <1>2, <1>3

(* A page of an element is erased.                                           *)
LEMMA CarryErasure ==
    ASSUME NEW blind \in BOOLEAN, NEW d, DeviceType(d, blind), NEW e, d.cmd \in Erasures(e)
    PROVE  /\ DeviceType(Executed(d), blind) /\ Keeps(d, Executed(d), {"alt", "cmd", "pointer", "options"})
           /\ Executed(d).state \in {"dnloadIdle", "error"}
           /\ d.cmd.cmd = "erase" /\ \E k \in DOMAIN e : d.cmd.at \in Touched(e[k])
           /\ \A a \in Addresses : \/ Executed(d).memory[a] = d.memory[a]
                                   \/ d.cmd.at \in Addresses /\ PageOf(a) = PageOf(d.cmd.at)
<1> DEFINE y == Executed(d)
<1>1. DOMAIN d = DeviceFields /\ d.alt \in {0, 1} /\ d.pointer \in Int /\ d.options \in KeptOptions(blind)
  BY DEF DeviceType, DeviceFields
<1>2. d.cmd.cmd = "erase" /\ \E k \in DOMAIN e : d.cmd.at \in Touched(e[k])
  BY DEF Erasures
<1>3. /\ Keeps(d, y, {"alt", "cmd", "pointer", "options"}) /\ y.state \in {"dnloadIdle", "error"}
      /\ \A a \in Addresses : y.memory[a] = d.memory[a] \/ (d.cmd.at \in Addresses /\ PageOf(a) = PageOf(d.cmd.at))
  BY <1>1, <1>2, ExecutedErasure
<1> HIDE DEF y
<1>4. DeviceType(y, blind)
  BY <1>1, <1>3 DEF DeviceType, Keeps, DeviceStates, DeviceFields
<1> QED
  BY <1>2, <1>3, <1>4 DEF y

(* A block of an element is written where it belongs, or nothing is.         *)
LEMMA CarryBlock ==
    ASSUME NEW blind \in BOOLEAN, NEW d, DeviceType(d, blind), NEW e \in Elements, NEW k \in DOMAIN e, NEW b \in BlocksOf(e, k),
           d.cmd = BlockWrite(e, k, b), d.alt = FlashAlt, d.pointer = e[k].at
    PROVE  LET y == Executed(d)
               at == e[k].at + Skipped(b)
               cells == at..at + Len(Block(Data(k, e[k].size), b)) - 1 IN
           /\ DeviceType(y, blind) /\ Keeps(d, y, {"alt", "cmd", "pointer", "options"})
           /\ cells \subseteq Cells(e[k])
           /\ \/ y.state = "error" /\ y.memory = d.memory
              \/ /\ y.state = "dnloadIdle" /\ Written(y, e, k, b)
                 /\ \A a \in cells : d.memory[a] = Erased
                 /\ \A a \in Addresses : a \notin cells => y.memory[a] = d.memory[a]
<1> DEFINE y == Executed(d)
           data == Block(Data(k, e[k].size), b)
           at == e[k].at + Skipped(b)
           n == Len(data)
           cells == at..at + n - 1
<1>1. DOMAIN d = DeviceFields /\ d.alt \in {0, 1} /\ d.pointer \in Int /\ d.options \in KeptOptions(blind)
  BY DEF DeviceType, DeviceFields
<1>2. e[k].at \in Int /\ e[k].size \in Nat /\ b \in 1..BlockCount(e[k].size)
  BY ElementType DEF BlocksOf
<1>3. /\ n \in Nat \ {0} /\ DOMAIN data = 1..n /\ Skipped(b) \in Nat /\ b \in Nat \ {0} /\ Skipped(b) + n <= e[k].size
      /\ \A i \in 1..n : data[i] = <<k, Skipped(b) + i>>
  BY <1>2, BlockType
<1>4. d.cmd.cmd = "write" /\ d.cmd.at = b + 1 /\ d.cmd.data = data
  BY BlockWriteType
<1>5. Target(d) = at
  <2>1. d.cmd.at - 2 = b - 1
    BY <1>3, <1>4
  <2> QED
    BY <2>1 DEF Target, Skipped
<1>6. /\ Keeps(d, y, {"alt", "cmd", "pointer", "options"})
      /\ \/ y.state = "error" /\ y.memory = d.memory
         \/ /\ y.state = "dnloadIdle" /\ InMemory(at, n)
            /\ \A a \in cells : d.memory[a] = Erased
            /\ \A a \in Addresses : y.memory[a] = IF a \in cells THEN data[a - at + 1] ELSE d.memory[a]
  <2> HIDE DEF data, at
  <2> QED
    BY <1>1, <1>4, <1>5, ExecutedWrite
<1> HIDE DEF y, data
<1>7. DeviceType(y, blind)
  BY <1>1, <1>6 DEF DeviceType, Keeps, DeviceStates, DeviceFields
<1>8. cells \subseteq Cells(e[k])
  BY <1>2, <1>3 DEF Cells
<1>9. CASE y.state = "error" /\ y.memory = d.memory
  BY <1>6, <1>7, <1>8, <1>9 DEF y, data
<1>10. CASE /\ y.state = "dnloadIdle" /\ InMemory(at, n) /\ \A a \in cells : d.memory[a] = Erased
            /\ \A a \in Addresses : y.memory[a] = IF a \in cells THEN data[a - at + 1] ELSE d.memory[a]
  <2>1. ASSUME NEW i \in 1..n
        PROVE  at + i - 1 \in Addresses /\ y.memory[at + i - 1] = <<k, Skipped(b) + i>>
    <3>0. PICK z \in Int : z = at
      BY <1>2, <1>3
    <3>1. z + i - 1 \in z..z + n - 1 /\ z + i - 1 - z + 1 = i
      BY <1>3
    <3>2. z + i - 1 \in Addresses
      <4>1. z \in Addresses /\ z + n - 1 \in Addresses
        BY <1>10, <3>0 DEF InMemory
      <4>2. z + i - 1 \in Int /\ z <= z + i - 1 /\ z + i - 1 <= z + n - 1
        BY <1>3
      <4>3. Origin \in Int /\ MemoryEnd \in Int
        BY PagesType, SizesType
      <4> QED
        BY <1>3, <4>1, <4>2, <4>3 DEF Addresses
    <3>3. y.memory[z + i - 1] = data[i]
      <4>1. PICK w : w = z + i - 1
        OBVIOUS
      <4>2. w \in Addresses /\ w \in z..z + n - 1 /\ w - z + 1 = i
        BY <3>1, <3>2, <4>1
      <4>3. y.memory[w] = IF w \in z..z + n - 1 THEN data[w - z + 1] ELSE d.memory[w]
        BY <1>10, <3>0, <4>2
      <4> QED
        BY <4>1, <4>2, <4>3
    <3>4. data[i] = <<k, Skipped(b) + i>>
      BY <1>3
    <3> QED
      BY <3>0, <3>2, <3>3, <3>4
  <2>2. Written(y, e, k, b)
    <3>1. \A i \in DOMAIN data : e[k].at + Skipped(b) + i - 1 \in Addresses /\ y.memory[e[k].at + Skipped(b) + i - 1] = <<k, Skipped(b) + i>>
      BY <1>3, <2>1
    <3> QED
      BY <3>1 DEF Written, data
  <2>3. \A a \in Addresses : a \notin cells => y.memory[a] = d.memory[a]
    BY <1>10
  <2> QED
    BY <1>6, <1>7, <1>8, <1>10, <2>2, <2>3 DEF y, data
<1> QED
  BY <1>6, <1>9, <1>10

(* What is written stays written.                                            *)
LEMMA WrittenStays ==
    ASSUME NEW e \in Elements, NEW k \in DOMAIN e, NEW b \in BlocksOf(e, k), NEW d, NEW y, Written(d, e, k, b),
           \A a \in Addresses : y.memory[a] = d.memory[a] \/ d.memory[a] = Erased
    PROVE  Written(y, e, k, b)
<1>1. ASSUME NEW i \in DOMAIN Block(Data(k, e[k].size), b)
      PROVE  /\ e[k].at + Skipped(b) + i - 1 \in Addresses
             /\ y.memory[e[k].at + Skipped(b) + i - 1] = <<k, Skipped(b) + i>>
  <2>1. PICK a, w : a = e[k].at + Skipped(b) + i - 1 /\ w = Skipped(b) + i
    OBVIOUS
  <2>2. a \in Addresses /\ d.memory[a] = <<k, w>>
    BY <2>1 DEF Written
  <2>3. <<k, w>> # <<1>>
    <3>1. Len(<<k, w>>) = 2 /\ Len(<<1>>) = 1
      OBVIOUS
    <3> QED
      BY <3>1
  <2>4. y.memory[a] = <<k, w>>
    BY <2>2, <2>3 DEF Erased
  <2> QED
    BY <2>1, <2>2, <2>4
<1> QED
  BY <1>1 DEF Written

(* The items of a tail, by their places.                                     *)
LEMMA Tails ==
    ASSUME NEW X, NEW s \in Seq(X), s # <<>>
    PROVE  /\ Tail(s) \in Seq(X) /\ s[1] \in X /\ Head(s) = s[1]
           /\ \E n \in Nat : /\ Len(s) = n + 1 /\ DOMAIN s = 1..n + 1 /\ DOMAIN Tail(s) = 1..n
                             /\ \A i \in 1..n : Tail(s)[i] = s[i + 1] /\ i + 1 \in DOMAIN s
                             /\ n = 0 <=> Tail(s) = <<>>
<1>1. Tail(s) \in Seq(X) /\ Head(s) \in X /\ Len(Tail(s)) = Len(s) - 1 /\ \A i \in 1..Len(Tail(s)) : Tail(s)[i] = s[i + 1]
  BY HeadTailProperties
<1>2. Len(s) \in Nat \ {0} /\ DOMAIN s = 1..Len(s) /\ Head(s) = s[1]
  BY EmptySeq, LenProperties
<1>3. DOMAIN Tail(s) = 1..Len(Tail(s)) /\ (Tail(s) = <<>> <=> Len(Tail(s)) = 0)
  BY <1>1, EmptySeq, LenProperties
<1>4. PICK n \in Nat : n = Len(s) - 1
  <2>1. Len(s) - 1 \in Nat
    BY <1>2
  <2> QED
    BY <2>1
<1>5. Len(s) = n + 1 /\ Len(Tail(s)) = n
  BY <1>1, <1>2, <1>4
<1>6. \A i \in 1..n : i + 1 \in 1..n + 1
  OBVIOUS
<1>7. Len(s) = n + 1 /\ DOMAIN s = 1..n + 1 /\ DOMAIN Tail(s) = 1..n
  BY <1>2, <1>3, <1>5
<1>8. \A i \in 1..n : Tail(s)[i] = s[i + 1] /\ i + 1 \in DOMAIN s
  BY <1>1, <1>5, <1>6, <1>7
<1>9. n = 0 <=> Tail(s) = <<>>
  BY <1>3, <1>5
<1> QED
  BY <1>1, <1>2, <1>7, <1>8, <1>9

(* What holds of a sequence of items holds of the rest of it.                *)
LEMMA TailKeeps ==
    ASSUME NEW X, NEW e, NEW s \in Seq(X), s # <<>>, NEW t, t = Tail(s)
    PROVE  /\ Linked(s, e) => Linked(t, e)
           /\ EraseFirst(s) => EraseFirst(t)
           /\ AltBefore(s) /\ s[1].asks # "alt" => AltBefore(t)
           /\ \A w : Holds(s, w) => s[1] = w \/ Holds(t, w)
           /\ EraseFirst(s) /\ IsWrite(s[1]) => NoErases(t)
           /\ ~NoErases(t) => ~NoErases(s)
<1>1. PICK n \in Nat : /\ DOMAIN s = 1..n + 1 /\ DOMAIN t = 1..n
                       /\ \A i \in 1..n : t[i] = s[i + 1] /\ i + 1 \in DOMAIN s
  BY Tails
<1>2. ASSUME NEW i \in DOMAIN s PROVE i = 1 \/ (i - 1 \in 1..n /\ t[i - 1] = s[i])
  <2>1. i # 1 => i - 1 \in 1..n /\ (i - 1) + 1 = i
    BY <1>1
  <2> QED
    BY <1>1, <2>1
<1>3. ASSUME Linked(s, e) PROVE Linked(t, e)
  <2>1. SUFFICES ASSUME NEW i \in DOMAIN t PROVE LinkedAt(t, e, i)
    BY LinkedEverywhere
  <2>2. PICK j \in DOMAIN s : j = i + 1
    BY <1>1
  <2>3. LinkedAt(s, e, j)
    BY <1>3, LinkedEverywhere
  <2>4. t[i] = s[j] /\ (j + 1 \in DOMAIN s => i + 1 \in DOMAIN t /\ t[i + 1] = s[j + 1])
    <3>1. j + 1 \in DOMAIN s => i + 1 \in 1..n /\ (i + 1) + 1 = j + 1
      BY <1>1, <2>2
    <3> QED
      BY <1>1, <2>2, <3>1
  <2>5. i > 1 => j > 1 /\ t[i - 1] = s[j - 1]
    <3>1. i > 1 => i - 1 \in 1..n /\ (i - 1) + 1 = j - 1 /\ j > 1
      BY <1>1, <2>2
    <3> QED
      BY <1>1, <3>1
  <2>6. i > 2 => j > 2 /\ t[i - 2] = s[j - 2]
    <3>1. i > 2 => i - 2 \in 1..n /\ (i - 2) + 1 = j - 2 /\ j > 2
      BY <1>1, <2>2
    <3> QED
      BY <1>1, <3>1
  <2> QED
    BY <2>3, <2>4, <2>5, <2>6 DEF LinkedAt
<1>4. ASSUME EraseFirst(s) PROVE EraseFirst(t)
  <2>1. SUFFICES ASSUME NEW i \in 1..n, NEW j \in 1..n, i < j, IsWrite(t[i]) PROVE ~IsErase(t[j])
    BY <1>1 DEF EraseFirst
  <2>2. i + 1 \in DOMAIN s /\ j + 1 \in DOMAIN s /\ i + 1 < j + 1 /\ t[i] = s[i + 1] /\ t[j] = s[j + 1]
    BY <1>1, <2>1
  <2> QED
    BY <1>4, <2>1, <2>2 DEF EraseFirst
<1>5. ASSUME AltBefore(s), s[1].asks # "alt" PROVE AltBefore(t)
  <2>1. SUFFICES ASSUME NEW i \in 1..n, IsWrite(t[i]) PROVE \E j \in 1..n : j < i /\ t[j].asks = "alt"
    BY <1>1 DEF AltBefore
  <2>2. i + 1 \in DOMAIN s /\ IsWrite(s[i + 1])
    BY <1>1, <2>1
  <2>3. PICK j \in DOMAIN s : j < i + 1 /\ s[j].asks = "alt"
    BY <1>5, <2>2 DEF AltBefore
  <2>4. j - 1 \in 1..n /\ t[j - 1] = s[j]
    BY <1>2, <1>5, <2>3
  <2>5. j - 1 < i
    BY <1>1, <2>3
  <2> QED
    BY <2>3, <2>4, <2>5
<1>6. ASSUME NEW w, Holds(s, w) PROVE s[1] = w \/ Holds(t, w)
  <2>1. PICK y \in DOMAIN s : s[y].asks = w.asks /\ s[y] = w
    BY <1>6 DEF Holds
  <2>2. y = 1 \/ (y - 1 \in 1..n /\ t[y - 1] = s[y])
    BY <1>2
  <2> QED
    BY <1>1, <2>1, <2>2 DEF Holds
<1>7. ASSUME EraseFirst(s), IsWrite(s[1]) PROVE NoErases(t)
  <2>1. SUFFICES ASSUME NEW j \in 1..n PROVE ~IsErase(t[j])
    BY <1>1 DEF NoErases
  <2>2. 1 \in DOMAIN s /\ j + 1 \in DOMAIN s /\ 1 < j + 1 /\ t[j] = s[j + 1]
    BY <1>1
  <2> QED
    BY <1>7, <2>2 DEF EraseFirst
<1>8. ~NoErases(t) => ~NoErases(s)
  BY <1>1 DEF NoErases
<1> QED
  BY <1>3, <1>4, <1>5, <1>6, <1>7, <1>8

(* What the host may put before the items it still has.                      *)
LEMMA PrefixType ==
    ASSUME NEW e, NEW p \in Detours
    PROVE  /\ p \in LinkedSeqs(e) /\ p \in Seq(MemoryItems(e)) /\ NoWrites(p) /\ NoErases(p) /\ AltBefore(p) /\ EraseFirst(p)
           /\ p \in Seq(Questions) /\ \A i \in DOMAIN p : p[i].asks # "upload"
<1> DEFINE S == {s \in ErasingSeqs(e) \cap WritingSeqs(e) : s \in Seq(Questions) /\ \A i \in DOMAIN s : s[i].asks # "upload"}
<1>1. ASSUME NEW what \in {"clear", "anyStatus", "abort", "isIdle"} PROVE <<Item(what, 0)>> \in S
  <2>0. Item(what, 0) \in Questions /\ Item(what, 0).asks = what
    BY DEF Questions, Item
  <2>1. PICK item : item = Item(what, 0) /\ item \in Questions /\ item.asks = what
    BY <2>0
  <2>2. item \in MemoryItems(e) /\ ~IsDownload(item) /\ ~IsPoll(item)
    BY <2>1 DEF MemoryItems, IsDownload, IsPoll
  <2>3. <<item>> \in ErasingSeqs(e) /\ <<item>> \in WritingSeqs(e)
    BY <2>2, OneItem
  <2>4. <<item>> \in Seq(Questions) /\ DOMAIN <<item>> = {1} /\ <<item>>[1] = item
    BY <2>1
  <2>5. \A i \in DOMAIN <<item>> : <<item>>[i].asks # "upload"
    BY <2>1, <2>4
  <2> QED
    BY <2>1, <2>3, <2>4, <2>5
<1>2. <<>> \in S
  BY SeqsClosed
<1>3. Abort \in S
  <2>1. PICK x, y : x = Item("abort", 0) /\ y = Item("isIdle", 0) /\ <<x>> \in S /\ <<y>> \in S
    BY <1>1
  <2>2. Abort = <<x>> \o <<y>> /\ Abort = <<x, y>>
    BY <2>1, TwoItems DEF Abort
  <2>3. Abort \in ErasingSeqs(e) /\ Abort \in WritingSeqs(e)
    BY <2>1, <2>2, SeqsClosed DEF Closed
  <2>4. x \in Questions /\ y \in Questions /\ x.asks # "upload" /\ y.asks # "upload"
    BY <2>1 DEF Questions, Item
  <2>5. <<x, y>> \in Seq(Questions) /\ DOMAIN <<x, y>> = 1..2 /\ <<x, y>>[1] = x /\ <<x, y>>[2] = y
    BY <2>4
  <2>6. \A i \in DOMAIN Abort : Abort[i].asks # "upload"
    BY <2>2, <2>4, <2>5
  <2> QED
    BY <2>2, <2>3, <2>5, <2>6
<1> HIDE DEF S
<1>4. p \in S
  <2>1. <<Item("clear", 0)>> \in S /\ <<Item("anyStatus", 0)>> \in S
    BY <1>1
  <2> QED
    BY <1>2, <1>3, <2>1 DEF Detours
<1> QED
  <2>1. p \in ErasingSeqs(e) /\ p \in WritingSeqs(e) /\ p \in Seq(Questions) /\ \A i \in DOMAIN p : p[i].asks # "upload"
    BY <1>4 DEF S
  <2>2. p \in LinkedSeqs(e) /\ NoWrites(p) /\ NoErases(p)
    BY <2>1 DEF ErasingSeqs, WritingSeqs
  <2> QED
    BY <2>1, <2>2, NothingToWrite DEF LinkedSeqs

(* The item that is due: what it may be, and what is around it.              *)
LEMMA HeadOfDownload ==
    ASSUME NEW e \in Elements, NEW d, NEW s, DownloadsItems(s, d, e)
    PROVE  /\ s[1] \in MemoryItems(e) /\ 1 \in DOMAIN s /\ Head(s) = s[1] /\ Tail(s) \in Seq(MemoryItems(e))
           /\ s[1].asks = "alt" => s[1].arg = FlashAlt
           /\ IsDownload(s[1]) => s[1].arg \in Pointers \cup Erasures(e) \cup BlockWrites(e)
           /\ IsDownload(s[1]) => Tail(s) # <<>> /\ IsPoll(Tail(s)[1])
           /\ ~IsDownload(s[1]) /\ Tail(s) # <<>> => ~IsPoll(Tail(s)[1])
           /\ ~IsDownload(s[1]) /\ ~IsPoll(s[1]) => Heads(Tail(s))
           /\ IsWrite(s[1]) => d.alt = FlashAlt
           /\ IsPoll(s[1]) => "dnloadBusy" \in s[1].arg
           /\ \A k \in DOMAIN e : WritesOf(Tail(s)[2], e, k) /\ 2 \in DOMAIN Tail(s) =>
                 WritesOf(s[1], e, k) \/ PointsTo(s[1], e, k)
<1>1. /\ s \in Seq(MemoryItems(e)) /\ s # <<>> /\ (d.alt = FlashAlt \/ AltBefore(s))
      /\ \A i \in DOMAIN s : LinkedAt(s, e, i)
  BY LinkedEverywhere DEF DownloadsItems
<1> DEFINE t == Tail(s)
<1>2. t \in Seq(MemoryItems(e)) /\ s[1] \in MemoryItems(e) /\ Head(s) = s[1]
  BY <1>1, Tails
<1>3. PICK n \in Nat : /\ DOMAIN s = 1..n + 1 /\ DOMAIN t = 1..n
                       /\ \A i \in 1..n : t[i] = s[i + 1] /\ i + 1 \in DOMAIN s
                       /\ n = 0 <=> t = <<>>
  <2>1. s \in Seq(MemoryItems(e)) /\ s # <<>>
    BY <1>1
  <2> HIDE DEF t
  <2> QED
    BY <2>1, Tails DEF t
<1> HIDE DEF t
<1>4. 1 \in DOMAIN s /\ (t # <<>> => 1 \in 1..n /\ 2 \in DOMAIN s /\ t[1] = s[2])
  <2>1. n # 0 => 1 \in 1..n /\ 1 + 1 = 2
    OBVIOUS
  <2> QED
    BY <1>3, <2>1
<1>5. s[1].asks = "alt" => s[1].arg = FlashAlt
  BY <1>2 DEF MemoryItems, Questions, GivesUpItem, Alts, Downloads, FlashAlt
<1>6. IsDownload(s[1]) => s[1].arg \in Pointers \cup Erasures(e) \cup BlockWrites(e)
  BY <1>2 DEF MemoryItems, Questions, GivesUpItem, Alts, Downloads, IsDownload
<1>7. IsPoll(s[1]) => "dnloadBusy" \in s[1].arg
  BY <1>2 DEF MemoryItems, Questions, GivesUpItem, Alts, Downloads, IsPoll
<1>8. IsDownload(s[1]) => t # <<>> /\ IsPoll(t[1])
  <2>1. IsDownload(s[1]) => 1 + 1 \in DOMAIN s /\ IsPoll(s[1 + 1])
    BY <1>1, <1>4 DEF LinkedAt
  <2>2. 1 + 1 \in DOMAIN s => n # 0
    BY <1>3
  <2> QED
    BY <1>3, <1>4, <2>1, <2>2
<1>9. t # <<>> => /\ ~IsDownload(s[1]) => ~IsPoll(t[1])
                  /\ ~IsPoll(s[1]) => ~IsWrite(t[1])
  <2>1. t # <<>> => LinkedAt(s, e, 2)
    BY <1>1, <1>4
  <2>2. LinkedAt(s, e, 2) => (IsPoll(s[2]) => IsDownload(s[1])) /\ (IsWrite(s[2]) => IsPoll(s[1]))
    BY DEF LinkedAt
  <2> QED
    BY <1>4, <2>1, <2>2
<1>10. IsWrite(s[1]) => d.alt = FlashAlt
  <2>1. SUFFICES ASSUME IsWrite(s[1]), AltBefore(s) PROVE FALSE
    BY <1>1
  <2>2. PICK j \in DOMAIN s : j < 1
    BY <1>4, <2>1 DEF AltBefore
  <2> QED
    BY <1>3, <2>2
<1>11. ASSUME NEW k \in DOMAIN e, WritesOf(t[2], e, k), 2 \in DOMAIN t PROVE WritesOf(s[1], e, k) \/ PointsTo(s[1], e, k)
  <2>1. 2 \in 1..n /\ 2 + 1 = 3
    BY <1>3, <1>11
  <2>2. 3 \in DOMAIN s /\ t[2] = s[3]
    BY <1>3, <2>1
  <2>3. LinkedAt(s, e, 3)
    BY <1>1, <2>2
  <2>4. WritesOf(s[3], e, k) => WritesOf(s[1], e, k) \/ PointsTo(s[1], e, k)
    BY <2>3 DEF LinkedAt
  <2> QED
    BY <1>11, <2>2, <2>4
<1> QED
  BY <1>2, <1>4, <1>5, <1>6, <1>7, <1>8, <1>9, <1>10, <1>11 DEF Heads, t

(* What is true once the first item has been answered, of the item and of   *)
(* the device.                                                               *)
Settled(item, d) ==
    /\ item.asks = "alt" => d.alt = item.arg
    /\ item.asks = "dnload" => d.cmd = item.arg /\ d.state = IF item.arg.cmd = "leave" THEN "manifestSync" ELSE "dnloadSync"
    /\ item.asks = "upload" => d.state = "uploadIdle"
    /\ item.asks = "poll" => ~Pending(d) /\ d.state # "error" /\ (d.state = "gone" => d.alt # FlashAlt)
AllDone(d, e) == \A k \in DOMAIN e : \A b \in BlocksOf(e, k) : Written(d, e, k, b)

(* An item that is neither a command nor the question how it went.          *)
LEMMA NeutralAnswered ==
    ASSUME NEW e \in Elements, NEW d, NEW s, DownloadsItems(s, d, e), Progress(s, d, e),
           ~IsDownload(s[1]), ~IsPoll(s[1]), NEW p \in Detours, Settled(s[1], d),
           NEW u, u = p \o Tail(s)
    PROVE  /\ u # <<>> => DownloadsItems(u, d, e) /\ Progress(u, d, e)
           /\ u = <<>> => AllDone(d, e)
<1>1. /\ s \in Seq(MemoryItems(e)) /\ s # <<>> /\ (d.alt = FlashAlt \/ AltBefore(s))
      /\ Linked(s, e) /\ EraseFirst(s)
  BY DEF DownloadsItems
<1> DEFINE t == Tail(s)
<1>2. t \in Seq(MemoryItems(e)) /\ Heads(t) /\ (s[1].asks = "alt" => s[1].arg = FlashAlt)
  BY HeadOfDownload
<1>3. /\ Linked(t, e) /\ EraseFirst(t) /\ (AltBefore(s) /\ s[1].asks # "alt" => AltBefore(t))
      /\ (\A w : Holds(s, w) => s[1] = w \/ Holds(t, w)) /\ (~NoErases(t) => ~NoErases(s))
  BY <1>1, TailKeeps
<1>4. /\ p \in LinkedSeqs(e) /\ p \in Seq(MemoryItems(e)) /\ NoWrites(p) /\ NoErases(p) /\ AltBefore(p) /\ EraseFirst(p)
  BY PrefixType
<1> HIDE DEF t
<1>5. u = p \o t
  BY DEF t
<1>6. u \in LinkedSeqs(e)
  <2>1. t \in LinkedSeqs(e)
    BY <1>2, <1>3 DEF LinkedSeqs
  <2> QED
    BY <1>4, <1>5, <2>1, LinkedClosed DEF Closed
<1>7. u \in Seq(MemoryItems(e)) /\ Linked(u, e) /\ Heads(u)
  BY <1>6 DEF LinkedSeqs
<1>8. /\ AltBefore(t) => AltBefore(u)
      /\ EraseFirst(u)
      /\ NoErases(t) => NoErases(u)
      /\ \A w : Holds(t, w) => Holds(u, w)
  BY <1>2, <1>3, <1>4, <1>5, ConcatKeeps, HeldByEither
<1>9. d.alt = FlashAlt \/ AltBefore(u)
  BY <1>1, <1>2, <1>3, <1>8 DEF Settled
<1>10. \A k \in DOMAIN e : \A b \in BlocksOf(e, k) : Ahead(s, e, k, b) => Ahead(u, e, k, b)
  <2>1. ASSUME NEW k \in DOMAIN e, NEW b \in BlocksOf(e, k), Ahead(s, e, k, b) PROVE Ahead(u, e, k, b)
    <3>1. s[1] # WriteItem(e, k, b)
      BY BlockWriteType DEF IsDownload
    <3> QED
      BY <1>3, <1>8, <2>1, <3>1 DEF Ahead
  <2> QED
    BY <2>1
<1>11. \A k \in DOMAIN e : \A b \in BlocksOf(e, k) : Ahead(u, e, k, b) \/ Written(d, e, k, b)
  BY <1>10 DEF Progress, UnderWay
<1>12. (\E i \in DOMAIN u : IsErase(u[i])) \/ (Pending(d) /\ d.cmd.cmd = "erase") =>
          \A k \in DOMAIN e : \A b \in BlocksOf(e, k) : Ahead(u, e, k, b)
  <2>1. (\E i \in DOMAIN u : IsErase(u[i])) => \E i \in DOMAIN s : IsErase(s[i])
    BY <1>3, <1>8 DEF NoErases
  <2> QED
    BY <1>10, <2>1 DEF Progress
<1>13. ASSUME u # <<>> PROVE DownloadsItems(u, d, e) /\ Progress(u, d, e)
  <2>1. AimedAt(u, d, e)
    <3>1. SUFFICES ASSUME NEW k \in DOMAIN e PROVE ~WritesNext(u, e, k)
      BY DEF AimedAt
    <3>2. ~IsPoll(u[1]) /\ ~IsWrite(u[1])
      BY <1>7, <1>13 DEF Heads
    <3> QED
      BY <3>2, WritesAreWrites DEF WritesNext
  <2>2. DownloadsItems(u, d, e)
    BY <1>7, <1>8, <1>9, <1>13, <2>1 DEF DownloadsItems
  <2>3. Progress(u, d, e)
    BY <1>11, <1>12 DEF Progress
  <2> QED
    BY <2>2, <2>3
<1>14. ASSUME u = <<>> PROVE AllDone(d, e)
  <2>1. \A k \in DOMAIN e : \A b \in BlocksOf(e, k) : ~Ahead(u, e, k, b)
    BY <1>14 DEF Ahead, Holds
  <2> QED
    BY <1>11, <2>1 DEF AllDone
<1> QED
  BY <1>13, <1>14

(* A command that has been taken.                                            *)
LEMMA CommandTaken ==
    ASSUME NEW e \in Elements, NEW d, NEW s, DownloadsItems(s, d, e), Progress(s, d, e),
           IsDownload(s[1]), Settled(s[1], d), NEW u, u = Tail(s)
    PROVE  u # <<>> /\ IsPoll(u[1]) /\ DownloadsItems(u, d, e) /\ Progress(u, d, e)
<1>1. /\ s \in Seq(MemoryItems(e)) /\ s # <<>> /\ (d.alt = FlashAlt \/ AltBefore(s))
      /\ Linked(s, e) /\ EraseFirst(s) /\ AimedAt(s, d, e)
  BY DEF DownloadsItems
<1>2. /\ u # <<>> /\ IsPoll(u[1]) /\ u \in Seq(MemoryItems(e)) /\ (IsWrite(s[1]) => d.alt = FlashAlt)
      /\ s[1].arg \in Pointers \cup Erasures(e) \cup BlockWrites(e)
      /\ \A k \in DOMAIN e : WritesOf(u[2], e, k) /\ 2 \in DOMAIN u => WritesOf(s[1], e, k) \/ PointsTo(s[1], e, k)
      /\ 1 \in DOMAIN s
  BY HeadOfDownload
<1>3. s[1].asks = "dnload" /\ s[1].asks # "alt" /\ ~IsPoll(s[1])
  BY DEF IsDownload, IsPoll
<1>4. /\ Linked(u, e) /\ EraseFirst(u) /\ (AltBefore(s) => AltBefore(u))
      /\ (\A w : Holds(s, w) => s[1] = w \/ Holds(u, w)) /\ (~NoErases(u) => ~NoErases(s))
      /\ IsWrite(s[1]) => NoErases(u)
  BY <1>1, <1>3, TailKeeps
<1>5. s[1].arg.cmd # "leave"
  BY <1>2 DEF Pointers, Erasures, BlockWrites, BlockWrite, Command
<1>6. d.cmd = s[1].arg /\ d.state = "dnloadSync" /\ Pending(d)
  BY <1>3, <1>5 DEF Settled, Pending
<1>7. ASSUME NEW k \in DOMAIN e, WritesOf(s[1], e, k) PROVE d.pointer = e[k].at /\ d.cmd.cmd = "write" /\ d.alt = FlashAlt
  <2>1. IsWrite(s[1])
    BY <1>7, WritesAreWrites
  <2>2. Aimed(d, e, k)
    BY <1>1, <1>7 DEF AimedAt, WritesNext
  <2>3. d.cmd.cmd = "write"
    BY <1>6, <2>1 DEF IsWrite
  <2>4. d.cmd # Command("pointer", e[k].at, <<>>)
    BY <2>3 DEF Command
  <2> QED
    BY <1>2, <1>6, <2>1, <2>2, <2>3, <2>4 DEF Aimed
<1>8. AimedAt(u, d, e)
  <2>1. SUFFICES ASSUME NEW k \in DOMAIN e, WritesNext(u, e, k) PROVE Aimed(d, e, k)
    BY DEF AimedAt
  <2>2. 2 \in DOMAIN u /\ WritesOf(u[2], e, k)
    BY <1>2, <2>1, NotBoth DEF WritesNext
  <2>3. CASE WritesOf(s[1], e, k)
    BY <1>7, <2>3 DEF Aimed
  <2>4. CASE PointsTo(s[1], e, k)
    <3>1. d.cmd = Command("pointer", e[k].at, <<>>)
      BY <1>6, <2>4 DEF PointsTo, Item
    <3> QED
      BY <1>6, <3>1 DEF Aimed
  <2> QED
    BY <1>2, <2>2, <2>3, <2>4
<1>9. DownloadsItems(u, d, e)
  BY <1>1, <1>2, <1>4, <1>8 DEF DownloadsItems
<1>10. ASSUME NEW k \in DOMAIN e, NEW b \in BlocksOf(e, k)
       PROVE  Ahead(u, e, k, b) \/ UnderWay(u, d, e, k, b) \/ Written(d, e, k, b)
  <2>1. Ahead(s, e, k, b) \/ Written(d, e, k, b)
    BY <1>3 DEF Progress, UnderWay
  <2>2. CASE s[1] = WriteItem(e, k, b)
    <3>1. WritesOf(s[1], e, k)
      BY <2>2 DEF WritesOf
    <3>2. d.cmd = BlockWrite(e, k, b)
      BY <1>6, <2>2, BlockWriteType
    <3> QED
      BY <1>2, <1>6, <1>7, <3>1, <3>2 DEF UnderWay
  <2> QED
    BY <1>4, <2>1, <2>2 DEF Ahead
<1>11. ASSUME (\E i \in DOMAIN u : IsErase(u[i])) \/ (Pending(d) /\ d.cmd.cmd = "erase"), NEW k \in DOMAIN e, NEW b \in BlocksOf(e, k)
       PROVE  Ahead(u, e, k, b)
  <2>1. CASE \E i \in DOMAIN u : IsErase(u[i])
    <3>1. ~NoErases(u)
      BY <2>1 DEF NoErases
    <3>2. ~IsWrite(s[1]) /\ \E i \in DOMAIN s : IsErase(s[i])
      BY <1>4, <3>1 DEF NoErases
    <3>3. Ahead(s, e, k, b)
      BY <3>2 DEF Progress
    <3>4. s[1] # WriteItem(e, k, b)
      BY <3>2, BlockWriteType DEF IsWrite, IsDownload
    <3> QED
      BY <1>4, <3>3, <3>4 DEF Ahead
  <2>2. CASE d.cmd.cmd = "erase"
    <3>1. Ahead(s, e, k, b)
      BY <1>6, <2>2 DEF Progress
    <3>2. s[1] # WriteItem(e, k, b)
      BY <1>6, <2>2, BlockWriteType
    <3> QED
      BY <1>4, <3>1, <3>2 DEF Ahead
  <2> QED
    BY <1>11, <2>1, <2>2
<1>12. Progress(u, d, e)
  BY <1>10, <1>11 DEF Progress
<1> QED
  BY <1>2, <1>9, <1>12

(* A command that has been carried out.                                      *)
LEMMA CommandDone ==
    ASSUME NEW e \in Elements, NEW d, NEW s, DownloadsItems(s, d, e), Progress(s, d, e),
           IsPoll(s[1]), Settled(s[1], d), NEW u, u = Tail(s)
    PROVE  /\ u # <<>> => DownloadsItems(u, d, e) /\ Progress(u, d, e)
           /\ u = <<>> => AllDone(d, e)
<1>1. /\ s \in Seq(MemoryItems(e)) /\ s # <<>> /\ (d.alt = FlashAlt \/ AltBefore(s))
      /\ Linked(s, e) /\ EraseFirst(s) /\ AimedAt(s, d, e)
  BY DEF DownloadsItems
<1>2. s[1].asks = "poll" /\ s[1].asks # "alt" /\ ~IsDownload(s[1])
  BY DEF IsDownload, IsPoll
<1>3. u \in Seq(MemoryItems(e)) /\ (u # <<>> => ~IsPoll(u[1]))
  BY <1>2, HeadOfDownload
<1>4. /\ Linked(u, e) /\ EraseFirst(u) /\ (AltBefore(s) => AltBefore(u))
      /\ (\A w : Holds(s, w) => s[1] = w \/ Holds(u, w)) /\ (~NoErases(u) => ~NoErases(s))
  BY <1>1, <1>2, TailKeeps
<1>5. ~Pending(d) /\ d.state # "error" /\ (d.state = "gone" => d.alt # FlashAlt)
  BY <1>2 DEF Settled
<1>6. ASSUME u # <<>> PROVE DownloadsItems(u, d, e)
  <2>1. PICK n \in Nat : DOMAIN s = 1..n + 1 /\ (\A i \in 1..n : u[i] = s[i + 1] /\ i + 1 \in DOMAIN s) /\ (n = 0 <=> u = <<>>)
    BY <1>1, Tails
  <2>2. 1 \in 1..n /\ 1 + 1 = 2
    BY <1>6, <2>1
  <2>3. 2 \in DOMAIN s /\ u[1] = s[2]
    BY <2>1, <2>2
  <2>4. AimedAt(u, d, e)
    BY <1>1, <1>3, <1>6, <2>3 DEF AimedAt, WritesNext
  <2> QED
    BY <1>1, <1>3, <1>4, <1>6, <2>4 DEF DownloadsItems
<1>7. \A k \in DOMAIN e : \A b \in BlocksOf(e, k) : Ahead(s, e, k, b) => Ahead(u, e, k, b)
  <2>1. ASSUME NEW k \in DOMAIN e, NEW b \in BlocksOf(e, k), Ahead(s, e, k, b) PROVE Ahead(u, e, k, b)
    <3>1. s[1] # WriteItem(e, k, b)
      BY <1>2, BlockWriteType DEF IsDownload
    <3> QED
      BY <1>4, <2>1, <3>1 DEF Ahead
  <2> QED
    BY <2>1
<1>8. \A k \in DOMAIN e : \A b \in BlocksOf(e, k) : Ahead(u, e, k, b) \/ Written(d, e, k, b)
  BY <1>5, <1>7 DEF Progress, UnderWay
<1>9. Progress(u, d, e)
  <2>1. (\E i \in DOMAIN u : IsErase(u[i])) => \E i \in DOMAIN s : IsErase(s[i])
    BY <1>4 DEF NoErases
  <2> QED
    BY <1>7, <1>8, <2>1 DEF Progress
<1>10. ASSUME u = <<>> PROVE AllDone(d, e)
  <2>1. \A k \in DOMAIN e : \A b \in BlocksOf(e, k) : ~Ahead(u, e, k, b)
    BY <1>10 DEF Ahead, Holds
  <2> QED
    BY <1>8, <2>1 DEF AllDone
<1> QED
  BY <1>6, <1>9, <1>10

(* The device moves, and remembers what it did.                              *)
LEMMA ShiftFields ==
    ASSUME NEW d, DOMAIN d = DeviceFields, NEW item, NEW y, Shifts(d, item, y)
    PROVE  /\ Keeps(d, y, {"alt", "pointer", "cmd", "memory", "options"}) /\ y.state \in DeviceStates
           /\ y.state \in {"dnloadSync", "dnloadBusy"} => Pending(d)
           /\ item.asks \in {"dnload", "poll"} => y.state \in {"error", "gone", "dnloadBusy"}
<1>1. PICK mode \in DeviceStates :
          /\ y = [d EXCEPT !.state = mode]
          /\ mode \in {"dnloadSync", "dnloadBusy"} => Pending(d)
          /\ item.asks \in {"dnload", "poll"} => mode \in {"error", "gone", "dnloadBusy"}
  BY DEF Shifts
<1>2. y.state = mode
  BY <1>1 DEF DeviceFields
<1>3. Keeps(d, y, {"alt", "pointer", "cmd", "memory", "options"})
  BY <1>1 DEF Keeps, DeviceFields
<1> QED
  BY <1>1, <1>2, <1>3

(* Choosing an alternate setting alters nothing else. *)
LEMMA AltFields ==
    ASSUME NEW d, DOMAIN d = DeviceFields, NEW n, NEW y, y = [d EXCEPT !.alt = n]
    PROVE  Keeps(d, y, {"state", "pointer", "cmd", "memory", "options"}) /\ y.alt = n
BY DEF Keeps, DeviceFields

(* Taking a command alters nothing but the command and the state. *)
LEMMA AcceptedFields ==
    ASSUME NEW d, DOMAIN d = DeviceFields, NEW item, NEW y, y = Accepted(d, item)
    PROVE  /\ Keeps(d, y, {"alt", "pointer", "memory", "options"}) /\ y.cmd = item.arg
           /\ y.state = IF item.arg.cmd = "leave" THEN "manifestSync" ELSE "dnloadSync"
BY DEF Keeps, DeviceFields, Accepted

(* A change of state leaves what is still to be downloaded in order. *)
LEMMA ShiftStays ==
    ASSUME NEW e \in Elements, NEW d, DOMAIN d = DeviceFields, NEW s, DownloadsItems(s, d, e), Progress(s, d, e),
           NEW y, Shifts(d, s[1], y)
    PROVE  DownloadsItems(s, y, e) /\ Progress(s, y, e)
<1>1. /\ y.alt = d.alt /\ y.pointer = d.pointer /\ y.cmd = d.cmd /\ y.memory = d.memory
      /\ Pending(y) => Pending(d)
      /\ s[1].asks \in {"dnload", "poll"} => y.state \in {"error", "gone"} \/ Pending(y)
  BY ShiftFields DEF Keeps, Pending
<1>2. AimedAt(s, y, e)
  <2>1. SUFFICES ASSUME NEW k \in DOMAIN e, WritesNext(s, e, k) PROVE Aimed(y, e, k)
    BY DEF AimedAt
  <2>2. s[1].asks \in {"dnload", "poll"}
    BY <2>1 DEF WritesNext, WritesOf, IsDownload, IsPoll
  <2>3. Aimed(d, e, k)
    BY <2>1 DEF DownloadsItems, AimedAt
  <2>4. Pending(y) => d.state \notin {"error", "gone"}
    BY <1>1 DEF Pending
  <2> QED
    BY <1>1, <2>2, <2>3, <2>4 DEF Aimed
<1>3. DownloadsItems(s, y, e)
  BY <1>1, <1>2 DEF DownloadsItems
<1>4. ASSUME NEW k \in DOMAIN e, NEW b \in BlocksOf(e, k)
      PROVE  Ahead(s, e, k, b) \/ UnderWay(s, y, e, k, b) \/ Written(y, e, k, b)
  <2>1. Ahead(s, e, k, b) \/ UnderWay(s, d, e, k, b) \/ Written(d, e, k, b)
    BY DEF Progress
  <2>2. Written(d, e, k, b) => Written(y, e, k, b)
    BY <1>1 DEF Written
  <2>3. UnderWay(s, d, e, k, b) => UnderWay(s, y, e, k, b)
    BY <1>1 DEF UnderWay, IsPoll
  <2> QED
    BY <2>1, <2>2, <2>3
<1>5. Progress(s, y, e)
  BY <1>1, <1>4 DEF Progress
<1> QED
  BY <1>3, <1>5

(* So does choosing the alternate setting of the flash memory. *)
LEMMA AltStays ==
    ASSUME NEW e \in Elements, NEW d, DOMAIN d = DeviceFields, NEW s, DownloadsItems(s, d, e), Progress(s, d, e),
           s[1].asks = "alt", NEW y, y = [d EXCEPT !.alt = s[1].arg]
    PROVE  DownloadsItems(s, y, e) /\ Progress(s, y, e)
<1>1. y.state = d.state /\ y.pointer = d.pointer /\ y.cmd = d.cmd /\ y.memory = d.memory /\ y.alt = FlashAlt
  BY AltFields, HeadOfDownload DEF Keeps
<1>2. Pending(y) = Pending(d)
  BY <1>1 DEF Pending
<1>3. AimedAt(s, y, e)
  BY DEF AimedAt, WritesNext, WritesOf, IsDownload, IsPoll
<1>4. DownloadsItems(s, y, e)
  BY <1>1, <1>3 DEF DownloadsItems
<1>5. \A k \in DOMAIN e : \A b \in BlocksOf(e, k) : Written(d, e, k, b) => Written(y, e, k, b)
  BY <1>1 DEF Written
<1>6. Progress(s, y, e)
  BY <1>1, <1>2, <1>5 DEF Progress, UnderWay
<1> QED
  BY <1>4, <1>6

(* So does taking the command that is due. *)
LEMMA AcceptedStays ==
    ASSUME NEW e \in Elements, NEW d, DOMAIN d = DeviceFields, NEW s, DownloadsItems(s, d, e), Progress(s, d, e),
           s[1].asks = "dnload", d.state \in {"idle", "dnloadIdle"}, NEW y, y = Accepted(d, s[1])
    PROVE  DownloadsItems(s, y, e) /\ Progress(s, y, e)
<1>1. y.alt = d.alt /\ y.pointer = d.pointer /\ y.memory = d.memory /\ y.cmd = s[1].arg
  <2>1. Keeps(d, y, {"alt", "pointer", "memory", "options"}) /\ y.cmd = s[1].arg
    BY AcceptedFields
  <2> QED
    BY <2>1 DEF Keeps
<1>2. AimedAt(s, y, e)
  <2>1. SUFFICES ASSUME NEW k \in DOMAIN e, WritesNext(s, e, k) PROVE Aimed(y, e, k)
    BY DEF AimedAt
  <2>2. WritesOf(s[1], e, k)
    BY <2>1 DEF WritesNext, IsPoll
  <2>3. y.cmd.cmd = "write"
    BY <1>1, <2>2, WritesAreWrites DEF IsWrite
  <2>4. Aimed(d, e, k)
    BY <2>1 DEF DownloadsItems, AimedAt
  <2>5. d.pointer = e[k].at
    BY <2>4 DEF Aimed, Pending
  <2> QED
    BY <1>1, <2>3, <2>5 DEF Aimed
<1>3. DownloadsItems(s, y, e)
  BY <1>1, <1>2 DEF DownloadsItems
<1>4. \A k \in DOMAIN e : \A b \in BlocksOf(e, k) : Written(d, e, k, b) => Written(y, e, k, b)
  BY <1>1 DEF Written
<1>5. y.cmd.cmd = "erase" => \E i \in DOMAIN s : IsErase(s[i])
  <2>1. 1 \in DOMAIN s
    BY HeadOfDownload
  <2> QED
    BY <1>1, <2>1 DEF IsErase, IsDownload
<1>6. Progress(s, y, e)
  BY <1>4, <1>5 DEF Progress, UnderWay, IsPoll
<1> QED
  BY <1>3, <1>6

-----------------------------------------------------------------------------
(* The command is carried out.                                               *)
Harmless(d, blind) == d.cmd \in Pointers \cup Raws \/ (d.cmd \in OptionWrites(blind) /\ Clean(d))

(* A command of the download itself alters only pages of its elements, and a block only what is erased. *)
LEMMA OwnCarried ==
    ASSUME NEW blind \in BOOLEAN, NEW d, DeviceType(d, blind), NEW e \in Elements, OwnCommand(d, e), NEW y, y = Executed(d)
    PROVE  /\ DeviceType(y, blind) /\ Keeps(d, y, {"alt", "cmd", "pointer", "options"}) /\ y.state \in {"dnloadIdle", "error"}
           /\ d.cmd.cmd \in {"erase", "write"} /\ (d.cmd.cmd = "write" => d.alt = FlashAlt)
           /\ \A a \in Addresses :
                 \/ y.memory[a] = d.memory[a]
                 \/ \E k \in DOMAIN e : \E b \in Touched(e[k]) : b \in Addresses /\ PageOf(a) = PageOf(b)
           /\ d.cmd.cmd # "erase" => \A a \in Addresses : y.memory[a] = d.memory[a] \/ d.memory[a] = Erased
<1>1. CASE d.cmd \in Erasures(e)
  <2>1. /\ DeviceType(y, blind) /\ Keeps(d, y, {"alt", "cmd", "pointer", "options"})
        /\ y.state \in {"dnloadIdle", "error"}
        /\ d.cmd.cmd = "erase" /\ \E k \in DOMAIN e : d.cmd.at \in Touched(e[k])
        /\ \A a \in Addresses : y.memory[a] = d.memory[a] \/ (d.cmd.at \in Addresses /\ PageOf(a) = PageOf(d.cmd.at))
    BY <1>1, CarryErasure
  <2> QED
    BY <2>1
<1>2. ASSUME d.alt = FlashAlt, NEW k \in DOMAIN e, NEW b \in BlocksOf(e, k), d.cmd = BlockWrite(e, k, b), d.pointer = e[k].at
      PROVE  /\ DeviceType(y, blind) /\ Keeps(d, y, {"alt", "cmd", "pointer", "options"}) /\ y.state \in {"dnloadIdle", "error"}
             /\ d.cmd.cmd = "write"
             /\ \A a \in Addresses : \/ y.memory[a] = d.memory[a]
                                     \/ a \in Touched(e[k]) /\ d.memory[a] = Erased
  <2> DEFINE at == e[k].at + Skipped(b)
             cells == at..at + Len(Block(Data(k, e[k].size), b)) - 1
  <2>1. /\ DeviceType(y, blind) /\ Keeps(d, y, {"alt", "cmd", "pointer", "options"})
        /\ cells \subseteq Cells(e[k])
        /\ \/ y.state = "error" /\ y.memory = d.memory
           \/ /\ y.state = "dnloadIdle"
              /\ \A a \in cells : d.memory[a] = Erased
              /\ \A a \in Addresses : a \notin cells => y.memory[a] = d.memory[a]
    BY <1>2, CarryBlock
  <2>2. d.cmd.cmd = "write"
    BY <1>2, BlockWriteType
  <2> HIDE DEF cells
  <2> QED
    BY <2>1, <2>2 DEF Touched
<1> QED
  BY <1>1, <1>2 DEF OwnCommand

(* Carrying out a command leaves what is still to be downloaded in order, whose ever it is. *)
LEMMA ExecutedStays ==
    ASSUME NEW blind \in BOOLEAN, NEW d, DeviceType(d, blind), d.state = "dnloadBusy", NEW e \in Elements,
           NEW s, DownloadsItems(s, d, e), Progress(s, d, e),
           Harmless(d, blind) \/ OwnCommand(d, e),
           NEW y, y = Executed(d)
    PROVE  DownloadsItems(s, y, e) /\ Progress(s, y, e)
<1>1. /\ y.alt = d.alt /\ y.cmd = d.cmd /\ y.pointer = (IF d.cmd.cmd = "pointer" THEN d.cmd.at ELSE d.pointer)
      /\ y.state \in {"dnloadIdle", "error", "gone"}
      /\ d.cmd.cmd # "erase" => \A a \in Addresses : y.memory[a] = d.memory[a] \/ d.memory[a] = Erased
  <2>1. CASE Harmless(d, blind)
    <3>1. /\ Keeps(d, y, {"alt", "cmd", "memory"}) /\ y.state \in {"dnloadIdle", "error", "gone"}
          /\ y.pointer = IF d.cmd.cmd = "pointer" THEN d.cmd.at ELSE d.pointer
      BY <2>1, CarryForeign DEF Harmless
    <3> QED
      BY <3>1 DEF Keeps
  <2>2. CASE OwnCommand(d, e)
    <3>1. /\ Keeps(d, y, {"alt", "cmd", "pointer", "options"}) /\ y.state \in {"dnloadIdle", "error"}
          /\ d.cmd.cmd \in {"erase", "write"}
          /\ d.cmd.cmd # "erase" => \A a \in Addresses : y.memory[a] = d.memory[a] \/ d.memory[a] = Erased
      BY <2>2, OwnCarried
    <3> QED
      BY <3>1 DEF Keeps
  <2> QED
    BY <2>1, <2>2
<1>2. ~Pending(y) /\ Pending(d)
  BY <1>1 DEF Pending
<1>3. AimedAt(s, y, e)
  <2>1. SUFFICES ASSUME NEW k \in DOMAIN e, WritesNext(s, e, k) PROVE Aimed(y, e, k)
    BY DEF AimedAt
  <2>2. Aimed(d, e, k)
    BY <2>1 DEF DownloadsItems, AimedAt
  <2>3. CASE d.cmd = Command("pointer", e[k].at, <<>>)
    <3>1. d.cmd.cmd = "pointer" /\ d.cmd.at = e[k].at
      BY <2>3 DEF Command
    <3> QED
      BY <1>1, <1>2, <3>1 DEF Aimed
  <2>4. CASE d.pointer = e[k].at /\ d.cmd.cmd # "pointer"
    BY <1>1, <1>2, <2>4 DEF Aimed
  <2> QED
    BY <1>2, <2>2, <2>3, <2>4 DEF Aimed
<1>4. DownloadsItems(s, y, e)
  BY <1>1, <1>3 DEF DownloadsItems
<1>5. ASSUME NEW k \in DOMAIN e, NEW b \in BlocksOf(e, k)
      PROVE  Ahead(s, e, k, b) \/ UnderWay(s, y, e, k, b) \/ Written(y, e, k, b)
  <2>1. Ahead(s, e, k, b) \/ UnderWay(s, d, e, k, b) \/ Written(d, e, k, b)
    BY DEF Progress
  <2>2. CASE UnderWay(s, d, e, k, b)
    <3>1. y.state = "error" \/ Written(y, e, k, b)
      BY <2>2, CarryBlock DEF UnderWay
    <3>2. d.cmd.cmd = "write"
      BY <2>2, BlockWriteType DEF UnderWay
    <3> QED
      BY <1>1, <2>2, <3>1, <3>2 DEF UnderWay
  <2>3. CASE Written(d, e, k, b) /\ d.cmd.cmd # "erase"
    BY <1>1, <2>3, WrittenStays
  <2>4. CASE d.cmd.cmd = "erase"
    BY <1>2, <2>4 DEF Progress
  <2> QED
    BY <2>1, <2>2, <2>3, <2>4
<1>6. Progress(s, y, e)
  <2>1. (\E i \in DOMAIN s : IsErase(s[i])) => \A k \in DOMAIN e : \A b \in BlocksOf(e, k) : Ahead(s, e, k, b)
    BY DEF Progress
  <2> QED
    BY <1>2, <1>5, <2>1 DEF Progress
<1> QED
  BY <1>4, <1>6

(* A download, and all it erases and writes, stays below the secure area.    *)
LEMMA OwnMemory ==
    ASSUME NEW blind \in BOOLEAN, NEW d, DeviceType(d, blind), NEW e \in Elements, OwnCommand(d, e),
           NEW y, y = Executed(d)
    PROVE  /\ TouchesOnly(d, e) => TouchesOnly(y, e)
           /\ StaysBelow(d) /\ Fits(e, d) /\ e = <<e[1]>> /\ e[1].size \in Nat \ {0} => StaysBelow(y)
<1>1. /\ Keeps(d, y, {"alt", "cmd", "pointer", "options"})
      /\ \A a \in Addresses :
            \/ y.memory[a] = d.memory[a]
            \/ \E k \in DOMAIN e : \E b \in Touched(e[k]) : b \in Addresses /\ PageOf(a) = PageOf(b)
  BY OwnCarried
<1>2. TouchesOnly(d, e) => TouchesOnly(y, e)
  BY <1>1 DEF TouchesOnly
<1>3. ASSUME StaysBelow(d), Fits(e, d), e = <<e[1]>>, e[1].size \in Nat \ {0} PROVE StaysBelow(y)
  <2>1. DOMAIN e = {1} /\ e[1].at \in Int /\ e[1].size \in Nat
    <3>1. DOMAIN <<e[1]>> = {1}
      OBVIOUS
    <3>2. DOMAIN e = {1}
      BY <1>3, <3>1
    <3> QED
      BY <3>2, ElementType
  <2> DEFINE L == Origin + PageSize * d.options.sfsa
  <2>2. y.options = d.options
    BY <1>1 DEF Keeps
  <2>3. d.options.sfsa \in SecureStarts \/ d.options.sfsa = 0
    BY DEF DeviceType, KeptOptions, AnyOptions
  <2>4. L \in PageStarts \cup {MemoryEnd} \/ L = Origin
    <3>1. CASE d.options.sfsa \in SecureStarts
      BY <3>1 DEF SecureStarts
    <3>2. CASE d.options.sfsa = 0
      BY <3>2, SizesType
    <3> QED
      BY <2>3, <3>1, <3>2
  <2>5. e[1].at + e[1].size <= L
    BY <1>3 DEF Fits
  <2> HIDE DEF L
  <2>6. L \in Nat
    BY <2>4, PagesType, SizesType
  <2>7. ASSUME NEW b \in Touched(e[1]) PROVE b \in Int /\ b < L
    <3>1. b \in Int /\ b <= e[1].at + e[1].size - 1
      BY <1>3, <2>1 DEF Touched, Cells
    <3> QED
      BY <2>1, <2>5, <2>6, <3>1
  <2>8. ASSUME NEW a \in Addresses, y.memory[a] # Old PROVE a < L
    <3>1. CASE y.memory[a] = d.memory[a]
      BY <1>3, <2>8, <3>1 DEF StaysBelow, L
    <3>2. CASE \E k \in DOMAIN e : \E b \in Touched(e[k]) : b \in Addresses /\ PageOf(a) = PageOf(b)
      <4>1. PICK b \in Touched(e[1]) : b \in Addresses /\ PageOf(a) = PageOf(b)
        BY <2>1, <3>2
      <4>2. b \in Int /\ b < L
        BY <2>7
      <4>3. Origin <= b
        BY <4>1, PagesType, SizesType DEF Addresses
      <4>4. L # Origin
        BY <2>6, <4>2, <4>3, SizesType
      <4>5. L \in PageStarts \cup {MemoryEnd}
        BY <2>4, <4>4
      <4> QED
        BY <4>1, <4>2, <4>5, PagesApart
    <3> QED
      BY <1>1, <3>1, <3>2
  <2> QED
    BY <2>2, <2>8 DEF StaysBelow, L
<1> QED
  BY <1>2, <1>3

(* How what is due and what remains of a call can be seen.                   *)
LEMMA TwoCalls ==
    ASSUME NEW x, NEW y
    PROVE  Head(<<x>> \o <<y>>) = x /\ Tail(<<x>> \o <<y>>) = <<y>> /\ <<x>> \o <<y>> # <<>>
<1>1. <<x>> \o <<y>> = <<x, y>>
  BY TwoItems
<1>2. Head(<<x, y>>) = x /\ Tail(<<x, y>>) = <<y>> /\ <<x, y>> # <<>>
  OBVIOUS
<1> QED
  BY <1>1, <1>2

(* What is due first when a file is downloaded, and when option bytes are read. *)
LEMMA TodoForms ==
    ASSUME NEW s
    PROVE  /\ Head(DownloadTodo(s)) = Must(s) /\ Tail(DownloadTodo(s)) = End /\ DownloadTodo(s) # <<>>
           /\ Head(<<May(s)>> \o Then("place")) = May(s) /\ Tail(<<May(s)>> \o Then("place")) = Then("place")
           /\ <<May(s)>> \o Then("place") # <<>>
           /\ Must(s).items = s /\ Must(s).must = TRUE /\ May(s).items = s /\ May(s).must = FALSE
           /\ First(DownloadTodo(s)) = Head(s) /\ First(<<May(s)>> \o Then("place")) = Head(s)
<1>1. /\ Head(DownloadTodo(s)) = Must(s) /\ Tail(DownloadTodo(s)) = End /\ DownloadTodo(s) # <<>>
      /\ Head(<<May(s)>> \o Then("place")) = May(s) /\ Tail(<<May(s)>> \o Then("place")) = Then("place")
      /\ <<May(s)>> \o Then("place") # <<>>
  BY TwoCalls DEF DownloadTodo, End, Then
<1>2. Must(s).items = s /\ Must(s).must = TRUE /\ May(s).items = s /\ May(s).must = FALSE
  BY DEF Must, May
<1> QED
  BY <1>1, <1>2 DEF First

(* What is due in a transaction of a single call of a single item. *)
LEMMA OneCall ==
    ASSUME NEW item, NEW x, x.items = <<item>>, NEW todo, todo = <<x>>
    PROVE  First(todo) = item /\ todo # <<>> /\ Tail(todo) = <<>> /\ Head(todo) = x /\ Len(Head(todo).items) = 1
<1>1. Head(todo) = x /\ Tail(todo) = <<>> /\ todo # <<>>
  OBVIOUS
<1>2. Head(<<item>>) = item /\ Len(<<item>>) = 1
  OBVIOUS
<1> QED
  BY <1>1, <1>2 DEF First

(* The transactions of a single call. *)
LEMMA ShortTodos ==
    /\ First(End) = Item("release", 0) /\ End # <<>> /\ Tail(End) = <<>> /\ Head(End).must = TRUE /\ Len(Head(End).items) = 1
    /\ First(EndAnyway) = Item("release", 0) /\ EndAnyway # <<>> /\ Tail(EndAnyway) = <<>> /\ Head(EndAnyway).must = FALSE
    /\ Len(Head(EndAnyway).items) = 1
    /\ \A what : /\ First(Then(what)) = Item(what, 0) /\ Then(what) # <<>> /\ Tail(Then(what)) = <<>>
                 /\ Head(Then(what)).must = TRUE /\ Len(Head(Then(what)).items) = 1
<1>1. \A x : Must(x).items = x /\ Must(x).must = TRUE /\ May(x).items = x /\ May(x).must = FALSE
  BY DEF Must, May
<1>2. ASSUME NEW what
      PROVE  LET todo == <<Must(<<Item(what, 0)>>)>> IN
             First(todo) = Item(what, 0) /\ todo # <<>> /\ Tail(todo) = <<>> /\ Head(todo).must = TRUE /\ Len(Head(todo).items) = 1
  <2>1. PICK x : x = Must(<<Item(what, 0)>>) /\ x.items = <<Item(what, 0)>> /\ x.must = TRUE
    BY <1>1
  <2>2. PICK todo : todo = <<x>>
    OBVIOUS
  <2>3. First(todo) = Item(what, 0) /\ todo # <<>> /\ Tail(todo) = <<>> /\ Head(todo) = x /\ Len(Head(todo).items) = 1
    BY <2>1, <2>2, OneCall
  <2> QED
    BY <2>1, <2>2, <2>3
<1>3. PICK x : x = May(<<Item("release", 0)>>) /\ x.items = <<Item("release", 0)>> /\ x.must = FALSE
  BY <1>1
<1>4. PICK todo : todo = <<x>> /\ todo = EndAnyway
  BY <1>3 DEF EndAnyway
<1>5. First(todo) = Item("release", 0) /\ todo # <<>> /\ Tail(todo) = <<>> /\ Head(todo) = x /\ Len(Head(todo).items) = 1
  BY <1>3, <1>4, OneCall
<1> QED
  BY <1>2, <1>3, <1>4, <1>5 DEF End, Then

(* Every transaction claims the interface first. *)
LEMMA ClaimIsFirst ==
    ASSUME NEW h, HostType(h), h.job.kind # "none", h.todo = Calls(h.job)
    PROVE  h.todo # <<>> /\ Head(h.todo) = ClaimCall /\ First(h.todo) = Item("claim", 0) /\ Len(Head(h.todo).items) = 1
<1>1. h.job \in KnownTransactions
  BY DEF HostType, KnownTransactions, Elements
<1>2. h.todo # <<>> /\ Head(h.todo) = ClaimCall
  <2>1. CASE h.job.kind \in WritingKinds
    BY <1>1, <2>1, CallsOfWriting
  <2>2. CASE h.job.kind \notin WritingKinds
    <3>1. h.blind \in BOOLEAN
      BY DEF HostType
    <3> QED
      BY <1>1, <2>2, <3>1, CallsOfPlain
  <2> QED
    BY <2>1, <2>2
<1>3. Head(<<Item("claim", 0)>>) = Item("claim", 0) /\ Len(<<Item("claim", 0)>>) = 1
  OBVIOUS
<1>4. ClaimCall.items = <<Item("claim", 0)>>
  BY DEF ClaimCall, Must
<1> QED
  BY <1>2, <1>3, <1>4 DEF First

(* Whose transfer it is.                                                     *)
Plain(h) == ~WritesMemory(h) /\ h.todo \in PlainTodos(h.blind)
(* A control transfer belongs to a plain transaction, to reading or to downloading; the interface is claimed. *)
LEMMA WhoseTransfer ==
    ASSUME NEW h, NEW c, NEW d, HostType(h), TodoInv(h, c, d), h.todo # <<>>, First(h.todo).asks \in Transfers
    PROVE  /\ c = "host"
           /\ \/ Plain(h) /\ ~Reading(h, d)
              \/ WritesMemory(h) /\ Reading(h, d) /\ ~Downloading(h, c, d)
              \/ WritesMemory(h) /\ Downloading(h, c, d) /\ ~Reading(h, d)
           /\ (WritesMemory(h) => ~Beginning(h, d)) /\ ~Placing(h, d) /\ ~Ending(h)
           /\ Reading(h, d) \/ Downloading(h, c, d) => First(h.todo) = Items(h)[1]
<1>1. First(h.todo).asks \notin {"claim", "release", "place"}
  BY DEF Transfers, Status
<1>2. h.todo # EndAnyway /\ ~Ending(h)
  BY <1>1, ShortTodos DEF Ending, Item
<1>3. ~Placing(h, d)
  BY <1>1, ShortTodos DEF Placing, Item
<1>4. ~(h.job.kind # "none" /\ h.todo = Calls(h.job))
  BY <1>1, ClaimIsFirst DEF Item
<1>5. WritesMemory(h) => h.job.kind # "none"
  BY DEF WritesMemory
<1>6. c = "host"
  BY <1>2, <1>4 DEF TodoInv
<1>7. ~WritesMemory(h) => ~Reading(h, d)
  BY DEF Reading, Stacked, WritesMemory
<1>8. ASSUME Reading(h, d) PROVE Head(h.todo).must = FALSE /\ First(h.todo) = Items(h)[1]
  <2>1. h.todo = <<May(Items(h))>> \o Then("place") /\ Items(h) \in Seq(PlainItems(h.blind)) /\ Items(h) # <<>>
    BY <1>8 DEF Reading
  <2>2. Head(Items(h)) = Items(h)[1]
    BY <2>1, Tails
  <2>3. PICK s : s = Items(h)
    OBVIOUS
  <2>4. PICK todo : todo = <<May(s)>> \o Then("place") /\ Head(todo) = May(s) /\ First(todo) = Head(s) /\ May(s).must = FALSE
    BY TodoForms
  <2>5. h.todo = todo
    BY <2>1, <2>3, <2>4
  <2> QED
    BY <2>2, <2>3, <2>4, <2>5
<1>9. ASSUME Downloading(h, c, d) PROVE Head(h.todo).must = TRUE /\ First(h.todo) = Items(h)[1]
  <2>1. h.todo = DownloadTodo(Items(h)) /\ Items(h) \in Seq(MemoryItems(h.job.elements)) /\ Items(h) # <<>>
    BY <1>9 DEF Downloading, DownloadsItems
  <2>2. Head(Items(h)) = Items(h)[1]
    BY <2>1, Tails
  <2>3. PICK s : s = Items(h)
    OBVIOUS
  <2>4. PICK todo : todo = DownloadTodo(s) /\ Head(todo) = Must(s) /\ First(todo) = Head(s) /\ Must(s).must = TRUE
    BY TodoForms
  <2>5. h.todo = todo
    BY <2>1, <2>3, <2>4
  <2> QED
    BY <2>2, <2>3, <2>4, <2>5
<1>10. ~(Reading(h, d) /\ Downloading(h, c, d))
  BY <1>8, <1>9
<1>11. ~WritesMemory(h) => Plain(h)
  BY DEF TodoInv, Plain
<1>12. WritesMemory(h) => ~Beginning(h, d)
  BY <1>4, <1>5 DEF Beginning
<1>13. WritesMemory(h) => Reading(h, d) \/ Downloading(h, c, d)
  BY <1>2, <1>3, <1>12 DEF TodoInv
<1> QED
  BY <1>2, <1>3, <1>6, <1>7, <1>8, <1>9, <1>10, <1>11, <1>12, <1>13

(* What a transaction that writes nothing to memory still has to do.         *)
LEMMA PlainAsks ==
    ASSUME NEW blind, NEW item \in PlainItems(blind)
    PROVE  item.asks \in Transfers /\ (item.asks = "poll" => "dnloadBusy" \in item.arg)
<1>1. CASE item \in Questions
  BY <1>1 DEF Questions, Transfers, Status
<1>2. CASE item \notin Questions
  BY <1>2 DEF PlainItems, Alts, Downloads, Transfers, Status
<1> QED
  BY <1>1, <1>2

(* A call of one item asks for that item. *)
LEMMA OneAsked ==
    ASSUME NEW what, NEW x, x \in {Must(<<Item(what, 0)>>), May(<<Item(what, 0)>>)}
    PROVE  Head(x.items).asks = what /\ Len(x.items) = 1 /\ x.must \in BOOLEAN
<1>1. PICK item : item = Item(what, 0) /\ item.asks = what
  BY DEF Item
<1>2. x.items = <<item>> /\ x.must \in BOOLEAN
  <2>1. CASE x = Must(<<item>>)
    BY <2>1 DEF Must
  <2>2. CASE x = May(<<item>>)
    BY <2>2 DEF May
  <2> QED
    BY <1>1, <2>1, <2>2
<1>3. Head(<<item>>) = item /\ Len(<<item>>) = 1
  OBVIOUS
<1> QED
  BY <1>1, <1>2, <1>3

(* What is due in a transaction that writes no memory. *)
LEMMA PlainParted ==
    ASSUME NEW blind, NEW todo \in PlainTodos(blind), todo # <<>>
    PROVE  /\ Tail(todo) \in PlainTodos(blind) /\ Head(todo).must \in BOOLEAN
           /\ First(todo).asks \in Transfers =>
                 Head(todo) \in CallsOf(PlainItems(blind)) /\ First(todo) \in PlainItems(blind)
           /\ First(todo).asks = "release" => todo \in {End, EndAnyway}
           /\ First(todo).asks \in Transfers \cup LocalItems
           /\ First(todo).asks = "poll" => "dnloadBusy" \in First(todo).arg
           /\ First(todo).asks \in LocalItems => Len(Head(todo).items) = 1
           /\ First(todo).asks \in LocalItems \ {"release"} => Head(todo).must = TRUE
           /\ First(todo).asks # "place"
<1>1. PICK W, T, A : W = PlainWork(blind) /\ T = PlainTodos(blind) /\ A = AnyWork(blind)
  OBVIOUS
<1>2. <<>> \in T /\ (todo \in {End, EndAnyway} \/ (Head(todo) \in W /\ Tail(todo) \in T))
  <2>1. todo \in T \ {<<>>}
    BY <1>1
  <2> QED
    BY <1>1, <2>1, PlainTodo
<1>3. "place" \notin Transfers /\ "release" \notin Transfers /\ "release" \in LocalItems /\ Transfers \cap LocalItems = {} /\ "poll" \in Transfers
  BY DEF Transfers, Status, LocalItems
<1>4. CASE todo \in {End, EndAnyway}
  <2>4. Item("release", 0).asks = "release"
    BY DEF Item
  <2>1. PICK item : item = Item("release", 0) /\ item.asks = "release"
    BY <2>4
  <2>2. First(todo) = item /\ Tail(todo) = <<>> /\ Head(todo).must \in BOOLEAN /\ Len(Head(todo).items) = 1
    BY <1>4, <2>1, ShortTodos
  <2>3. First(todo).asks = "release" /\ Tail(todo) \in PlainTodos(blind)
    BY <1>1, <1>2, <2>1, <2>2
  <2> QED
    BY <1>3, <1>4, <2>2, <2>3
<1>5. CASE Head(todo) \in CallsOf(PlainItems(blind)) /\ Tail(todo) \in T
  <2>1. PICK x : x = Head(todo) /\ x \in CallsOf(PlainItems(blind))
    BY <1>5
  <2>2. x.items \in Seq(PlainItems(blind)) /\ x.items # <<>> /\ x.must \in BOOLEAN
    BY <2>1 DEF CallsOf
  <2>3. Head(x.items) \in PlainItems(blind)
    BY <2>2, HeadTailProperties
  <2>4. First(todo) \in PlainItems(blind) /\ First(todo).asks \in Transfers /\ (First(todo).asks = "poll" => "dnloadBusy" \in First(todo).arg)
    BY <2>1, <2>3, PlainAsks DEF First
  <2> QED
    BY <1>1, <1>3, <1>5, <2>1, <2>2, <2>4
<1>6. CASE Head(todo) \in LocalCalls /\ Tail(todo) \in T
  <2>1. PICK what \in {"claim", "giveUp", "needed", "setValue", "correct", "startFUS"} : Head(todo) = Must(<<Item(what, 0)>>)
    BY <1>6 DEF LocalCalls
  <2>2. First(todo).asks = what /\ Len(Head(todo).items) = 1 /\ Head(todo).must \in BOOLEAN
    <3>1. PICK x : x = Head(todo) /\ x \in {Must(<<Item(what, 0)>>), May(<<Item(what, 0)>>)}
      BY <2>1
    <3> QED
      BY <3>1, OneAsked DEF First
  <2>3. what \in LocalItems /\ what # "release" /\ what # "place" /\ what \notin Transfers
    BY DEF LocalItems, Transfers, Status
  <2>4. Head(todo).must = TRUE
    <3>1. Must(<<Item(what, 0)>>).must = TRUE
      BY DEF Must
    <3> QED
      BY <2>1, <3>1
  <2> QED
    BY <1>1, <1>3, <1>6, <2>2, <2>3, <2>4
<1> QED
  <2>1. Head(todo) \in W => Head(todo) \in CallsOf(PlainItems(blind)) \/ Head(todo) \in LocalCalls
    BY <1>1 DEF PlainWork
  <2> QED
    BY <1>2, <1>4, <1>5, <1>6, <2>1

(* Reading and downloading differ in what their caller makes of a failure. *)
LEMMA Apart ==
    ASSUME NEW h
    PROVE  /\ \A d, c, y : Reading(h, d) => ~Downloading(h, c, y)
           /\ \A d : Reading(h, d) => Head(h.todo).must = FALSE
           /\ \A c, y : Downloading(h, c, y) => Head(h.todo).must = TRUE
<1>1. ASSUME NEW d, Reading(h, d) PROVE Head(h.todo).must = FALSE
  <2>1. PICK s : s = Items(h)
    OBVIOUS
  <2>2. PICK todo : todo = <<May(s)>> \o Then("place") /\ Head(todo) = May(s) /\ May(s).must = FALSE
    BY TodoForms
  <2>3. h.todo = todo
    BY <1>1, <2>1, <2>2 DEF Reading
  <2> QED
    BY <2>2, <2>3
<1>2. ASSUME NEW c, NEW y, Downloading(h, c, y) PROVE Head(h.todo).must = TRUE
  <2>1. PICK s : s = Items(h)
    OBVIOUS
  <2>2. PICK todo : todo = DownloadTodo(s) /\ Head(todo) = Must(s) /\ Must(s).must = TRUE
    BY TodoForms
  <2>3. h.todo = todo
    BY <1>2, <2>1, <2>2 DEF Downloading
  <2> QED
    BY <2>2, <2>3
<1> QED
  BY <1>1, <1>2

(* When memory stays as it is, so does what is known of it.                  *)
LEMMA SameMemory ==
    ASSUME NEW h, NEW d, NEW y, y.memory = d.memory
    PROVE  /\ Clean(d) => Clean(y)
           /\ y.options = d.options \/ Clean(d) => (MemoryInv(h, d) => MemoryInv(h, y))
           /\ AllDone(d, h.job.elements) => AllDone(y, h.job.elements)
<1>1. Clean(d) => Clean(y)
  BY DEF Clean
<1>2. y.options = d.options => (MemoryInv(h, d) => MemoryInv(h, y))
  BY <1>1 DEF MemoryInv, TouchesOnly, StaysBelow, Fits
<1>3. Clean(y) => TouchesOnly(y, h.job.elements) /\ StaysBelow(y)
  BY DEF Clean, TouchesOnly, StaysBelow
<1>4. AllDone(d, h.job.elements) => AllDone(y, h.job.elements)
  BY DEF AllDone, Written
<1> QED
  BY <1>1, <1>2, <1>3, <1>4 DEF MemoryInv

(* The device carries out what it was told.                                  *)
LEMMA CarriedOut ==
    ASSUME NEW h, NEW c, NEW d, DInv(h, c, d), d.state = "dnloadBusy",
           h.todo = <<>> \/ First(h.todo).asks \in Status,
           NEW y, y = Executed(d)
    PROVE  DInv(h, c, y)
<1> DEFINE e == h.job.elements
           blind == h.blind
<1>1. /\ e \in Elements /\ blind \in BOOLEAN /\ HostType(h) /\ DeviceType(d, blind) /\ ClaimInv(c, d) /\ TodoInv(h, c, d)
      /\ MemoryInv(h, d) /\ CommandInv(h, c, d) /\ BlocksInv(h, c, d)
      /\ Stacked(h) => e = <<e[1]>> /\ e[1].size \in Nat \ {0}
  BY DEF DInv, HostType, Elements
<1>2. Pending(d) /\ c # "lost"
  BY <1>1 DEF Pending, ClaimInv
<1>3. Harmless(d, blind) \/ Mine(h, c, d)
  BY <1>1, <1>2 DEF CommandInv, Foreign, Harmless
<1>4. Mine(h, c, d) => WritesMemory(h) /\ OwnCommand(d, e) /\ (h.todo # <<>> => Downloading(h, c, d))
  BY DEF Mine
<1>5. h.todo # <<>> => First(h.todo).asks \in Transfers
  BY DEF Transfers
<1>6. h.todo # <<>> =>
        /\ c = "host" /\ (WritesMemory(h) => ~Beginning(h, d)) /\ ~Placing(h, d) /\ ~Ending(h)
        /\ WritesMemory(h) => Reading(h, d) \/ Downloading(h, c, d)
  BY <1>1, <1>5, WhoseTransfer DEF Plain
<1>7. ~Ending(h)
  BY <1>6, ShortTodos DEF Ending
<1>8. ASSUME Harmless(d, blind)
      PROVE  /\ DeviceType(y, blind) /\ MemoryInv(h, y) /\ y.state \in {"dnloadIdle", "error", "gone"} /\ y.memory = d.memory
             /\ d.cmd \in Pointers \cup Raws => y.options = d.options
  <2>1. /\ DeviceType(y, blind) /\ Keeps(d, y, {"alt", "cmd", "memory"})
        /\ y.state \in {"dnloadIdle", "error", "gone"}
        /\ d.cmd \in Pointers \cup Raws => y.options = d.options
    BY <1>1, <1>8, CarryForeign DEF Harmless
  <2>2. y.memory = d.memory
    BY <2>1 DEF Keeps
  <2>3. y.options = d.options \/ Clean(d)
    BY <1>8, <2>1 DEF Harmless
  <2> QED
    BY <1>1, <2>1, <2>2, <2>3, SameMemory
<1>9. ASSUME Mine(h, c, d) PROVE DeviceType(y, blind) /\ MemoryInv(h, y) /\ y.state \in {"dnloadIdle", "error", "gone"}
  <2>1. DeviceType(y, blind) /\ y.state \in {"dnloadIdle", "error"}
    BY <1>1, <1>4, <1>9, OwnCarried
  <2>2. y.options = d.options
    <3>1. Keeps(d, y, {"alt", "cmd", "pointer", "options"})
      BY <1>1, <1>4, <1>9, OwnCarried
    <3> QED
      BY <3>1 DEF Keeps
  <2>3. Fits(e, y) => Fits(e, d)
    BY <2>2 DEF Fits
  <2>4. TouchesOnly(y, e) /\ (Stacked(h) /\ Fits(e, y) => StaysBelow(y))
    BY <1>1, <1>4, <1>9, <2>3, OwnMemory DEF MemoryInv
  <2> QED
    BY <1>4, <1>9, <2>1, <2>4 DEF MemoryInv
<1>10. DeviceType(y, blind) /\ MemoryInv(h, y) /\ ~Pending(y) /\ ClaimInv(c, y)
  BY <1>1, <1>2, <1>3, <1>8, <1>9 DEF Pending, ClaimInv
<1>11. ASSUME h.todo # <<>>, WritesMemory(h), Downloading(h, c, d) PROVE Downloading(h, c, y) /\ Progress(Items(h), y, e)
  <2>1. DownloadsItems(Items(h), d, e)
    BY <1>11 DEF Downloading
  <2>2. Harmless(d, blind) \/ OwnCommand(d, e)
    BY <1>3, <1>4
  <2>3. Progress(Items(h), d, e)
    BY <1>1, <1>11 DEF BlocksInv
  <2>4. DownloadsItems(Items(h), y, e) /\ Progress(Items(h), y, e)
    BY <1>1, <2>1, <2>2, <2>3, ExecutedStays
  <2> QED
    BY <1>10, <1>11, <2>4 DEF Downloading
<1>12. ASSUME Reading(h, d) PROVE Reading(h, y)
  <2>1. h.todo # <<>>
    BY <1>12 DEF Reading
  <2>2. ~Mine(h, c, d)
    BY <1>4, <1>12, <2>1, Apart
  <2>3. y.memory = d.memory
    BY <1>3, <1>8, <2>2
  <2>4. Clean(y)
    BY <1>12, <2>3 DEF Reading, Clean
  <2> QED
    BY <1>12, <2>4 DEF Reading
<1>13. TodoInv(h, c, y)
  <2>1. WritesMemory(h) /\ h.todo # <<>> => Reading(h, y) \/ Downloading(h, c, y)
    BY <1>6, <1>11, <1>12
  <2> QED
    BY <1>1, <2>1 DEF TodoInv
<1>14. CommandInv(h, c, y)
  BY <1>10 DEF CommandInv
<1>15. BlocksInv(h, c, y)
  <2>1. SUFFICES ASSUME WritesMemory(h)
                 PROVE  /\ Downloading(h, c, y) => Progress(Items(h), y, e)
                        /\ h.result = "ok" => AllWritten(h, c, y)
    BY <1>7 DEF BlocksInv
  <2>2. ASSUME Downloading(h, c, y) PROVE Progress(Items(h), y, e)
    <3>1. h.todo # <<>>
      BY <2>2 DEF Downloading
    <3>2. ~Reading(h, d)
      BY <2>2, Apart
    <3> QED
      BY <1>6, <1>11, <2>1, <3>1, <3>2
  <2>3. ASSUME h.result = "ok" PROVE AllWritten(h, c, y)
    <3>1. AllWritten(h, c, d)
      BY <1>1, <2>1, <2>3 DEF BlocksInv
    <3>2. Harmless(d, blind)
      BY <1>2, <3>1 DEF AllWritten, Foreign, Harmless
    <3>3. y.memory = d.memory
      BY <1>8, <3>2
    <3>4. AllDone(y, e)
      BY <3>1, <3>3, SameMemory DEF AllWritten, AllDone
    <3> QED
      BY <1>10, <3>4 DEF AllWritten, AllDone
  <2> QED
    BY <2>2, <2>3
<1> QED
  BY <1>1, <1>10, <1>13, <1>14, <1>15 DEF DInv

(* The device answers otherwise.                                             *)
Quiet(d, item, y) ==
    \/ y = d
    \/ Shifts(d, item, y)
    \/ item.asks = "alt" /\ y = [d EXCEPT !.alt = item.arg]
    \/ item.asks = "dnload" /\ d.state \in {"idle", "dnloadIdle"} /\ y = Accepted(d, item)

(* An answer that carries nothing out keeps the invariant. *)
LEMMA Answered ==
    ASSUME NEW h, NEW c, NEW d, DInv(h, c, d), h.todo # <<>>, NEW item, item = First(h.todo), item.asks \in Transfers,
           NEW y, Quiet(d, item, y), y # d
    PROVE  DInv(h, c, y)
<1> DEFINE e == h.job.elements
           blind == h.blind
<1>1. /\ e \in Elements /\ blind \in BOOLEAN /\ HostType(h) /\ DeviceType(d, blind) /\ ClaimInv(c, d) /\ TodoInv(h, c, d)
      /\ MemoryInv(h, d) /\ CommandInv(h, c, d) /\ BlocksInv(h, c, d)
      /\ DOMAIN d = DeviceFields
  BY DEF DInv, HostType, Elements, DeviceType, DeviceFields
<1>2. /\ c = "host" /\ (WritesMemory(h) => ~Beginning(h, d)) /\ ~Placing(h, d) /\ ~Ending(h)
      /\ \/ Plain(h) /\ ~Reading(h, d)
         \/ WritesMemory(h) /\ Reading(h, d) /\ ~Downloading(h, c, d)
         \/ WritesMemory(h) /\ Downloading(h, c, d) /\ ~Reading(h, d)
      /\ Reading(h, d) \/ Downloading(h, c, d) => item = Items(h)[1]
  BY <1>1, WhoseTransfer
<1>3. /\ y.memory = d.memory /\ y.options = d.options /\ y.pointer = d.pointer /\ DOMAIN y = DOMAIN d
      /\ \/ Shifts(d, item, y) /\ y.alt = d.alt /\ y.cmd = d.cmd /\ (Pending(y) => Pending(d)) /\ y.state \in DeviceStates
         \/ item.asks = "alt" /\ y = [d EXCEPT !.alt = item.arg] /\ y.alt = item.arg /\ y.cmd = d.cmd /\ y.state = d.state
         \/ /\ item.asks = "dnload" /\ d.state \in {"idle", "dnloadIdle"} /\ y = Accepted(d, item)
            /\ y.alt = d.alt /\ y.cmd = item.arg
            /\ y.state = IF item.arg.cmd = "leave" THEN "manifestSync" ELSE "dnloadSync"
  <2>1. CASE Shifts(d, item, y)
    <3>1. Keeps(d, y, {"alt", "pointer", "cmd", "memory", "options"}) /\ y.state \in DeviceStates
          /\ (y.state \in {"dnloadSync", "dnloadBusy"} => Pending(d))
      BY <1>1, <2>1, ShiftFields
    <3> QED
      BY <2>1, <3>1 DEF Keeps, Pending
  <2>2. CASE item.asks = "alt" /\ y = [d EXCEPT !.alt = item.arg]
    <3>1. Keeps(d, y, {"state", "pointer", "cmd", "memory", "options"}) /\ y.alt = item.arg
      BY <1>1, <2>2, AltFields
    <3> QED
      BY <2>2, <3>1 DEF Keeps
  <2>3. CASE item.asks = "dnload" /\ d.state \in {"idle", "dnloadIdle"} /\ y = Accepted(d, item)
    <3>1. Keeps(d, y, {"alt", "pointer", "memory", "options"}) /\ y.cmd = item.arg
          /\ y.state = IF item.arg.cmd = "leave" THEN "manifestSync" ELSE "dnloadSync"
      BY <1>1, <2>3, AcceptedFields
    <3> QED
      BY <2>3, <3>1 DEF Keeps
  <2> QED
    BY <2>1, <2>2, <2>3 DEF Quiet
<1>4. /\ WritesMemory(h) /\ Downloading(h, c, d) => item \in MemoryItems(e)
      /\ ~(WritesMemory(h) /\ Downloading(h, c, d)) => item \in PlainItems(blind) /\ Clean(d)
  <2>1. CASE Plain(h) /\ ~WritesMemory(h)
    <3>1. item \in PlainItems(blind)
      BY <1>1, <2>1, PlainParted DEF Plain
    <3> QED
      BY <1>1, <2>1, <3>1 DEF MemoryInv
  <2>2. CASE WritesMemory(h) /\ Reading(h, d) /\ ~Downloading(h, c, d)
    <3>1. Items(h) \in Seq(PlainItems(blind)) /\ Items(h) # <<>> /\ Clean(d)
      BY <2>2 DEF Reading
    <3> QED
      BY <1>2, <2>2, <3>1, Tails
  <2>3. CASE WritesMemory(h) /\ Downloading(h, c, d) /\ ~Reading(h, d)
    <3>1. Items(h) \in Seq(MemoryItems(e)) /\ Items(h) # <<>>
      BY <2>3 DEF Downloading, DownloadsItems
    <3> QED
      BY <1>2, <2>3, <3>1, Tails
  <2> QED
    BY <1>2, <2>1, <2>2, <2>3 DEF Plain
<1>5. item.asks = "alt" => item.arg \in {0, 1}
  BY <1>4 DEF PlainItems, MemoryItems, Questions, GivesUpItem, Alts, Downloads
<1>6. DeviceType(y, blind)
  BY <1>1, <1>3, <1>5 DEF DeviceType, DeviceStates
<1>7. MemoryInv(h, y) /\ (Clean(d) => Clean(y))
  BY <1>1, <1>3, SameMemory
<1>8. ClaimInv(c, y)
  BY <1>1, <1>2 DEF ClaimInv
<1>9. ASSUME WritesMemory(h), Downloading(h, c, d)
      PROVE  DownloadsItems(Items(h), y, e) /\ Progress(Items(h), y, e)
  <2>1. DownloadsItems(Items(h), d, e) /\ Progress(Items(h), d, e) /\ item = Items(h)[1]
    BY <1>1, <1>2, <1>9 DEF Downloading, BlocksInv
  <2>2. CASE Shifts(d, item, y)
    BY <1>1, <2>1, <2>2, ShiftStays
  <2>3. CASE item.asks = "alt" /\ y = [d EXCEPT !.alt = item.arg]
    BY <1>1, <2>1, <2>3, AltStays
  <2>4. CASE item.asks = "dnload" /\ d.state \in {"idle", "dnloadIdle"} /\ y = Accepted(d, item)
    BY <1>1, <2>1, <2>4, AcceptedStays
  <2> QED
    BY <1>3, <2>2, <2>3, <2>4
<1>10. ASSUME WritesMemory(h), Downloading(h, c, d), item.asks = "dnload", y.alt = d.alt, y.cmd = item.arg, Pending(y)
       PROVE  IsDownload(item) /\ (y.cmd \in Pointers \/ OwnCommand(y, e))
  <2>1. DownloadsItems(Items(h), y, e) /\ item = Items(h)[1] /\ IsDownload(item)
    BY <1>2, <1>9, <1>10 DEF IsDownload
  <2>2. /\ item.arg \in Pointers \cup Erasures(e) \cup BlockWrites(e)
        /\ IsWrite(item) => y.alt = FlashAlt
    BY <1>1, <2>1, HeadOfDownload
  <2>3. CASE item.arg \in BlockWrites(e)
    <3>1. PICK k \in DOMAIN e : \E b \in BlocksOf(e, k) : item.arg = BlockWrite(e, k, b)
      BY <2>3 DEF BlockWrites
    <3>2. PICK b \in BlocksOf(e, k) : item.arg = BlockWrite(e, k, b)
      BY <3>1
    <3>3. item = WriteItem(e, k, b)
      <4>1. item = [asks |-> "dnload", arg |-> item.arg]
        BY <1>4, <1>10 DEF MemoryItems, Questions, GivesUpItem, Alts, Downloads
      <4> QED
        BY <3>2, <4>1 DEF WriteItem, Item
    <3>4. WritesOf(item, e, k)
      BY <2>1, <3>3 DEF WritesOf
    <3>5. IsWrite(item) /\ y.cmd.cmd = "write"
      BY <1>10, <3>4, WritesAreWrites DEF IsWrite
    <3>6. Aimed(y, e, k)
      BY <2>1, <3>4 DEF DownloadsItems, AimedAt, WritesNext
    <3>7. y.cmd # Command("pointer", e[k].at, <<>>)
      BY <3>5 DEF Command
    <3>8. y.pointer = e[k].at
      BY <1>10, <3>6, <3>7 DEF Aimed, Pending
    <3> QED
      BY <1>10, <2>1, <2>2, <3>2, <3>5, <3>8 DEF OwnCommand
  <2> QED
    BY <1>10, <2>1, <2>2, <2>3 DEF OwnCommand
<1>11. ASSUME WritesMemory(h), Downloading(h, c, d), Pending(y)
       PROVE  Foreign(h, c, y) \/ (OwnCommand(y, e) /\ (IsDownload(item) \/ IsPoll(item)))
  <2>1. CASE y.alt = d.alt /\ y.cmd = d.cmd /\ Pending(d)
    <3>1. Foreign(h, c, d) \/ (OwnCommand(d, e) /\ (IsDownload(item) \/ IsPoll(item)))
      BY <1>1, <1>2, <1>11, <2>1 DEF CommandInv, Mine
    <3> QED
      BY <1>2, <1>3, <1>7, <2>1, <3>1 DEF Foreign, OwnCommand
  <2>2. CASE item.asks = "alt" /\ y.cmd = d.cmd /\ y.state = d.state
    <3>1. Pending(d) /\ ~IsDownload(item) /\ ~IsPoll(item)
      BY <1>11, <2>2 DEF Pending, IsDownload, IsPoll
    <3>2. Foreign(h, c, d)
      BY <1>1, <1>2, <1>11, <3>1 DEF CommandInv, Mine
    <3> QED
      BY <1>2, <1>7, <2>2, <3>2 DEF Foreign
  <2>3. CASE item.asks = "dnload" /\ y.alt = d.alt /\ y.cmd = item.arg
    BY <1>10, <1>11, <2>3 DEF Foreign
  <2> QED
    BY <1>3, <1>11, <2>1, <2>2, <2>3
<1>12. ASSUME WritesMemory(h), Downloading(h, c, d) PROVE Downloading(h, c, y)
  <2>2. ASSUME Stacked(h), Pending(y) PROVE y.cmd \in Pointers \cup Raws \/ OwnCommand(y, e)
    <3>1. CASE y.alt = d.alt /\ y.cmd = d.cmd /\ Pending(d)
      BY <1>3, <1>12, <2>2, <3>1 DEF Downloading, OwnCommand
    <3>2. CASE item.asks = "alt" /\ y.alt = item.arg /\ y.cmd = d.cmd /\ y.state = d.state
      <4>1. y.alt = FlashAlt
        BY <1>1, <1>2, <1>12, <3>2, HeadOfDownload DEF Downloading
      <4>2. Pending(d)
        BY <2>2, <3>2 DEF Pending
      <4> QED
        BY <1>3, <1>12, <2>2, <3>2, <4>1, <4>2 DEF Downloading, OwnCommand
    <3>3. CASE item.asks = "dnload" /\ y.alt = d.alt /\ y.cmd = item.arg
      BY <1>10, <1>12, <2>2, <3>3
    <3> QED
      BY <1>3, <2>2, <3>1, <3>2, <3>3
  <2> QED
    BY <1>9, <1>12, <2>2 DEF Downloading
<1>13. ASSUME ~(WritesMemory(h) /\ Downloading(h, c, d)), Pending(y) PROVE Foreign(h, c, y)
  <2>1. Clean(y)
    BY <1>4, <1>7, <1>13
  <2>2. CASE y.cmd = d.cmd /\ Pending(d)
    <3>1. Foreign(h, c, d)
      BY <1>1, <1>13, <2>2 DEF CommandInv, Mine
    <3> QED
      BY <1>2, <2>1, <2>2, <3>1 DEF Foreign
  <2>3. CASE item.asks = "dnload" /\ y.cmd = item.arg /\ item.arg.cmd # "leave"
    <3>1. item.arg \in Pointers \cup Raws \cup Leaves \cup OptionWrites(blind)
      BY <1>4, <1>13, <2>3 DEF PlainItems, Questions, Alts, Downloads
    <3>2. item.arg \notin Leaves
      BY <2>3 DEF Leaves
    <3> QED
      BY <2>1, <2>3, <3>1, <3>2 DEF Foreign
  <2> QED
    BY <1>3, <1>13, <2>2, <2>3 DEF Pending
<1>14. CommandInv(h, c, y)
  <2>1. SUFFICES ASSUME Pending(y) PROVE Foreign(h, c, y) \/ Mine(h, c, y)
    BY DEF CommandInv
  <2>2. CASE WritesMemory(h) /\ Downloading(h, c, d)
    <3>1. Downloading(h, c, y) /\ item = Items(h)[1]
      BY <1>2, <1>12, <2>2
    <3> QED
      BY <1>2, <1>11, <2>1, <2>2, <3>1 DEF Mine
  <2> QED
    BY <1>13, <2>1, <2>2
<1>15. TodoInv(h, c, y)
  <2>1. Reading(h, d) => Reading(h, y)
    BY <1>7 DEF Reading
  <2> QED
    BY <1>1, <1>2, <1>12, <2>1 DEF TodoInv, Plain
<1>16. BlocksInv(h, c, y)
  <2>1. h.result # "ok"
    BY <1>1 DEF HostType
  <2>2. ASSUME WritesMemory(h), Downloading(h, c, y) PROVE Progress(Items(h), y, e)
    <3>1. ~Reading(h, d)
      BY <2>2, Apart
    <3> QED
      BY <1>2, <1>9, <2>2, <3>1 DEF Plain
  <2> QED
    BY <1>2, <2>1, <2>2 DEF BlocksInv
<1> QED
  BY <1>1, <1>6, <1>7, <1>8, <1>14, <1>15, <1>16 DEF DInv

(* A download and a reading have two calls left, the others one or none.     *)
LEMMA OneLeft ==
    ASSUME NEW h, NEW c, NEW d
    PROVE  /\ Downloading(h, c, d) => Tail(h.todo) = End /\ ~Ending(h)
           /\ Reading(h, d) => Tail(h.todo) = Then("place") /\ ~Ending(h)
           /\ Ending(h) => ~Placing(h, d)
<1>1. ASSUME Downloading(h, c, d) PROVE Tail(h.todo) = End
  <2>1. PICK s : s = Items(h)
    OBVIOUS
  <2>2. PICK todo : todo = DownloadTodo(s) /\ Tail(todo) = End
    BY TodoForms
  <2>3. h.todo = todo
    BY <1>1, <2>1, <2>2 DEF Downloading
  <2> QED
    BY <2>2, <2>3
<1>2. ASSUME Reading(h, d) PROVE Tail(h.todo) = Then("place")
  <2>1. PICK s : s = Items(h)
    OBVIOUS
  <2>2. PICK todo : todo = <<May(s)>> \o Then("place") /\ Tail(todo) = Then("place")
    BY TodoForms
  <2>3. h.todo = todo
    BY <1>2, <2>1, <2>2 DEF Reading
  <2> QED
    BY <2>2, <2>3
<1>3. Tail(End) = <<>> /\ End # <<>> /\ Then("place") # <<>> /\ First(End).asks # First(Then("place")).asks
  BY ShortTodos DEF Item
<1> QED
  BY <1>1, <1>2, <1>3 DEF Ending, Placing

(* Only the number of tries differs.                                         *)
LEMMA SameHost ==
    ASSUME NEW h, NEW c, NEW d, DInv(h, c, d), NEW x, Stays(h, x)
    PROVE  DInv(x, c, d)
<1>1. x.job = h.job /\ x.blind = h.blind /\ x.todo = h.todo /\ x.read = h.read /\ x.result = h.result /\ DOMAIN x = HostFields
  BY DEF Stays, SameJob
<1>2. HostType(x) = HostType(h) /\ WritesMemory(x) = WritesMemory(h) /\ Stacked(x) = Stacked(h) /\ Items(x) = Items(h)
  <2>1. DOMAIN h = DOMAIN x
    BY <1>1 DEF DInv, HostType, HostFields
  <2> QED
    BY <1>1, <2>1 DEF HostType, WritesMemory, Stacked, Items
<1>3. /\ Downloading(x, c, d) = Downloading(h, c, d) /\ Foreign(x, c, d) = Foreign(h, c, d)
      /\ Reading(x, d) = Reading(h, d) /\ Placing(x, d) = Placing(h, d) /\ Beginning(x, d) = Beginning(h, d)
      /\ Ending(x) = Ending(h)
  BY <1>1, <1>2 DEF Downloading, Foreign, Reading, Placing, Beginning, Ending
<1>4. Mine(x, c, d) = Mine(h, c, d)
  BY <1>1, <1>2, <1>3 DEF Mine
<1>5. CommandInv(x, c, d) = CommandInv(h, c, d)
  BY <1>3, <1>4 DEF CommandInv
<1>6. TodoInv(x, c, d) = TodoInv(h, c, d)
  BY <1>1, <1>2, <1>3 DEF TodoInv
<1>7. MemoryInv(x, d) = MemoryInv(h, d)
  BY <1>1, <1>2 DEF MemoryInv
<1>8. BlocksInv(x, c, d) = BlocksInv(h, c, d)
  <2>1. AllWritten(x, c, d) = AllWritten(h, c, d)
    BY <1>1, <1>3 DEF AllWritten
  <2> QED
    BY <1>1, <1>2, <1>3, <2>1 DEF BlocksInv
<1> QED
  BY <1>1, <1>2, <1>5, <1>6, <1>7, <1>8 DEF DInv

(* What the host reads and how the transaction ends.                         *)
LEMMA TypeKept ==
    ASSUME NEW h, NEW d, HostType(h), DeviceType(d, h.blind), NEW x, SameJob(h, x),
           x.read = h.read \/ x.read = d.options,
           x.result \in {"failed", h.result} \/ (x.result = "ok" /\ x.todo = <<>>),
           h.result # "ok"
    PROVE  HostType(x)
<1>1. x.read \in AnyOptions /\ (x.read # NothingRead => x.read.kept \/ x.blind)
  BY DEF HostType, DeviceType, KeptOptions, SameJob
<1>2. x.result \in {"none", "running", "ok", "failed"} /\ (x.result = "ok" => x.todo = <<>>)
  BY DEF HostType
<1>3. Stacked(x) = Stacked(h) /\ x.job = h.job /\ x.blind = h.blind /\ DOMAIN x = HostFields
  BY DEF SameJob, Stacked
<1> QED
  BY <1>1, <1>2, <1>3 DEF HostType, HostFields

(* A call that fails.                                                        *)
LEMMA GaveUp ==
    ASSUME NEW h, NEW c, NEW d, DInv(h, c, d), h.todo # <<>>, Head(h.todo).must \in BOOLEAN, NEW x, GivesUp(h, x)
    PROVE  DInv(x, c, d)
<1>1. /\ HostType(h) /\ DeviceType(d, h.blind) /\ ClaimInv(c, d) /\ TodoInv(h, c, d)
      /\ MemoryInv(h, d) /\ CommandInv(h, c, d) /\ BlocksInv(h, c, d)
  BY DEF DInv
<1>2. /\ SameJob(h, x) /\ x.job = h.job /\ x.blind = h.blind /\ x.read = h.read
      /\ WritesMemory(x) = WritesMemory(h) /\ Stacked(x) = Stacked(h)
  BY DEF GivesUp, SameJob, WritesMemory, Stacked
<1>3. h.result # "ok"
  BY <1>1 DEF HostType
<1>4. MemoryInv(x, d) /\ (Foreign(h, c, d) => Foreign(x, c, d))
  BY <1>1, <1>2 DEF MemoryInv, Foreign
<1>5. CASE Head(h.todo).must = TRUE
  <2>1. x.todo = (IF EndsAnyway(h.job.kind) THEN EndAnyway ELSE <<>>) /\ x.result = "failed"
    BY <1>5 DEF GivesUp
  <2>2. WritesMemory(h) => x.todo = <<>>
    BY <2>1 DEF WritesMemory, EndsAnyway
  <2>3. HostType(x)
    BY <1>1, <1>2, <1>3, <2>1, TypeKept
  <2>4. TodoInv(x, c, d)
    <3>1. x.todo \in PlainTodos(x.blind)
      <4>1. <<>> \in PlainTodos(x.blind) /\ EndAnyway \in PlainTodos(x.blind)
        <5>1. PICK W, T, A : W = PlainWork(x.blind) /\ T = PlainTodos(x.blind) /\ A = AnyWork(x.blind)
          OBVIOUS
        <5> QED
          BY <5>1, PlainTodo
      <4> QED
        BY <2>1, <4>1
    <3> QED
      BY <1>2, <2>1, <2>2, <3>1 DEF TodoInv
  <2>5. CommandInv(x, c, d)
    <3>1. Mine(h, c, d) => Mine(x, c, d)
      BY <1>2, <2>2 DEF Mine
    <3> QED
      BY <1>1, <1>4, <3>1 DEF CommandInv
  <2>6. BlocksInv(x, c, d)
    <3>1. WritesMemory(x) => ~Downloading(x, c, d) /\ ~Ending(x)
      BY <1>2, <2>2, ShortTodos DEF Downloading, Ending
    <3> QED
      BY <2>1, <3>1 DEF BlocksInv
  <2> QED
    BY <1>1, <1>2, <1>4, <2>3, <2>4, <2>5, <2>6 DEF DInv
<1>6. CASE Head(h.todo).must = FALSE
  <2>1. x.todo = Tail(h.todo) /\ x.result = (IF x.todo = <<>> /\ h.result = "running" THEN "ok" ELSE h.result)
    BY <1>6 DEF GivesUp, Resulted
  <2>2. HostType(x)
    BY <1>1, <1>2, <1>3, <2>1, TypeKept
  <2>3. c # "host" => x.todo = <<>>
    <3>1. ~(h.job.kind # "none" /\ h.todo = Calls(h.job))
      <4>1. ClaimCall.must = TRUE
        BY DEF ClaimCall, Must
      <4> QED
        BY <1>1, <1>6, <4>1, ClaimIsFirst
    <3> QED
      BY <1>1, <2>1, <3>1, ShortTodos DEF TodoInv
  <2>4. WritesMemory(h) => Reading(h, d)
    <3>1. ~Placing(h, d) /\ ~Ending(h) /\ ~Downloading(h, c, d)
      BY <1>6, ShortTodos, Apart DEF Placing, Ending
    <3>2. WritesMemory(h) => ~Beginning(h, d)
      <4>1. ClaimCall.must = TRUE
        BY DEF ClaimCall, Must
      <4>2. WritesMemory(h) => h.job.kind # "none"
        BY DEF WritesMemory
      <4> QED
        BY <1>1, <1>6, <4>1, <4>2, ClaimIsFirst DEF Beginning
    <3> QED
      BY <1>1, <3>1, <3>2 DEF TodoInv
  <2>5. ASSUME WritesMemory(h) PROVE Placing(x, d) /\ ~Downloading(x, c, d) /\ ~Ending(x) /\ x.result # "ok"
    <3>1. Reading(h, d) /\ x.todo = Then("place")
      BY <2>1, <2>4, <2>5, OneLeft
    <3>2. Placing(x, d)
      BY <1>2, <3>1 DEF Reading, Placing
    <3>3. ~Downloading(x, c, d) /\ ~Ending(x)
      BY <3>1, <3>2, ShortTodos, OneLeft
    <3> QED
      BY <1>3, <2>1, <3>1, <3>2, <3>3, ShortTodos
  <2>6. TodoInv(x, c, d)
    <3>1. ASSUME ~WritesMemory(h) PROVE x.todo \in PlainTodos(x.blind)
      <4>1. h.todo \in PlainTodos(h.blind)
        BY <1>1, <3>1 DEF TodoInv
      <4>2. Tail(h.todo) \in PlainTodos(h.blind)
        BY <4>1, PlainParted
      <4> QED
        BY <1>2, <2>1, <4>2
    <3> QED
      BY <1>2, <2>3, <2>5, <3>1 DEF TodoInv
  <2>7. CommandInv(x, c, d)
    <3>1. ~Mine(h, c, d)
      BY <2>4, Apart DEF Mine
    <3> QED
      BY <1>1, <1>4, <3>1 DEF CommandInv
  <2>8. BlocksInv(x, c, d)
    BY <1>2, <2>5 DEF BlocksInv
  <2> QED
    BY <1>1, <1>2, <1>4, <2>2, <2>6, <2>7, <2>8 DEF DInv
<1> QED
  BY <1>5, <1>6

(* The rest of a call, with what the host puts before it.                    *)
LEMMA SwappedPlain ==
    ASSUME NEW blind, NEW todo \in PlainTodos(blind), todo # <<>>, First(todo).asks \in Transfers, NEW p \in Detours
    PROVE  Swapped(todo, p) \in PlainTodos(blind)
<1> DEFINE I == PlainItems(blind)
           u == p \o Tail(Head(todo).items)
<1>1. PICK x, t : x = Head(todo) /\ t = Tail(todo) /\ x \in CallsOf(I) /\ t \in PlainTodos(blind)
  BY PlainParted
<1>2. p \in Seq(I)
  <2>1. p \in Seq(Questions) /\ Questions \subseteq I
    BY PrefixType DEF PlainItems
  <2> QED
    BY <2>1, SeqMonotonic
<1>3. u \in Seq(I)
  <2>1. Tail(x.items) \in Seq(I)
    <3>1. x.items \in Seq(I) /\ x.items # <<>>
      BY <1>1 DEF CallsOf
    <3> HIDE DEF I
    <3> QED
      BY <3>1, HeadTailProperties
  <2> HIDE DEF I
  <2> QED
    BY <1>1, <1>2, <2>1, ConcatProperties
<1> HIDE DEF u
<1>4. CASE u = <<>>
  BY <1>1, <1>4 DEF Swapped, u
<1>5. CASE u # <<>>
  <2>0. [items |-> u, must |-> x.must] \in PlainWork(blind)
    BY <1>1, <1>3, <1>5 DEF CallsOf, PlainWork
  <2>1. PICK y : y = [items |-> u, must |-> x.must] /\ y \in PlainWork(blind)
    BY <2>0
  <2>2. Swapped(todo, p) = <<y>> \o t
    BY <1>1, <1>5, <2>1 DEF Swapped, u
  <2> QED
    BY <1>1, <2>1, <2>2, PlainPrepended
<1> QED
  BY <1>4, <1>5

(* Going on with a download, and with reading, leaves a download or reading, or ends it. *)
LEMMA SwappedForms ==
    ASSUME NEW s, NEW p
    PROVE  LET u == p \o Tail(s) IN
           /\ Swapped(DownloadTodo(s), p) = IF u = <<>> THEN End ELSE DownloadTodo(u)
           /\ Swapped(<<May(s)>> \o Then("place"), p) = IF u = <<>> THEN Then("place") ELSE <<May(u)>> \o Then("place")
<1> DEFINE u == p \o Tail(s)
<1>1. PICK todo : /\ todo = DownloadTodo(s) /\ Head(todo) = Must(s) /\ Tail(todo) = End
                  /\ Must(s).items = s /\ Must(s).must = TRUE
  BY TodoForms
<1>2. PICK list : /\ list = <<May(s)>> \o Then("place") /\ Head(list) = May(s) /\ Tail(list) = Then("place")
                  /\ May(s).items = s /\ May(s).must = FALSE
  BY TodoForms
<1>3. Swapped(todo, p) = IF u = <<>> THEN End ELSE <<[items |-> u, must |-> TRUE]>> \o End
  BY <1>1 DEF Swapped
<1>4. Swapped(list, p) = IF u = <<>> THEN Then("place") ELSE <<[items |-> u, must |-> FALSE]>> \o Then("place")
  BY <1>2 DEF Swapped
<1>5. DownloadTodo(u) = <<[items |-> u, must |-> TRUE]>> \o End
  BY DEF DownloadTodo, Must
<1>6. <<May(u)>> \o Then("place") = <<[items |-> u, must |-> FALSE]>> \o Then("place")
  BY DEF May
<1> QED
  BY <1>1, <1>2, <1>3, <1>4, <1>5, <1>6

(* The uploads of a call stay its last items.                                *)
LEMMA UploadsStayLast ==
    ASSUME NEW I, NEW s \in Seq(I), s # <<>>, UploadsLast(s), NEW p \in Detours, NEW u, u = p \o Tail(s)
    PROVE  UploadsLast(u)
<1> DEFINE t == Tail(s)
<1>1. t \in Seq(I) /\ Len(t) = Len(s) - 1 /\ Len(s) \in Nat
  BY HeadTailProperties, LenProperties
<1>2. PICK n \in Nat : Len(s) = n + 1 /\ DOMAIN s = 1..n + 1 /\ DOMAIN t = 1..n /\ \A i \in 1..n : t[i] = s[i + 1] /\ i + 1 \in DOMAIN s
  BY Tails
<1>3. p \in Seq(Questions) /\ \A i \in DOMAIN p : p[i].asks # "upload"
  BY PrefixType
<1> HIDE DEF t
<1>4. p \in Seq(I \cup Questions) /\ t \in Seq(I \cup Questions)
  BY <1>1, <1>3, SeqMonotonic
<1>5. PICK m, l : Joins(p, t, m, l)
  BY <1>4, Joined
<1>6. /\ m \in Nat /\ l \in Nat /\ DOMAIN p = 1..m /\ DOMAIN t = 1..l /\ DOMAIN (p \o t) = 1..m + l
      /\ (\A i \in 1..m : (p \o t)[i] = p[i]) /\ (\A i \in 1..m + l : i > m => (p \o t)[i] = t[i - m])
      /\ l = Len(t)
  BY <1>5 DEF Joins
<1>7. l = n
  BY <1>1, <1>2, <1>6
<1>8. Len(p \o t) = m + n
  <2>1. Len(p \o t) = Len(p) + Len(t) /\ m = Len(p)
    BY <1>4, <1>5, ConcatProperties DEF Joins
  <2> QED
    BY <1>6, <1>7, <2>1
<1>9. ASSUME NEW i \in 1..m + n, (p \o t)[i].asks = "upload" PROVE i = m + n
  <2>1. i > m
    <3>1. i \notin 1..m
      <4>1. \A x \in 1..m : (p \o t)[x].asks # "upload"
        BY <1>3, <1>6
      <4> QED
        BY <1>9, <4>1
    <3> QED
      BY <1>2, <1>6, <1>9, <3>1
  <2>2. PICK j \in 1..n : j = i - m
    <3>1. i - m \in 1..n
      BY <1>6, <2>1
    <3> QED
      BY <3>1
  <2>3. t[j].asks = "upload"
    BY <1>6, <1>7, <1>9, <2>1, <2>2
  <2>4. j + 1 \in DOMAIN s /\ s[j + 1].asks = "upload"
    BY <1>2, <2>3
  <2>5. j + 1 = n + 1
    BY <1>2, <2>4 DEF UploadsLast
  <2> QED
    BY <1>6, <2>2, <2>5
<1> QED
  BY <1>6, <1>7, <1>8, <1>9 DEF UploadsLast, t

(* An item that is done.                                                     *)
LEMMA WentOn ==
    ASSUME NEW h, NEW c, NEW d, DInv(h, c, d), h.todo # <<>>, NEW item, item = First(h.todo), item.asks \in Transfers,
           Settled(item, d), NEW says, NEW p \in Detours, NEW x, MovesOn(h, x, item, says, p, d.options)
    PROVE  DInv(x, c, d)
<1> DEFINE e == h.job.elements
           blind == h.blind
<1>1. /\ HostType(h) /\ DeviceType(d, h.blind) /\ ClaimInv(c, d) /\ TodoInv(h, c, d)
      /\ MemoryInv(h, d) /\ CommandInv(h, c, d) /\ BlocksInv(h, c, d)
      /\ e \in Elements /\ blind \in BOOLEAN
  BY DEF DInv, HostType, Elements
<1>2. /\ SameJob(h, x) /\ x.job = h.job /\ x.blind = h.blind /\ x.todo = Swapped(h.todo, p)
      /\ x.read = (IF item.asks = "upload" THEN d.options ELSE h.read)
      /\ x.result = (IF x.todo = <<>> /\ h.result = "running" THEN "ok" ELSE h.result)
      /\ WritesMemory(x) = WritesMemory(h) /\ Stacked(x) = Stacked(h)
      /\ p # <<>> => item.asks \in {"prepare", "mayAbort"}
  BY DEF MovesOn, SameJob, WritesMemory, Stacked, Resulted
<1>3. h.result # "ok"
  BY <1>1 DEF HostType
<1>4. HostType(x)
  BY <1>1, <1>2, <1>3, TypeKept
<1>5. MemoryInv(x, d) /\ (Foreign(h, c, d) => Foreign(x, c, d))
  BY <1>1, <1>2 DEF MemoryInv, Foreign
<1>6. /\ c = "host"
      /\ \/ Plain(h) /\ ~Reading(h, d)
         \/ WritesMemory(h) /\ Reading(h, d) /\ ~Downloading(h, c, d)
         \/ WritesMemory(h) /\ Downloading(h, c, d) /\ ~Reading(h, d)
      /\ Reading(h, d) \/ Downloading(h, c, d) => item = Items(h)[1]
  BY <1>1, WhoseTransfer
<1>7. CASE Plain(h)
  <2>1. ~WritesMemory(h) /\ h.todo \in PlainTodos(blind)
    BY <1>7 DEF Plain
  <2>2. x.todo \in PlainTodos(x.blind)
    BY <1>2, <2>1, SwappedPlain
  <2>3. TodoInv(x, c, d) /\ BlocksInv(x, c, d)
    BY <1>2, <1>6, <2>1, <2>2 DEF TodoInv, BlocksInv
  <2>4. CommandInv(x, c, d)
    BY <1>1, <1>5, <2>1 DEF CommandInv, Mine
  <2> QED
    BY <1>1, <1>2, <1>4, <1>5, <2>3, <2>4 DEF DInv
<1>8. CASE WritesMemory(h) /\ Reading(h, d)
  <2>1. PICK s : s = Items(h)
    OBVIOUS
  <2>2. /\ s \in Seq(PlainItems(blind)) /\ s # <<>> /\ UploadsLast(s) /\ h.todo = <<May(s)>> \o Then("place")
        /\ item = s[1] /\ Stacked(h) /\ Clean(d) /\ h.read = NothingRead
    BY <1>6, <1>8, <2>1 DEF Reading, UploadsLast
  <2>3. PICK u : u = p \o Tail(s)
    OBVIOUS
  <2>4. x.todo = IF u = <<>> THEN Then("place") ELSE <<May(u)>> \o Then("place")
    BY <1>2, <2>2, <2>3, SwappedForms
  <2>5. item.asks = "upload" => u = <<>>
    <3>1. SUFFICES ASSUME item.asks = "upload" PROVE u = <<>>
      OBVIOUS
    <3>2. PICK n \in Nat : Len(s) = n + 1 /\ DOMAIN s = 1..n + 1 /\ (n = 0 <=> Tail(s) = <<>>)
      BY <2>2, Tails
    <3>3. 1 \in DOMAIN s /\ n = 0
      <4>1. 1 \in DOMAIN s
        BY <3>2
      <4>2. 1 = n + 1
        BY <2>2, <3>1, <3>2, <4>1 DEF UploadsLast
      <4> QED
        BY <4>1, <4>2
    <3>4. Tail(s) = <<>> /\ p = <<>>
      <4>1. p = <<>>
        BY <1>2, <3>1
      <4> QED
        BY <3>2, <3>3, <4>1
    <3> QED
      BY <2>3, <3>4
  <2>6. CASE u = <<>>
    <3>1. x.todo = Then("place")
      BY <2>4, <2>6
    <3>2. x.read # NothingRead => ~Pending(d) /\ x.read = d.options
      BY <1>2, <2>2 DEF Settled, Pending
    <3>3. Placing(x, d)
      BY <1>2, <2>2, <3>1, <3>2 DEF Placing
    <3>4. ~Downloading(x, c, d) /\ ~Ending(x) /\ x.todo # <<>>
      BY <3>1, <3>3, ShortTodos, OneLeft
    <3>5. TodoInv(x, c, d) /\ BlocksInv(x, c, d)
      BY <1>2, <1>3, <1>6, <1>8, <3>3, <3>4 DEF TodoInv, BlocksInv
    <3>6. CommandInv(x, c, d)
      BY <1>1, <1>5, <1>8, <2>2, Apart DEF CommandInv, Mine
    <3> QED
      BY <1>1, <1>2, <1>4, <1>5, <3>5, <3>6 DEF DInv
  <2>7. CASE u # <<>>
    <3>1. PICK todo : /\ todo = <<May(u)>> \o Then("place") /\ Head(todo) = May(u) /\ May(u).items = u /\ May(u).must = FALSE
                      /\ todo # <<>>
      BY TodoForms
    <3>2. x.todo = todo /\ Items(x) = u
      BY <2>4, <2>7, <3>1 DEF Items
    <3>3. x.read = NothingRead
      BY <1>2, <2>2, <2>5, <2>7
    <3>4. UploadsLast(u)
      BY <2>2, <2>3, UploadsStayLast
    <3>5. u \in Seq(PlainItems(blind))
      <4>1. Tail(s) \in Seq(PlainItems(blind))
        BY <2>2, Tails
      <4>2. p \in Seq(Questions) /\ Questions \subseteq PlainItems(blind)
        BY PrefixType DEF PlainItems
      <4>3. p \in Seq(PlainItems(blind))
        BY <4>2, SeqMonotonic
      <4> QED
        BY <2>3, <4>1, <4>3, ConcatProperties
    <3>6. Reading(x, d)
      BY <1>2, <2>2, <2>7, <3>1, <3>2, <3>3, <3>4, <3>5 DEF Reading, UploadsLast
    <3>7. ~Downloading(x, c, d) /\ ~Ending(x) /\ x.todo # <<>>
      BY <3>1, <3>2, <3>6, Apart, OneLeft
    <3>8. TodoInv(x, c, d) /\ BlocksInv(x, c, d)
      BY <1>2, <1>3, <1>6, <1>8, <3>6, <3>7 DEF TodoInv, BlocksInv
    <3>9. CommandInv(x, c, d)
      BY <1>1, <1>5, <1>8, <2>2, Apart DEF CommandInv, Mine
    <3> QED
      BY <1>1, <1>2, <1>4, <1>5, <3>8, <3>9 DEF DInv
  <2> QED
    BY <2>6, <2>7
<1>9. CASE WritesMemory(h) /\ Downloading(h, c, d)
  <2>1. PICK s : s = Items(h)
    OBVIOUS
  <2>2. /\ DownloadsItems(s, d, e) /\ Progress(s, d, e) /\ h.todo = DownloadTodo(s) /\ h.todo # <<>>
        /\ item = s[1] /\ Settled(s[1], d)
        /\ Stacked(h) /\ Pending(d) => d.cmd \in Pointers \cup Raws \/ OwnCommand(d, e)
    BY <1>1, <1>6, <1>9, <2>1 DEF Downloading, BlocksInv
  <2>3. PICK u : u = p \o Tail(s)
    OBVIOUS
  <2>4. x.todo = IF u = <<>> THEN End ELSE DownloadTodo(u)
    BY <1>2, <2>2, <2>3, SwappedForms
  <2>5. IsDownload(s[1]) \/ IsPoll(s[1]) => u = Tail(s)
    <3>1. IsDownload(s[1]) \/ IsPoll(s[1]) => p = <<>>
      BY <1>2, <2>2 DEF IsDownload, IsPoll
    <3>2. Tail(s) \in Seq(MemoryItems(e))
      BY <1>1, <2>2, HeadOfDownload
    <3> QED
      BY <2>3, <3>1, <3>2, ConcatEmptySeq
  <2>6. /\ u # <<>> => DownloadsItems(u, d, e) /\ Progress(u, d, e)
        /\ u = <<>> => AllDone(d, e)
        /\ IsDownload(s[1]) => u # <<>> /\ IsPoll(u[1])
    <3>1. CASE IsDownload(s[1])
      BY <1>1, <2>2, <2>5, <3>1, CommandTaken
    <3>2. CASE IsPoll(s[1])
      <4>1. ~IsDownload(s[1])
        BY <3>2 DEF IsPoll, IsDownload
      <4> QED
        BY <1>1, <2>2, <2>5, <3>2, <4>1, CommandDone
    <3>3. CASE ~IsDownload(s[1]) /\ ~IsPoll(s[1])
      BY <1>1, <2>2, <2>3, <3>3, NeutralAnswered
    <3> QED
      BY <3>1, <3>2, <3>3
  <2>7. Pending(d) => Foreign(h, c, d) \/ (Mine(h, c, d) /\ IsDownload(s[1]))
    <3>1. IsPoll(s[1]) => ~Pending(d)
      BY <2>2 DEF Settled, IsPoll
    <3>2. Mine(h, c, d) => IsDownload(s[1]) \/ IsPoll(s[1])
      BY <2>1, <2>2 DEF Mine
    <3> QED
      BY <1>1, <3>1, <3>2 DEF CommandInv
  <2>8. CASE u = <<>>
    <3>1. x.todo = End /\ Ending(x)
      BY <2>4, <2>8 DEF Ending
    <3>2. ~Downloading(x, c, d) /\ x.todo # <<>>
      BY <3>1, ShortTodos, OneLeft
    <3>3. Pending(d) => Foreign(x, c, d)
      BY <1>5, <2>6, <2>7, <2>8
    <3>4. AllWritten(x, c, d)
      BY <1>2, <2>6, <2>8, <3>3 DEF AllWritten, AllDone
    <3>5. TodoInv(x, c, d) /\ BlocksInv(x, c, d) /\ CommandInv(x, c, d)
      BY <1>2, <1>6, <1>9, <3>1, <3>2, <3>3, <3>4 DEF TodoInv, BlocksInv, CommandInv
    <3> QED
      BY <1>1, <1>2, <1>4, <1>5, <3>5 DEF DInv
  <2>9. CASE u # <<>>
    <3>1. PICK todo : todo = DownloadTodo(u) /\ Head(todo) = Must(u) /\ Must(u).items = u /\ todo # <<>>
      BY TodoForms
    <3>2. x.todo = todo /\ Items(x) = u
      BY <2>4, <2>9, <3>1 DEF Items
    <3>3. Downloading(x, c, d)
      BY <1>2, <1>6, <2>2, <2>6, <2>9, <3>1, <3>2 DEF Downloading
    <3>4. ~Ending(x) /\ x.result # "ok"
      BY <1>2, <1>3, <3>1, <3>2, <3>3, OneLeft
    <3>5. TodoInv(x, c, d) /\ BlocksInv(x, c, d)
      BY <1>2, <1>6, <1>9, <2>6, <2>9, <3>2, <3>3, <3>4 DEF TodoInv, BlocksInv
    <3>6. CommandInv(x, c, d)
      <4>1. Mine(h, c, d) /\ IsDownload(s[1]) => Mine(x, c, d)
        BY <1>2, <2>6, <3>2, <3>3 DEF Mine
      <4> QED
        BY <1>5, <2>7, <4>1 DEF CommandInv
    <3> QED
      BY <1>1, <1>2, <1>4, <1>5, <3>5, <3>6 DEF DInv
  <2> QED
    BY <2>8, <2>9
<1> QED
  BY <1>6, <1>7, <1>8, <1>9

AllItems(h) == PlainItems(h.blind) \cup MemoryItems(h.job.elements) \cup [asks : LocalItems, arg : {0}]

(* A transaction asks for nothing that is not known.                         *)
LEMMA WorkIsKnown ==
    ASSUME NEW h
    PROVE  /\ AnyWork(h.blind) \subseteq CallsOf(AllItems(h))
           /\ Must(<<Item("place", 0)>>) \in CallsOf(AllItems(h)) /\ Must(<<Item("release", 0)>>) \in CallsOf(AllItems(h))
<1> DEFINE I == AllItems(h)
<1>1. PlainItems(h.blind) \subseteq I /\ \A what \in LocalItems : Item(what, 0) \in I
  BY DEF AllItems, Item
<1>2. \A item \in I : <<item>> \in Seq(I) /\ <<item>> # <<>>
  <2> HIDE DEF I
  <2> QED
    OBVIOUS
<1>3. CallsOf(PlainItems(h.blind)) \subseteq CallsOf(I)
  <2>1. Seq(PlainItems(h.blind)) \subseteq Seq(I)
    BY <1>1, SeqMonotonic
  <2> HIDE DEF I
  <2> QED
    BY <2>1 DEF CallsOf
<1>4. ASSUME NEW what \in LocalItems PROVE Must(<<Item(what, 0)>>) \in CallsOf(I) /\ May(<<Item(what, 0)>>) \in CallsOf(I)
  <2>1. PICK s : s = <<Item(what, 0)>> /\ s \in Seq(I) /\ s # <<>>
    BY <1>1, <1>2
  <2> HIDE DEF I
  <2>2. Must(s) \in CallsOf(I) /\ May(s) \in CallsOf(I)
    BY <2>1, CallType
  <2> QED
    BY <2>1, <2>2
<1>5. LocalCalls \subseteq CallsOf(I) /\ ReleaseCalls \subseteq CallsOf(I)
  <2> HIDE DEF I
  <2> QED
    BY <1>4 DEF LocalCalls, ReleaseCalls, LocalItems
<1> QED
  BY <1>3, <1>4, <1>5 DEF AnyWork, PlainWork, LocalItems

(* Whatever a transaction has left to do is made of calls that are known. *)
LEMMA CallsAreKnown ==
    ASSUME NEW h, NEW c, NEW d, HostType(h), TodoInv(h, c, d), h.todo # <<>>, ~(WritesMemory(h) /\ Beginning(h, d))
    PROVE  h.todo \in Seq(CallsOf(AllItems(h)))
<1> DEFINE blind == h.blind
           e == h.job.elements
           I == AllItems(h)
<1>1. AnyWork(blind) \subseteq CallsOf(I)
  BY WorkIsKnown
<1>2. Seq(PlainItems(blind)) \subseteq Seq(I) /\ Seq(MemoryItems(e)) \subseteq Seq(I)
  <2>1. PlainItems(blind) \subseteq I /\ MemoryItems(e) \subseteq I
    BY DEF AllItems
  <2> QED
    BY <2>1, SeqMonotonic
<1>3. End \in Seq(CallsOf(I)) /\ Then("place") \in Seq(CallsOf(I))
  <2>1. Must(<<Item("release", 0)>>) \in CallsOf(I) /\ Must(<<Item("place", 0)>>) \in CallsOf(I)
    BY WorkIsKnown
  <2> HIDE DEF I
  <2> QED
    BY <2>1 DEF End, Then
<1>4. CASE ~WritesMemory(h)
  <2>1. PICK W, T, A, todo : W = PlainWork(blind) /\ T = PlainTodos(blind) /\ A = AnyWork(blind) /\ todo = h.todo
    OBVIOUS
  <2>2. todo \in T
    BY <1>4, <2>1 DEF TodoInv
  <2>3. todo \in Seq(A)
    BY <2>1, <2>2, PlainTodo
  <2> QED
    BY <1>1, <2>1, <2>3, SeqMonotonic
<1>5. CASE WritesMemory(h)
  <2>2. CASE Reading(h, d)
    <3>1. PICK s : s = Items(h)
      OBVIOUS
    <3>2. s \in Seq(I) /\ s # <<>> /\ h.todo = <<May(s)>> \o Then("place")
      BY <1>2, <2>2, <3>1 DEF Reading
    <3>3. <<May(s)>> \in Seq(CallsOf(I))
      BY <3>2, CallType
    <3> QED
      BY <1>3, <3>2, <3>3, ConcatProperties
  <2>3. CASE Downloading(h, c, d)
    <3>1. PICK s : s = Items(h)
      OBVIOUS
    <3>2. s \in Seq(I) /\ s # <<>> /\ h.todo = <<Must(s)>> \o End
      BY <1>2, <2>3, <3>1 DEF Downloading, DownloadsItems, DownloadTodo
    <3>3. <<Must(s)>> \in Seq(CallsOf(I))
      BY <3>2, CallType
    <3> QED
      BY <1>3, <3>2, <3>3, ConcatProperties
  <2>4. CASE Placing(h, d) \/ Ending(h)
    BY <1>3, <2>4 DEF Placing, Ending
  <2> QED
    BY <1>5, <2>2, <2>3, <2>4 DEF TodoInv
<1> QED
  BY <1>4, <1>5

(* What is not done by the host alone is a control transfer. *)
LEMMA TransfersAreKnown ==
    ASSUME NEW h, NEW item \in AllItems(h), item.asks \notin LocalItems
    PROVE  item.asks \in Transfers /\ (item.asks = "poll" => "dnloadBusy" \in item.arg)
<1>1. item \in Questions \/ item \in Alts({0, 1}) \/ item \in Alts({0}) \/ item \in GivesUpItem \/ item.asks \in LocalItems
      \/ item \in Downloads(Pointers \cup Raws \cup Leaves \cup OptionWrites(h.blind))
      \/ item \in Downloads(Pointers \cup Erasures(h.job.elements) \cup BlockWrites(h.job.elements))
  BY DEF AllItems, PlainItems, MemoryItems
<1>2. CASE item \in Questions
  BY <1>2 DEF Questions, Transfers, Status, LocalItems
<1>3. item \notin Questions => item.asks \in {"alt", "dnload"}
  BY <1>1 DEF Alts, Downloads, GivesUpItem, LocalItems
<1> QED
  BY <1>2, <1>3 DEF Transfers, Status

(* Nothing that is done to the flash memory restarts the device.             *)
LEMMA NotGone ==
    ASSUME NEW blind \in BOOLEAN, NEW d, DeviceType(d, blind), NEW e \in Elements, Harmless(d, blind) \/ OwnCommand(d, e),
           d.alt = FlashAlt
    PROVE  Executed(d).state # "gone"
<1>1. DOMAIN d = DeviceFields
  BY DEF DeviceType, DeviceFields
<1>2. CASE d.cmd \in Pointers \cup Raws
  <2>1. Executed(d).state = "dnloadIdle"
    BY <1>1, <1>2, ExecutedPlain
  <2> QED
    BY <2>1
<1>3. CASE d.cmd \in OptionWrites(blind)
  <2>1. d.cmd.cmd = "write"
    BY <1>3 DEF OptionWrites
  <2>2. Executed(d).state \in {"error", "dnloadIdle"}
    BY <1>1, <2>1, ExecutedWrite
  <2> QED
    BY <2>2
<1>4. CASE OwnCommand(d, e)
  <2>1. Executed(d).state \in {"dnloadIdle", "error"}
    BY <1>4, OwnCarried
  <2> QED
    BY <2>1
<1> QED
  BY <1>2, <1>3, <1>4 DEF Harmless

(* The item is done when the host goes on.                                   *)
LEMMA ToldSettles ==
    ASSUME NEW h, NEW c, NEW d, DInv(h, c, d), h.todo # <<>>, NEW item, item = First(h.todo), item.asks \in Transfers,
           NEW y, NEW says, Told(d, item, y, says), Outcome(d, item, y),
           NEW p, NEW x, MovesOn(h, x, item, says, p, d.options)
    PROVE  Settled(item, y) /\ MovesOn(h, x, item, says, p, y.options)
<1>1. DOMAIN d = DeviceFields /\ h.job.elements \in Elements /\ h.blind \in BOOLEAN /\ DeviceType(d, h.blind)
      /\ CommandInv(h, c, d)
  BY DEF DInv, DeviceType, DeviceFields, HostType, Elements
<1>2. /\ item.asks \notin {"prepare", "mayAbort", "anyStatus"} => says # "nothing"
      /\ item.asks = "poll" => says \notin {"error", "dnloadBusy"}
  BY DEF MovesOn
<1>3. ASSUME item.asks = "alt" PROVE y.alt = item.arg
  <2>1. y = [d EXCEPT !.alt = item.arg]
    BY <1>2, <1>3 DEF Told
  <2> QED
    BY <1>1, <2>1, AltFields
<1>4. item.asks = "dnload" => y.cmd = item.arg /\ y.state = IF item.arg.cmd = "leave" THEN "manifestSync" ELSE "dnloadSync"
  <2>1. item.asks = "dnload" => y = Accepted(d, item)
    BY <1>2 DEF Told
  <2> QED
    BY <1>1, <2>1, AcceptedFields
<1>5. item.asks = "upload" => y.state = "uploadIdle" /\ y.options = d.options
  <2>1. item.asks = "upload" => y = [d EXCEPT !.state = "uploadIdle"]
    BY <1>2 DEF Told
  <2> QED
    BY <1>1, <2>1 DEF DeviceFields
<1>6. ASSUME item.asks = "poll" PROVE ~Pending(y) /\ y.state # "error" /\ (y.state = "gone" => y.alt # FlashAlt)
  <2>1. /\ says = y.state /\ says # "error"
        /\ \/ d.state = "dnloadBusy" /\ y = Executed(d)
           \/ d.state \in {"idle", "dnloadIdle", "uploadIdle"} /\ y = d
    BY <1>2, <1>6 DEF Told
  <2>2. CASE d.state \in {"idle", "dnloadIdle", "uploadIdle"} /\ y = d
    BY <2>1, <2>2 DEF Pending
  <2>3. CASE d.state = "dnloadBusy" /\ y = Executed(d)
    <3>1. Harmless(d, h.blind) \/ Mine(h, c, d)
      <4>1. Pending(d) /\ c # "lost"
        BY <2>3 DEF Pending, DInv, ClaimInv
      <4> QED
        BY <1>1, <4>1 DEF CommandInv, Foreign, Harmless
    <3>2. Harmless(d, h.blind) \/ OwnCommand(d, h.job.elements)
      BY <3>1 DEF Mine
    <3>3. y.alt = d.alt /\ y.state \in {"dnloadIdle", "error", "gone"}
      <4>1. CASE Harmless(d, h.blind)
        <5>1. Keeps(d, y, {"alt", "cmd", "memory"}) /\ y.state \in {"dnloadIdle", "error", "gone"}
          BY <1>1, <2>3, <4>1, CarryForeign DEF Harmless
        <5> QED
          BY <5>1 DEF Keeps
      <4>2. CASE OwnCommand(d, h.job.elements)
        <5>1. Keeps(d, y, {"alt", "cmd", "pointer", "options"}) /\ y.state \in {"dnloadIdle", "error"}
          BY <1>1, <2>3, <4>2, OwnCarried
        <5> QED
          BY <5>1 DEF Keeps
      <4> QED
        BY <3>2, <4>1, <4>2
    <3>4. y.state = "gone" => y.alt # FlashAlt
      BY <1>1, <2>3, <3>2, <3>3, NotGone
    <3> QED
      BY <2>1, <3>3, <3>4 DEF Pending
  <2> QED
    BY <2>1, <2>2, <2>3
<1>7. Settled(item, y)
  BY <1>3, <1>4, <1>5, <1>6 DEF Settled
<1>8. MovesOn(h, x, item, says, p, y.options)
  BY <1>5 DEF MovesOn
<1> QED
  BY <1>7, <1>8

(* A control transfer, whatever becomes of it.                               *)
LEMMA TransferKeeps ==
    ASSUME DfuseInv, Busy, Due.asks \notin LocalItems, NEW r \in Responses(device, Due) \cup Faults(device, Due),
           NEW x, x = [host EXCEPT !.tries = @ + 1] \/ x = After(r.says)
    PROVE  DInv(x, claimed, r.dev)
<1>1. PICK h, c, d, item, y, says :
          /\ h = host /\ c = claimed /\ d = device /\ item = Due /\ y = r.dev /\ says = r.says
          /\ item = First(h.todo) /\ h.todo # <<>>
  BY DEF Due, First, Busy
<1>2. DInv(h, c, d) /\ HostType(h) /\ TodoInv(h, c, d) /\ DeviceType(d, h.blind) /\ DOMAIN h = HostFields /\ d.state \in DeviceStates
      /\ DOMAIN d = DeviceFields
  BY <1>1 DEF DfuseInv, DInv, HostType, DeviceType, HostFields, DeviceFields
<1>3. ~(WritesMemory(h) /\ Beginning(h, d))
  <2>1. item.asks # "claim"
    BY <1>1 DEF LocalItems
  <2>2. WritesMemory(h) => h.job.kind # "none"
    BY DEF WritesMemory
  <2> QED
    BY <1>1, <1>2, <2>1, <2>2, ClaimIsFirst DEF Beginning, Item
<1>4. h.todo \in Seq(CallsOf(AllItems(h)))
  BY <1>1, <1>2, <1>3, CallsAreKnown
<1>5. item \in AllItems(h) /\ Head(h.todo).must \in BOOLEAN
  BY <1>1, <1>4, HeadOfCalls
<1>6. item.asks \in Transfers /\ (item.asks = "poll" => "dnloadBusy" \in item.arg)
  BY <1>1, <1>5, TransfersAreKnown
<1>7. Outcome(d, item, y) /\ Told(d, item, y, says)
  BY <1>1, <1>2, <1>6, AnyOutcome
<1>8. HostStep(h, x, item, says, d.options)
  BY <1>1, <1>2, <1>4, <1>6, HostMoves
<1>9. DInv(h, c, y)
  <2>1. CASE item.asks \in Status /\ d.state = "dnloadBusy" /\ y = Executed(d)
    BY <1>1, <1>2, <2>1, CarriedOut
  <2>2. CASE Quiet(d, item, y) /\ y # d
    BY <1>1, <1>2, <1>6, <2>2, Answered
  <2>3. CASE y = d
    BY <1>2, <2>3
  <2> QED
    BY <1>7, <2>1, <2>2, <2>3 DEF Outcome, Quiet
<1>10. DInv(x, c, y)
  <2>1. CASE Stays(h, x)
    BY <1>9, <2>1, SameHost
  <2>2. CASE GivesUp(h, x)
    BY <1>1, <1>5, <1>9, <2>2, GaveUp
  <2>3. CASE \E p \in Detours : MovesOn(h, x, item, says, p, d.options)
    <3>1. PICK p \in Detours : MovesOn(h, x, item, says, p, d.options)
      BY <2>3
    <3>2. Settled(item, y) /\ MovesOn(h, x, item, says, p, y.options)
      BY <1>1, <1>2, <1>6, <1>7, <3>1, ToldSettles
    <3> QED
      BY <1>1, <1>6, <1>9, <3>2, WentOn
  <2> QED
    BY <1>8, <2>1, <2>2, <2>3 DEF HostStep
<1> QED
  BY <1>1, <1>10

(* How the host goes on.                                                     *)
Onward(h, x, todo) == SameJob(h, x) /\ x.todo = todo /\ Resulted(h, x) /\ x.read = h.read
(* Going on alters what is left to do, and the result when nothing is. *)
LEMMA ProceedFields ==
    ASSUME DOMAIN host = HostFields, NEW todo, NEW y, y = Proceed(todo)
    PROVE  Onward(host, y, todo)
BY DEF Proceed, SameJob, HostFields, Resulted, Onward

(* What a call that fails drops. *)
LEMMA FailsGivesUp ==
    ASSUME DOMAIN host = HostFields, NEW x, x = CallFails
    PROVE  GivesUp(host, x)
<1>1. CASE Head(host.todo).must
  BY <1>1 DEF CallFails, GivesUp, SameJob, HostFields
<1>2. CASE ~Head(host.todo).must
  <2>1. x = Proceed(Tail(host.todo))
    BY <1>2 DEF CallFails
  <2>2. Onward(host, x, Tail(host.todo))
    BY <2>1, ProceedFields
  <2> QED
    BY <1>2, <2>2 DEF GivesUp, Onward
<1> QED
  BY <1>1, <1>2

(* A call of a single item is over when that is done. *)
LEMMA RestIsTail ==
    ASSUME Len(Head(host.todo).items) = 1
    PROVE  Rest = Tail(host.todo)
BY DEF Rest

(* What the host does by itself is the whole of its call.                    *)
LEMMA WhoseLocal ==
    ASSUME NEW h, NEW c, NEW d, HostType(h), TodoInv(h, c, d), h.todo # <<>>, First(h.todo).asks \in LocalItems
    PROVE  /\ Head(h.todo).must \in BOOLEAN
           /\ WritesMemory(h) =>
                 \/ Beginning(h, d) /\ First(h.todo).asks = "claim"
                 \/ Placing(h, d) /\ First(h.todo).asks = "place"
                 \/ Ending(h) /\ First(h.todo).asks = "release"
                 \/ Downloading(h, c, d) /\ First(h.todo).asks = "giveUp"
           /\ First(h.todo).asks # "giveUp" => Len(Head(h.todo).items) = 1
<1>1. CASE ~WritesMemory(h)
  <2>1. PICK todo \in PlainTodos(h.blind) : todo = h.todo
    BY <1>1 DEF TodoInv
  <2>2. /\ Head(todo).must \in BOOLEAN
        /\ First(todo).asks \in LocalItems => Len(Head(todo).items) = 1
    BY <2>1, PlainParted
  <2> QED
    BY <1>1, <2>1, <2>2
<1>2. CASE WritesMemory(h) /\ Beginning(h, d)
  <2>1. h.job.kind # "none"
    BY <1>2 DEF WritesMemory
  <2>2. Head(h.todo) = ClaimCall /\ First(h.todo) = Item("claim", 0) /\ Len(Head(h.todo).items) = 1
    BY <1>2, <2>1, ClaimIsFirst DEF Beginning
  <2>3. ClaimCall.must = TRUE /\ Item("claim", 0).asks = "claim"
    BY DEF ClaimCall, Must, Item
  <2> QED
    BY <1>2, <2>2, <2>3
<1>3. CASE WritesMemory(h) /\ Placing(h, d)
  <2>1. /\ First(h.todo) = Item("place", 0) /\ Head(h.todo).must = TRUE /\ Len(Head(h.todo).items) = 1
    BY <1>3, ShortTodos DEF Placing
  <2>2. Item("place", 0).asks = "place"
    BY DEF Item
  <2> QED
    BY <1>3, <2>1, <2>2
<1>4. CASE WritesMemory(h) /\ Ending(h)
  <2>1. /\ First(h.todo) = Item("release", 0) /\ Head(h.todo).must = TRUE /\ Len(Head(h.todo).items) = 1
    BY <1>4, ShortTodos DEF Ending
  <2>2. Item("release", 0).asks = "release"
    BY DEF Item
  <2> QED
    BY <1>4, <2>1, <2>2
<1>5. CASE WritesMemory(h) /\ Reading(h, d)
  <2>1. PICK s : s = Items(h) /\ s \in Seq(PlainItems(h.blind)) /\ s # <<>>
    BY <1>5 DEF Reading
  <2>2. Head(s) \in PlainItems(h.blind)
    BY <2>1, HeadTailProperties
  <2>3. First(h.todo).asks \in Transfers
    BY <2>1, <2>2, PlainAsks DEF First, Items
  <2> QED
    BY <2>3 DEF Transfers, Status, LocalItems
<1>6. CASE WritesMemory(h) /\ Downloading(h, c, d)
  <2>1. PICK s : s = Items(h) /\ s \in Seq(MemoryItems(h.job.elements)) /\ s # <<>>
    BY <1>6 DEF Downloading, DownloadsItems
  <2>2. PICK item \in MemoryItems(h.job.elements) : item = First(h.todo)
    <3>1. Head(s) \in MemoryItems(h.job.elements)
      BY <2>1, HeadTailProperties
    <3> QED
      BY <2>1, <3>1 DEF First, Items
  <2>3. item.asks = "giveUp"
    <3>1. item.asks \in LocalItems
      BY <2>2
    <3>2. CASE item \in Questions
      BY <3>1, <3>2 DEF Questions, LocalItems
    <3>3. CASE item \notin Questions
      BY <3>1, <3>3 DEF MemoryItems, GivesUpItem, Alts, Downloads, LocalItems
    <3> QED
      BY <3>2, <3>3
  <2>4. Head(h.todo).must = TRUE
    BY <1>6, Apart
  <2> QED
    BY <1>6, <2>2, <2>3, <2>4
<1>7. WritesMemory(h) => h.todo # <<>> /\ (Beginning(h, d) \/ Placing(h, d) \/ Ending(h) \/ Reading(h, d) \/ Downloading(h, c, d))
  BY DEF TodoInv
<1> QED
  BY <1>1, <1>2, <1>3, <1>4, <1>5, <1>6, <1>7

(* A download that begins.                                                   *)
LEMMA Began ==
    ASSUME NEW x, HostType(x), WritesMemory(x), x.result # "ok", NEW d, DeviceType(d, x.blind), MemoryInv(x, d),
           NEW s, Whole(s, x.job.elements), x.todo = DownloadTodo(s),
           Pending(d) => Foreign(x, "host", d),
           Stacked(x) => ~Pending(d)
    PROVE  DInv(x, "host", d)
<1> DEFINE e == x.job.elements
<1>1. PICK todo : todo = DownloadTodo(s) /\ Head(todo) = Must(s) /\ Must(s).items = s /\ todo # <<>>
  BY TodoForms
<1>2. x.todo = todo /\ Items(x) = s /\ x.todo # <<>>
  BY <1>1 DEF Items
<1>3. DownloadsItems(s, d, e) /\ Progress(s, d, e)
  BY WholeDownloads
<1>4. Downloading(x, "host", d)
  BY <1>1, <1>2, <1>3 DEF Downloading
<1>5. ~Ending(x)
  BY <1>4, OneLeft
<1>6. TodoInv(x, "host", d) /\ BlocksInv(x, "host", d) /\ CommandInv(x, "host", d)
  BY <1>2, <1>3, <1>4, <1>5 DEF TodoInv, BlocksInv, CommandInv
<1> QED
  BY <1>6 DEF DInv, ClaimInv

(* beginTransaction() that succeeds.                                         *)
LEMMA Claimed ==
    ASSUME NEW h, NEW d, DInv(h, "none", d), h.todo # <<>>, First(h.todo).asks = "claim",
           NEW x, Onward(h, x, Tail(h.todo))
    PROVE  DInv(x, "host", d)
<1> DEFINE e == h.job.elements
           blind == h.blind
<1>1. /\ HostType(h) /\ DeviceType(d, blind) /\ TodoInv(h, "none", d) /\ MemoryInv(h, d) /\ CommandInv(h, "none", d)
      /\ e \in Elements /\ blind \in BOOLEAN
  BY DEF DInv, HostType, Elements
<1>2. /\ SameJob(h, x) /\ x.job = h.job /\ x.blind = blind /\ x.read = h.read /\ x.todo = Tail(h.todo)
      /\ x.result = (IF x.todo = <<>> /\ h.result = "running" THEN "ok" ELSE h.result)
      /\ WritesMemory(x) = WritesMemory(h) /\ Stacked(x) = Stacked(h)
  BY DEF Onward, SameJob, Resulted, WritesMemory, Stacked
<1>3. h.result # "ok"
  BY <1>1 DEF HostType
<1>4. HostType(x)
  BY <1>1, <1>2, <1>3, TypeKept
<1>5. MemoryInv(x, d) /\ DeviceType(d, x.blind) /\ ClaimInv("host", d)
  BY <1>1, <1>2 DEF MemoryInv, ClaimInv
<1>6. Pending(d) => Foreign(x, "host", d)
  BY <1>1, <1>2 DEF CommandInv, Foreign, Mine
<1>7. CommandInv(x, "host", d)
  BY <1>6 DEF CommandInv
<1>8. h.job.kind # "none" /\ h.todo = Calls(h.job) /\ h.job \in KnownTransactions
  <2>1. h.todo # EndAnyway
    BY ShortTodos DEF Item
  <2> QED
    BY <1>1, <2>1 DEF TodoInv, HostType, KnownTransactions, Elements
<1>9. CASE ~WritesMemory(h)
  <2>1. h.job.kind \notin WritingKinds
    BY <1>9 DEF WritesMemory, WritingKinds
  <2>2. x.todo \in PlainTodos(x.blind)
    BY <1>1, <1>2, <1>8, <2>1, CallsOfPlain
  <2>3. TodoInv(x, "host", d) /\ BlocksInv(x, "host", d)
    BY <1>2, <1>9, <2>2 DEF TodoInv, BlocksInv
  <2> QED
    BY <1>4, <1>5, <1>7, <2>3 DEF DInv
<1>10. WritesMemory(h) => Clean(d) /\ h.read = NothingRead /\ h.job.kind \in WritingKinds
  <2>1. WritesMemory(h) => Beginning(h, d)
    <3>1. First(h.todo).asks \in LocalItems
      BY DEF LocalItems
    <3> QED
      BY <1>1, <3>1, WhoseLocal
  <2> QED
    BY <2>1 DEF Beginning, WritesMemory, WritingKinds
<1>11. CASE WritesMemory(h) /\ h.job.kind = "downloadFirmware" /\ e = <<>>
  <2>1. x.todo = End
    BY <1>2, <1>8, <1>10, <1>11, CallsOfWriting
  <2>2. Ending(x) /\ x.todo # <<>> /\ ~Downloading(x, "host", d)
    BY <2>1, ShortTodos, OneLeft DEF Ending
  <2>3. DOMAIN x.job.elements = {}
    <3>1. DOMAIN <<>> = {}
      OBVIOUS
    <3> QED
      BY <1>2, <1>11, <3>1
  <2>4. AllWritten(x, "host", d)
    BY <1>6, <2>3 DEF AllWritten
  <2>5. TodoInv(x, "host", d) /\ BlocksInv(x, "host", d)
    BY <1>2, <1>11, <2>2, <2>4 DEF TodoInv, BlocksInv
  <2> QED
    BY <1>4, <1>5, <1>7, <2>5 DEF DInv
<1>12. CASE WritesMemory(h) /\ h.job.kind = "downloadFirmware" /\ e # <<>>
  <2>1. x.todo = DownloadTodo(DownloadFile(e))
    BY <1>2, <1>8, <1>10, <1>12, CallsOfWriting
  <2>2. PICK s : s = DownloadFile(e) /\ Whole(s, e)
    BY <1>1, <1>12, FileWhole
  <2>3. x.todo = DownloadTodo(s) /\ x.job.elements = e /\ ~Stacked(x)
    BY <1>2, <1>12, <2>1, <2>2 DEF Stacked
  <2>4. x.result # "ok"
    <3>1. DownloadTodo(s) # <<>>
      BY TodoForms
    <3> QED
      BY <1>2, <1>3, <2>3, <3>1
  <2> QED
    BY <1>2, <1>4, <1>5, <1>6, <1>12, <2>2, <2>3, <2>4, Began
<1>13. CASE WritesMemory(h) /\ h.job.kind = "downloadWirelessStack"
  <2>1. PICK s : s = Upload(OptionBytesAt, OptionBytesAlt) /\ s \in Seq(PlainItems(blind)) /\ s # <<>> /\ UploadsLast(s)
    <3>1. OptionBytesAt \in Int /\ OptionBytesAlt \in {0, 1}
      BY OptionBytesAreBeyond
    <3> QED
      BY <1>1, <3>1, UploadType
  <2>2. PICK todo : /\ todo = <<May(s)>> \o Then("place") /\ Head(todo) = May(s) /\ May(s).items = s /\ May(s).must = FALSE
                    /\ todo # <<>>
    BY TodoForms
  <2>3. x.todo = todo /\ Items(x) = s
    <3>1. x.todo = <<May(Upload(OptionBytesAt, OptionBytesAlt))>> \o Then("place")
      BY <1>2, <1>8, <1>10, <1>13, CallsOfWriting
    <3> QED
      BY <2>1, <2>2, <3>1 DEF Items
  <2>4. Stacked(x) /\ Clean(d) /\ x.read = NothingRead
    BY <1>2, <1>10, <1>13 DEF Stacked
  <2>5. Reading(x, d)
    BY <1>2, <2>1, <2>2, <2>3, <2>4 DEF Reading, UploadsLast
  <2>6. ~Downloading(x, "host", d) /\ ~Ending(x) /\ x.todo # <<>>
    BY <2>2, <2>3, <2>5, Apart, OneLeft
  <2>7. TodoInv(x, "host", d) /\ BlocksInv(x, "host", d)
    BY <1>2, <1>3, <1>13, <2>5, <2>6 DEF TodoInv, BlocksInv
  <2> QED
    BY <1>4, <1>5, <1>7, <2>7 DEF DInv
<1> QED
  BY <1>9, <1>10, <1>11, <1>12, <1>13 DEF WritingKinds

(* endTransaction(), whether the device is there or not.                     *)
LEMMA Released ==
    ASSUME NEW h, NEW c, NEW d, DInv(h, c, d), h.todo # <<>>, First(h.todo).asks = "release",
           NEW c2, c2 = (IF c = "host" THEN "none" ELSE c),
           NEW x, Onward(h, x, Tail(h.todo)) \/ GivesUp(h, x)
    PROVE  DInv(x, c2, d)
<1>1. /\ HostType(h) /\ DeviceType(d, h.blind) /\ ClaimInv(c, d) /\ TodoInv(h, c, d)
      /\ MemoryInv(h, d) /\ CommandInv(h, c, d) /\ BlocksInv(h, c, d)
  BY DEF DInv
<1>2. h.result # "ok"
  BY <1>1 DEF HostType
<1>3. First(h.todo).asks \in LocalItems
  BY DEF LocalItems
<1>4. (WritesMemory(h) => Ending(h)) /\ Head(h.todo).must \in BOOLEAN
  BY <1>1, <1>3, WhoseLocal
<1>5. Tail(h.todo) = <<>>
  <2>1. CASE WritesMemory(h)
    BY <1>4, <2>1, ShortTodos DEF Ending
  <2>2. CASE ~WritesMemory(h)
    <3>1. PICK todo \in PlainTodos(h.blind) : todo = h.todo
      BY <1>1, <2>2 DEF TodoInv
    <3>2. todo \in {End, EndAnyway}
      BY <3>1, PlainParted
    <3> QED
      BY <3>1, <3>2, ShortTodos
  <2> QED
    BY <2>1, <2>2
<1>6. /\ SameJob(h, x) /\ x.job = h.job /\ x.blind = h.blind /\ x.read = h.read
      /\ WritesMemory(x) = WritesMemory(h) /\ Stacked(x) = Stacked(h)
  BY DEF Onward, GivesUp, SameJob, WritesMemory, Stacked
<1>7. /\ x.todo \in {<<>>, EndAnyway} /\ (WritesMemory(h) => x.todo = <<>>)
      /\ x.result \in {"failed", h.result} \/ (x.result = "ok" /\ x.todo = <<>>)
  <2>1. CASE Onward(h, x, Tail(h.todo))
    BY <1>5, <2>1 DEF Onward, Resulted
  <2>2. CASE GivesUp(h, x)
    <3>1. CASE Head(h.todo).must
      <4>1. x.todo = (IF EndsAnyway(h.job.kind) THEN EndAnyway ELSE <<>>) /\ x.result = "failed"
        BY <2>2, <3>1 DEF GivesUp
      <4>2. WritesMemory(h) => ~EndsAnyway(h.job.kind)
        BY DEF WritesMemory, EndsAnyway
      <4> QED
        BY <4>1, <4>2
    <3>2. CASE ~Head(h.todo).must
      BY <1>5, <2>2, <3>2 DEF GivesUp, Resulted
    <3> QED
      BY <3>1, <3>2
  <2> QED
    BY <2>1, <2>2
<1>8. HostType(x)
  BY <1>1, <1>2, <1>6, <1>7, TypeKept
<1>9. MemoryInv(x, d) /\ DeviceType(d, x.blind) /\ ClaimInv(c2, d)
  BY <1>1, <1>6 DEF MemoryInv, ClaimInv
<1>10. Pending(d) => Foreign(x, c2, d)
  <2>1. Foreign(h, c, d) => Foreign(x, c2, d)
    BY <1>6 DEF Foreign
  <2>2. ~Mine(h, c, d)
    BY <1>4, OneLeft DEF Mine
  <2> QED
    BY <1>1, <2>1, <2>2 DEF CommandInv
<1>11. TodoInv(x, c2, d)
  <2>1. <<>> \in PlainTodos(x.blind) /\ EndAnyway \in PlainTodos(x.blind)
    <3>1. PICK W, T, A : W = PlainWork(x.blind) /\ T = PlainTodos(x.blind) /\ A = AnyWork(x.blind)
      OBVIOUS
    <3> QED
      BY <3>1, PlainTodo
  <2> QED
    BY <1>6, <1>7, <2>1 DEF TodoInv
<1>12. BlocksInv(x, c2, d)
  <2>1. ASSUME WritesMemory(x) PROVE ~Downloading(x, c2, d) /\ ~Ending(x) /\ AllWritten(x, c2, d)
    <3>1. AllWritten(h, c, d)
      BY <1>1, <1>4, <1>6, <2>1 DEF BlocksInv
    <3>2. AllWritten(x, c2, d)
      BY <1>6, <1>10, <3>1 DEF AllWritten
    <3> QED
      BY <1>6, <1>7, <2>1, <3>2, ShortTodos DEF Downloading, Ending
  <2> QED
    BY <2>1 DEF BlocksInv
<1> QED
  BY <1>8, <1>9, <1>10, <1>11, <1>12 DEF DInv, CommandInv

(* While the host does something by itself the interface is its own, unless  *)
(* it is claiming it or giving it back.                                      *)
LEMMA HostHasIt ==
    ASSUME NEW h, NEW c, NEW d, HostType(h), TodoInv(h, c, d), h.todo # <<>>, First(h.todo).asks \notin {"claim", "release"}
    PROVE  c = "host"
<1>1. h.todo # EndAnyway
  BY ShortTodos DEF Item
<1>2. ~(h.job.kind # "none" /\ h.todo = Calls(h.job))
  BY ClaimIsFirst DEF Item
<1> QED
  BY <1>1, <1>2 DEF TodoInv

(* What it goes on with when nothing is written to memory.                   *)
LEMMA PlainGoesOn ==
    ASSUME NEW h, NEW d, DInv(h, "host", d), ~WritesMemory(h), h.todo # <<>>,
           NEW x, x.job = h.job, DOMAIN x = HostFields, x.read = h.read, Resulted(h, x),
           x.blind \in BOOLEAN, h.blind => x.blind, x.todo \in PlainTodos(x.blind)
    PROVE  DInv(x, "host", d)
<1>1. /\ HostType(h) /\ DeviceType(d, h.blind) /\ ClaimInv("host", d) /\ TodoInv(h, "host", d)
      /\ MemoryInv(h, d) /\ CommandInv(h, "host", d)
  BY DEF DInv
<1>2. KeptOptions(h.blind) \subseteq KeptOptions(x.blind)
  BY DEF KeptOptions
<1>3. DeviceType(d, x.blind)
  BY <1>1, <1>2 DEF DeviceType
<1>4. ~WritesMemory(x) /\ ~Stacked(x)
  BY DEF WritesMemory, Stacked
<1>5. HostType(x)
  <2>1. x.result \in {"none", "running", "ok", "failed"} /\ (x.result = "ok" => x.todo = <<>>)
    BY <1>1 DEF Resulted, HostType
  <2>2. x.read \in AnyOptions /\ (x.read # NothingRead => x.read.kept \/ x.blind)
    BY <1>1 DEF HostType
  <2> QED
    BY <1>1, <1>4, <2>1, <2>2 DEF HostType, HostFields
<1>6. CommandInv(x, "host", d)
  <2>1. Foreign(h, "host", d) => Foreign(x, "host", d)
    <3>1. OptionWrites(h.blind) \subseteq OptionWrites(x.blind)
      BY <1>2 DEF OptionWrites
    <3> QED
      BY <3>1 DEF Foreign
  <2> QED
    BY <1>1, <2>1 DEF CommandInv, Mine
<1>7. MemoryInv(x, d)
  BY <1>1, <1>4 DEF MemoryInv
<1> QED
  BY <1>1, <1>3, <1>4, <1>5, <1>6, <1>7 DEF DInv, TodoInv, BlocksInv

(* The option bytes the host writes are those it has read but for one.       *)
LEMMA CorrectedType ==
    ASSUME NEW h, h = host, NEW d, DInv(h, "host", d), NEW b \in BOOLEAN, h.blind => b, h.read = NothingRead => b
    PROVE  Corrected \in KeptOptions(b)
<1>1. h.read \in AnyOptions /\ (h.read # NothingRead => h.read.kept \/ h.blind)
  BY DEF DInv, HostType
<1>2. h.read.sfsa \in SecureStarts \cup {0} /\ h.read.kept \in BOOLEAN /\ DOMAIN h.read = {"boot", "sfsa", "kept"}
  BY <1>1 DEF AnyOptions
<1>3. BootOption(h.job.kind) \in {"os", "recovery"}
  BY DEF BootOption
<1>4. PICK n, r : n = BootOption(h.job.kind) /\ r = h.read
  OBVIOUS
<1>5. [r EXCEPT !.boot = n] \in AnyOptions /\ [r EXCEPT !.boot = n].kept = r.kept
  <2>1. PICK x \in {"os", "recovery", "unknown"}, y \in SecureStarts \cup {0}, z \in BOOLEAN : r = [boot |-> x, sfsa |-> y, kept |-> z]
    BY <1>1, <1>4 DEF AnyOptions
  <2>2. [r EXCEPT !.boot = n] = [boot |-> n, sfsa |-> y, kept |-> z]
    BY <2>1
  <2> QED
    BY <1>3, <1>4, <2>1, <2>2 DEF AnyOptions
<1>6. Corrected = [r EXCEPT !.boot = n]
  BY <1>4 DEF Corrected
<1>7. r.kept \/ b
  BY <1>1, <1>4
<1> QED
  BY <1>5, <1>6, <1>7 DEF KeptOptions

(* What a plain transaction goes on with.                                    *)
LEMMA PlainRest ==
    ASSUME NEW blind \in BOOLEAN
    PROVE  /\ Leave \o EndAnyway \in PlainTodos(blind)
           /\ <<May(Upload(Origin, FlashAlt))>> \o EndAnyway \in PlainTodos(blind)
           /\ \A o \in KeptOptions(blind) : WriteOptionBytes(o) \o EndAnyway \in PlainTodos(blind)
<1>1. PICK W, T, A : W = PlainWork(blind) /\ T = PlainTodos(blind) /\ A = AnyWork(blind)
  OBVIOUS
<1>2. EndAnyway \in T /\ \A s \in Seq(W) : s \o EndAnyway \in T
  <2>1. EndAnyway \in T /\ \A s \in Seq(W), t \in T : s \o t \in T
    BY <1>1, PlainTodo
  <2> QED
    BY <2>1
<1>3. Leave \in Seq(W) /\ <<May(Upload(Origin, FlashAlt))>> \in Seq(W) /\ \A o \in KeptOptions(blind) : WriteOptionBytes(o) \in Seq(W)
  BY <1>1, PlainFacts, SizesType DEF FlashAlt
<1> QED
  BY <1>1, <1>2, <1>3

(* The image ends below the secure area.                                     *)
LEMMA PlacedBelow ==
    ASSUME NEW size \in Nat, NEW n \in Nat
    PROVE  TargetAddress(size, n) \in Int /\ TargetAddress(size, n) + size <= Origin + PageSize * n
<1>1. PageSize \in Nat \ {0} /\ Origin \in Nat /\ PageSize * n \in Nat
  BY LayoutIsSound
<1>2. PICK m \in Int : m = Origin + PageSize * n - size
  BY <1>1
<1>3. m \div PageSize \in Int /\ (m \div PageSize) * PageSize <= m
  BY <1>1, Division
<1>4. PICK q \in Int : q = m \div PageSize
  BY <1>3
<1>5. q * PageSize \in Int /\ q * PageSize <= m
  BY <1>1, <1>3, <1>4
<1>6. TargetAddress(size, n) = q * PageSize
  BY <1>2, <1>4 DEF TargetAddress
<1>7. PICK p \in Int, a \in Int : p = q * PageSize /\ a = PageSize * n
  BY <1>1, <1>5
<1>8. p + size <= Origin + a
  BY <1>1, <1>2, <1>5, <1>7
<1> QED
  BY <1>6, <1>7, <1>8

(* An element that gets another address.                                     *)
LEMMA ElementMoved ==
    ASSUME NEW y, DOMAIN y = HostFields, NEW e, e = y.job.elements, e = <<e[1]>>, e[1] \in [at : Int, size : Nat \ {0}],
           y.job \in [kind : TransactionKinds, elements : Elements],
           NEW at \in Int, NEW x, x = [y EXCEPT !.job.elements[1].at = at]
    PROVE  /\ x.job = [kind |-> y.job.kind, elements |-> <<[at |-> at, size |-> e[1].size]>>]
           /\ DOMAIN x = HostFields /\ \A f \in HostFields \ {"job"} : x[f] = y[f]
<1>1. PICK task, r : task = y.job /\ r = e[1]
  OBVIOUS
<1>2. [r EXCEPT !.at = at] = [at |-> at, size |-> r.size]
  <2>1. PICK m, n : r = [at |-> m, size |-> n]
    BY <1>1
  <2>2. [[at |-> m, size |-> n] EXCEPT !.at = at] = [at |-> at, size |-> n]
    OBVIOUS
  <2> QED
    BY <2>1, <2>2
<1>3. [e EXCEPT ![1].at = at] = <<[at |-> at, size |-> r.size]>>
  <2>1. PICK z : z = [r EXCEPT !.at = at]
    OBVIOUS
  <2>2. e = <<r>>
    BY <1>1
  <2>3. [<<r>> EXCEPT ![1] = z] = <<z>>
    OBVIOUS
  <2>4. [e EXCEPT ![1].at = at] = [e EXCEPT ![1] = z]
    BY <1>1, <2>1
  <2> QED
    BY <1>2, <2>1, <2>2, <2>3, <2>4
<1>4. [task EXCEPT !.elements[1].at = at] = [kind |-> task.kind, elements |-> <<[at |-> at, size |-> r.size]>>]
  <2>1. PICK z : z = [e EXCEPT ![1].at = at]
    OBVIOUS
  <2>2. task = [kind |-> task.kind, elements |-> e]
    BY <1>1
  <2>3. [task EXCEPT !.elements[1].at = at] = [task EXCEPT !.elements = z]
    BY <1>1, <2>1
  <2>4. PICK k : k = task.kind
    OBVIOUS
  <2>5. [[kind |-> k, elements |-> e] EXCEPT !.elements = z] = [kind |-> k, elements |-> z]
    OBVIOUS
  <2> QED
    BY <1>3, <2>1, <2>2, <2>3, <2>4, <2>5
<1>5. PICK z : z = [task EXCEPT !.elements[1].at = at]
  OBVIOUS
<1>6. x = [y EXCEPT !.job = z]
  BY <1>1, <1>5
<1>7. x.job = z /\ DOMAIN x = HostFields /\ \A f \in HostFields \ {"job"} : x[f] = y[f]
  BY <1>6 DEF HostFields
<1> QED
  BY <1>1, <1>4, <1>5, <1>7

Now(h, c, d) == h = host /\ c = claimed /\ d = device
(* The invariant, of the state as it is. *)
LEMMA NowKnown ==
    ASSUME NEW h, NEW c, NEW d, Now(h, c, d), DfuseInv
    PROVE  /\ DInv(h, c, d) /\ HostType(h) /\ DeviceType(d, h.blind) /\ TodoInv(h, c, d)
           /\ h = host /\ c = claimed /\ d = device /\ DOMAIN host = HostFields
           /\ (Busy <=> h.todo # <<>>) /\ Due = First(h.todo)
BY DEF Now, DfuseInv, DInv, HostType, HostFields, Busy, Due, First

(* The wireless stack is written where it is to be placed, or astray.        *)
LEMMA Placed ==
    ASSUME NEW h, NEW d, Now(h, "host", d), DfuseInv, Busy, Due.asks = "place", h.read # NothingRead, WritesMemory(h),
           NEW at \in Int, NEW x, x = WroteElsewhere(at)
    PROVE  DInv(x, "host", d)
<1> DEFINE e == h.job.elements
           size == h.job.elements[1].size
<1>1. /\ DInv(h, "host", d) /\ HostType(h) /\ DeviceType(d, h.blind) /\ TodoInv(h, "host", d) /\ DOMAIN h = HostFields
      /\ h.todo # <<>> /\ First(h.todo).asks = "place" /\ h = host /\ MemoryInv(h, d)
  <2>1. DInv(h, "host", d) /\ HostType(h) /\ DeviceType(d, h.blind) /\ TodoInv(h, "host", d) /\ DOMAIN h = HostFields
        /\ h.todo # <<>> /\ First(h.todo).asks = "place" /\ h = host
    BY NowKnown
  <2> QED
    BY <2>1 DEF DInv
<1>2. Placing(h, d)
  <2>1. First(h.todo).asks \in LocalItems
    BY <1>1 DEF LocalItems
  <2> QED
    BY <1>1, <2>1, WhoseLocal
<1>3. Stacked(h) /\ Clean(d) /\ ~Pending(d) /\ h.read = d.options
  BY <1>2 DEF Placing
<1>4. e = <<e[1]>> /\ e[1] \in [at : Int, size : Nat \ {0}] /\ h.job \in [kind : TransactionKinds, elements : Elements] /\ h.result # "ok"
  BY <1>1, <1>3 DEF HostType, Elements
<1>5. size \in Nat \ {0}
  <2>1. \A r \in [at : Int, size : Nat \ {0}] : r.size \in Nat \ {0}
    OBVIOUS
  <2> QED
    BY <1>4, <2>1
<1> DEFINE s == Erase(at, size) \o Write(at, Data(1, size), FlashAlt)
<1>7. x = [Proceed(DownloadTodo(s)) EXCEPT !.job.elements[1].at = at]
  BY <1>1 DEF WroteElsewhere, DownloadTodo
<1> HIDE DEF s, size, e
<1>8. PICK y : y = Proceed(DownloadTodo(s))
  OBVIOUS
<1>9. Onward(h, y, DownloadTodo(s)) /\ DOMAIN y = HostFields /\ y.job = h.job
  BY <1>1, <1>8, ProceedFields DEF Onward, SameJob
<1>10. PICK e2 : e2 = <<[at |-> at, size |-> size]>>
  OBVIOUS
<1>11. x.job = [kind |-> h.job.kind, elements |-> e2] /\ DOMAIN x = HostFields /\ \A f \in HostFields \ {"job"} : x[f] = y[f]
  <2>1. e = y.job.elements
    BY <1>9 DEF e
  <2>2. x = [y EXCEPT !.job.elements[1].at = at]
    BY <1>7, <1>8
  <2>3. size = e[1].size
    BY DEF e, size
  <2>4. y.job \in [kind : TransactionKinds, elements : Elements]
    BY <1>4, <1>9
  <2> QED
    BY <1>4, <1>9, <1>10, <2>1, <2>2, <2>3, <2>4, ElementMoved
<1>12. /\ x.todo = DownloadTodo(s) /\ x.read = h.read /\ x.blind = h.blind /\ Resulted(h, x)
       /\ x.job.kind = h.job.kind /\ x.job.elements = e2
  <2>1. x.todo = y.todo /\ x.read = y.read /\ x.blind = y.blind /\ x.result = y.result
    BY <1>11 DEF HostFields
  <2> QED
    BY <1>9, <1>11, <2>1 DEF Onward, SameJob, Resulted
<1>13. e2[1] = [at |-> at, size |-> size] /\ e2 = <<e2[1]>> /\ e2 \in Elements /\ e2[1] \in [at : Int, size : Nat \ {0}]
       /\ e2[1].at = at /\ e2[1].size = size
  <2>1. e2[1] = [at |-> at, size |-> size]
    BY <1>10
  <2>2. [at |-> at, size |-> size] \in [at : Int, size : Nat \ {0}] /\ [at |-> at, size |-> size] \in [at : Int, size : Nat]
        /\ [at |-> at, size |-> size].at = at /\ [at |-> at, size |-> size].size = size
    BY <1>5
  <2>3. PICK z : z = [at |-> at, size |-> size] /\ z \in [at : Int, size : Nat] /\ z.at = at /\ z.size = size
    BY <2>2
  <2>4. <<z>> \in Seq([at : Int, size : Nat])
    BY <2>3
  <2> QED
    BY <1>10, <2>1, <2>2, <2>3, <2>4 DEF Elements
<1>14. Whole(s, e2)
  BY <1>13, OneWhole DEF s
<1>15. WritesMemory(x) /\ Stacked(x)
  BY <1>3, <1>12 DEF WritesMemory, Stacked
<1>16. x.result # "ok"
  <2>1. DownloadTodo(s) # <<>>
    BY TodoForms
  <2> QED
    BY <1>4, <1>12, <2>1 DEF Resulted
<1>17. HostType(x)
  <2>1. x.job \in [kind : TransactionKinds, elements : Elements]
    BY <1>4, <1>11, <1>13
  <2>2. x.result \in {"none", "running", "ok", "failed"}
    BY <1>1, <1>12 DEF HostType, Resulted
  <2> QED
    BY <1>1, <1>11, <1>12, <1>13, <1>16, <2>1, <2>2 DEF HostType, HostFields, Elements
<1>18. MemoryInv(x, d)
  BY <1>3, <1>15 DEF MemoryInv, Clean, TouchesOnly, StaysBelow
<1> QED
  BY <1>1, <1>3, <1>12, <1>14, <1>15, <1>16, <1>17, <1>18, Began

(* A step that fails, and one that goes on with the next call.               *)
LEMMA LocalFails ==
    ASSUME NEW h, NEW c, NEW d, Now(h, c, d), DfuseInv, Busy, Due.asks \in LocalItems, NEW x, x = CallFails
    PROVE  DInv(x, c, d) /\ GivesUp(h, x)
<1>1. /\ DInv(h, c, d) /\ HostType(h) /\ TodoInv(h, c, d) /\ h = host /\ DOMAIN host = HostFields
      /\ h.todo # <<>> /\ First(h.todo).asks \in LocalItems
  BY NowKnown
<1>2. Head(h.todo).must \in BOOLEAN
  BY <1>1, WhoseLocal
<1>3. GivesUp(h, x)
  BY <1>1, FailsGivesUp
<1> QED
  BY <1>1, <1>2, <1>3, GaveUp

(* A step of the host alone that goes on with the next call. *)
LEMMA LocalGoesOn ==
    ASSUME NEW h, NEW c, NEW d, Now(h, c, d), DfuseInv, Busy, Due.asks \in LocalItems \ {"giveUp"}, NEW x, x = Proceed(Rest)
    PROVE  Onward(h, x, Tail(h.todo))
<1>1. /\ HostType(h) /\ TodoInv(h, c, d) /\ h = host /\ DOMAIN host = HostFields
      /\ h.todo # <<>> /\ First(h.todo).asks \in LocalItems /\ First(h.todo).asks # "giveUp"
  BY NowKnown
<1>2. Len(Head(h.todo).items) = 1
  BY <1>1, WhoseLocal
<1>3. Rest = Tail(h.todo)
  BY <1>1, <1>2, RestIsTail
<1> QED
  BY <1>1, <1>3, ProceedFields

(* beginTransaction() keeps the invariant. *)
LEMMA ClaimKeeps ==
    ASSUME DfuseInv, Claim
    PROVE  DfuseInv'
<1>1. PICK h, c, d : Now(h, c, d)
  BY DEF Now
<1>2. PICK x, c2, d2 : x = host' /\ c2 = claimed' /\ d2 = device'
  OBVIOUS
<1>3. DInv(h, c, d) /\ h.todo # <<>> /\ First(h.todo).asks = "claim" /\ h = host /\ c = claimed /\ d = device
  BY <1>1, NowKnown DEF Claim
<1>4. Busy /\ Due.asks = "claim" /\ Due.asks \in LocalItems \ {"giveUp"} /\ d2 = d
  BY <1>2, <1>3 DEF Claim, LocalItems
<1>5. CASE c = "none" /\ c2 = "host" /\ x = Proceed(Rest)
  <2>1. Onward(h, x, Tail(h.todo))
    BY <1>1, <1>4, <1>5, LocalGoesOn
  <2>2. DInv(x, "host", d)
    BY <1>3, <1>5, <2>1, Claimed
  <2> QED
    BY <1>2, <1>4, <1>5, <2>2 DEF DfuseInv
<1>6. CASE x = CallFails /\ c2 = c
  <2>1. DInv(x, c, d)
    BY <1>1, <1>4, <1>6, LocalFails
  <2> QED
    BY <1>2, <1>4, <1>6, <2>1 DEF DfuseInv
<1> QED
  BY <1>2, <1>3, <1>5, <1>6 DEF Claim

(* endTransaction() keeps the invariant. *)
LEMMA ReleaseKeeps ==
    ASSUME DfuseInv, Release
    PROVE  DfuseInv'
<1>1. PICK h, c, d : Now(h, c, d)
  BY DEF Now
<1>2. PICK x, c2, d2 : x = host' /\ c2 = claimed' /\ d2 = device'
  OBVIOUS
<1>3. DInv(h, c, d) /\ h.todo # <<>> /\ First(h.todo).asks = "release" /\ h = host /\ c = claimed /\ d = device
  BY <1>1, NowKnown DEF Release
<1>4. Busy /\ Due.asks \in LocalItems \ {"giveUp"} /\ d2 = d /\ c2 = (IF c = "host" THEN "none" ELSE c)
  BY <1>2, <1>3 DEF Release, LocalItems
<1>5. x = CallFails \/ x = Proceed(Rest)
  BY <1>2 DEF Release
<1>6. Onward(h, x, Tail(h.todo)) \/ GivesUp(h, x)
  <2>1. CASE x = CallFails
    BY <1>1, <1>4, <2>1, LocalFails
  <2>2. CASE x = Proceed(Rest)
    BY <1>1, <1>4, <2>2, LocalGoesOn
  <2> QED
    BY <1>5, <2>1, <2>2
<1>7. DInv(x, c2, d)
  BY <1>3, <1>4, <1>6, Released
<1> QED
  BY <1>2, <1>4, <1>7 DEF DfuseInv

(* What depends on what was read.                                            *)
LEMMA LocalKeeps ==
    ASSUME DfuseInv, Local
    PROVE  DfuseInv'
<1>1. PICK h, c, d : Now(h, c, d)
  BY DEF Now
<1>2. PICK x, c2, d2 : x = host' /\ c2 = claimed' /\ d2 = device'
  OBVIOUS
<1>3. /\ DInv(h, c, d) /\ HostType(h) /\ TodoInv(h, c, d) /\ h.todo # <<>> /\ Due = First(h.todo)
      /\ h = host /\ c = claimed /\ d = device /\ DOMAIN host = HostFields
  BY <1>1, NowKnown DEF Local
<1>4. Busy /\ c2 = c /\ d2 = d /\ Due.asks \in LocalItems \ {"claim", "release"}
  BY <1>2, <1>3 DEF Local, LocalItems
<1>5. c = "host"
  BY <1>3, <1>4, HostHasIt
<1>6. WritesMemory(h) => Due.asks \in {"place", "giveUp"}
  BY <1>3, <1>4, WhoseLocal
<1>7. h.blind \in BOOLEAN /\ (~WritesMemory(h) => h.todo \in PlainTodos(h.blind))
  BY <1>3 DEF HostType, TodoInv
<1>16. SUFFICES DInv(x, c, d)
  BY <1>2, <1>4 DEF DfuseInv
<1>8. ASSUME NEW todo \in PlainTodos(h.blind), x = Proceed(todo), ~WritesMemory(h) PROVE DInv(x, c, d)
  <2>1. Onward(h, x, todo)
    BY <1>3, <1>8, ProceedFields
  <2> QED
    BY <1>3, <1>5, <1>7, <1>8, <2>1, PlainGoesOn DEF Onward, SameJob
<1>9. CASE x = CallFails
  BY <1>1, <1>4, <1>9, LocalFails
<1>10. CASE Due.asks = "needed" /\ x = Proceed(Rest)
  <2>1. ~WritesMemory(h) /\ Due.asks \in LocalItems \ {"giveUp"}
    BY <1>4, <1>6, <1>10
  <2>2. Onward(h, x, Tail(h.todo))
    BY <1>1, <1>4, <1>10, <2>1, LocalGoesOn
  <2>3. Tail(h.todo) \in PlainTodos(h.blind)
    <3>1. PICK todo \in PlainTodos(h.blind) : todo = h.todo
      BY <1>7, <2>1
    <3> QED
      BY <1>3, <3>1, PlainParted
  <2> QED
    BY <1>3, <1>5, <1>7, <2>1, <2>2, <2>3, PlainGoesOn DEF Onward, SameJob
<1>12. CASE Due.asks = "setValue" /\ h.read # NothingRead /\ x = Proceed(WriteOptionBytes(Corrected) \o EndAnyway)
  <2>1. ~WritesMemory(h)
    BY <1>6, <1>12
  <2>2. Corrected \in KeptOptions(h.blind)
    BY <1>3, <1>5, <1>7, <1>12, CorrectedType
  <2>3. WriteOptionBytes(Corrected) \o EndAnyway \in PlainTodos(h.blind)
    BY <1>7, <2>2, PlainRest
  <2> QED
    BY <1>8, <1>12, <2>1, <2>3
<1>13. CASE Due.asks = "correct"
            /\ x = [Proceed((IF host.read = Corrected THEN Leave ELSE WriteOptionBytes(Corrected)) \o EndAnyway)
                       EXCEPT !.blind = @ \/ host.read = NothingRead]
  <2>1. ~WritesMemory(h)
    BY <1>6, <1>13
  <2>2. PICK b \in BOOLEAN : b = (h.blind \/ h.read = NothingRead)
    OBVIOUS
  <2>3. Corrected \in KeptOptions(b)
    BY <1>3, <1>5, <2>2, CorrectedType
  <2>4. PICK todo \in PlainTodos(b) : todo = (IF host.read = Corrected THEN Leave ELSE WriteOptionBytes(Corrected)) \o EndAnyway
    <3>1. Leave \o EndAnyway \in PlainTodos(b) /\ WriteOptionBytes(Corrected) \o EndAnyway \in PlainTodos(b)
      BY <2>3, PlainRest
    <3> QED
      BY <3>1
  <2>5. PICK y : y = Proceed(todo) /\ Onward(h, y, todo)
    BY <1>3, ProceedFields
  <2>6. x = [y EXCEPT !.blind = b] /\ y.blind = h.blind /\ DOMAIN y = HostFields
    BY <1>3, <1>13, <2>2, <2>4, <2>5 DEF Onward, SameJob
  <2>7. x.blind = b /\ DOMAIN x = HostFields /\ x.job = h.job /\ x.todo = todo /\ x.read = h.read /\ Resulted(h, x)
    BY <2>5, <2>6 DEF Onward, SameJob, HostFields, Resulted
  <2> QED
    BY <1>3, <1>5, <2>1, <2>2, <2>7, PlainGoesOn
<1>14. CASE Due.asks = "startFUS"
            /\ x \in {Proceed(Leave \o EndAnyway), Proceed(<<May(Upload(Origin, FlashAlt))>> \o EndAnyway), CallFails}
  <2>1. ~WritesMemory(h)
    BY <1>6, <1>14
  <2>2. Leave \o EndAnyway \in PlainTodos(h.blind) /\ <<May(Upload(Origin, FlashAlt))>> \o EndAnyway \in PlainTodos(h.blind)
    BY <1>7, PlainRest
  <2> QED
    BY <1>8, <1>9, <1>14, <2>1, <2>2
<1> QED
  BY <1>2, <1>3, <1>9, <1>10, <1>12, <1>13, <1>14 DEF Local

(* Where the memory begins and the secure area does is known to be a number. *)
LEMMA WhereItFits ==
    ASSUME NEW h, NEW d, HostType(h), DeviceType(d, h.blind), Stacked(h)
    PROVE  LET size == h.job.elements[1].size
               at == TargetAddress(size, d.options.sfsa) IN
           at \in Int /\ at + size <= Origin + PageSize * d.options.sfsa
<1> DEFINE size == h.job.elements[1].size
<1>1. h.job.elements[1] \in [at : Int, size : Nat \ {0}]
  BY DEF HostType
<1>2. size \in Nat \ {0}
  <2>1. \A r \in [at : Int, size : Nat \ {0}] : r.size \in Nat \ {0}
    OBVIOUS
  <2> QED
    BY <1>1, <2>1
<1>3. d.options.sfsa \in SecureStarts \cup {0}
  BY DEF DeviceType, KeptOptions, AnyOptions
<1>4. SecureStarts \subseteq Nat
  BY OptionBytesAreBeyond DEF SecureStarts
<1>5. PICK n \in Nat : n = d.options.sfsa
  <2>1. PICK n : n = d.options.sfsa /\ n \in SecureStarts \cup {0}
    BY <1>3
  <2> QED
    BY <1>4, <2>1
<1> HIDE DEF size
<1>6. TargetAddress(size, n) \in Int /\ TargetAddress(size, n) + size <= Origin + PageSize * n
  BY <1>2, PlacedBelow
<1> QED
  BY <1>5, <1>6 DEF size

(* The stack is placed, where it should be or astray.                        *)
LEMMA PlaceKeeps ==
    ASSUME DfuseInv, Place
    PROVE  DfuseInv'
<1>1. PICK h, c, d : Now(h, c, d)
  BY DEF Now
<1>2. PICK x, c2, d2 : x = host' /\ c2 = claimed' /\ d2 = device'
  OBVIOUS
<1>3. /\ DInv(h, c, d) /\ HostType(h) /\ DeviceType(d, h.blind) /\ TodoInv(h, c, d)
      /\ h.todo # <<>> /\ Due = First(h.todo) /\ h = host /\ c = claimed /\ d = device
  BY <1>1, NowKnown DEF Place
<1>4. Busy /\ c2 = c /\ d2 = d /\ Due.asks = "place" /\ h.read # NothingRead
  BY <1>2, <1>3 DEF Place
<1>5. Due.asks \in LocalItems \ {"claim", "release"}
  BY <1>4 DEF LocalItems
<1>6. c = "host"
  BY <1>3, <1>5, HostHasIt
<1>7. WritesMemory(h)
  <2>1. SUFFICES ASSUME ~WritesMemory(h) PROVE FALSE
    OBVIOUS
  <2>2. h.blind \in BOOLEAN /\ h.todo \in PlainTodos(h.blind)
    BY <1>3, <2>1 DEF HostType, TodoInv
  <2>3. PICK todo \in PlainTodos(h.blind) : todo = h.todo
    BY <2>2
  <2> QED
    BY <1>3, <1>4, <2>2, <2>3, PlainParted
<1>8. Stacked(h) /\ h.read = d.options
  <2>1. First(h.todo).asks \in LocalItems
    BY <1>3, <1>5
  <2>2. Placing(h, d)
    BY <1>3, <1>4, <1>7, <2>1, WhoseLocal
  <2>3. Stacked(h)
    BY <2>2 DEF Placing
  <2> QED
    BY <1>4, <2>2, <2>3 DEF Placing
<1>9. PICK at \in Int : x = WroteElsewhere(at)
  <2>1. CASE x = WroteElsewhere(TargetAddress(h.job.elements[1].size, h.read.sfsa))
    BY <1>3, <1>8, <2>1, WhereItFits
  <2>2. ASSUME NEW at \in Anywhere, x = WroteElsewhere(at) PROVE \E z \in Int : x = WroteElsewhere(z)
    <3>1. Anywhere \subseteq Int
      BY LayoutIsSound DEF Anywhere
    <3> QED
      BY <2>2, <3>1
  <2> QED
    BY <1>2, <1>3, <2>1, <2>2 DEF Place
<1>10. DInv(x, c, d)
  BY <1>1, <1>4, <1>6, <1>7, <1>9, Placed
<1> QED
  BY <1>2, <1>4, <1>10 DEF DfuseInv

(* A control transfer, whatever becomes of it, keeps the invariant.          *)
LEMMA TransferStepKeeps ==
    ASSUME DfuseInv, Transfer
    PROVE  DfuseInv'
<1>1. PICK r \in Responses(device, Due) \cup Faults(device, Due) : Takes(r)
  BY DEF Transfer
<1>2. PICK x, c2, d2 : x = host' /\ c2 = claimed' /\ d2 = device'
  OBVIOUS
<1>3. d2 = r.dev /\ c2 = claimed /\ (x = [host EXCEPT !.tries = @ + 1] \/ x = After(r.says))
  BY <1>1, <1>2 DEF Takes, Transfer
<1>4. DInv(x, claimed, r.dev)
  BY <1>1, <1>3, TransferKeeps DEF Transfer
<1> QED
  BY <1>2, <1>3, <1>4 DEF DfuseInv

(* What is asked of a device is one of the transactions that are known.      *)
LEMMA TransactionsType ==
    ASSUME NEW t \in Transactions
    PROVE  /\ t \in KnownTransactions
           /\ t.kind = "downloadWirelessStack" =>
                 t.elements = <<t.elements[1]>> /\ t.elements[1] \in [at : Int, size : Nat \ {0}]
<1> DEFINE Element == [at : Int, size : Nat]
<1>1. <<>> \in Elements
  BY DEF Elements
<1>2. \A kind \in TransactionKinds \ {"none"} : \A e \in Elements : Transaction(kind, e) \in KnownTransactions
  <2> HIDE DEF Element
  <2> QED
    BY DEF KnownTransactions, Transaction
<1>3. CASE t \in FileTransactions
  <2>1. CASE t = Transaction("invalidFile", <<>>)
    <3>1. t.kind # "downloadWirelessStack"
      BY <2>1 DEF Transaction
    <3>2. t \in KnownTransactions
      BY <1>1, <1>2, <2>1 DEF TransactionKinds
    <3> QED
      BY <3>1, <3>2
  <2>2. CASE \E file \in Files : t = Transaction("downloadFirmware", file)
    <3>1. PICK file \in Files : t = Transaction("downloadFirmware", file)
      BY <2>2
    <3>2. file \in Elements
      <4>1. Seq([at : Nat, size : Nat]) \subseteq Seq(Element)
        <5>1. [at : Nat, size : Nat] \subseteq Element
          OBVIOUS
        <5> QED
          BY <5>1, SeqMonotonic
      <4> QED
        BY <4>1, FilesAreSound DEF Elements
    <3>3. t.kind # "downloadWirelessStack"
      BY <3>1 DEF Transaction
    <3>4. t \in KnownTransactions
      BY <1>2, <3>1, <3>2 DEF TransactionKinds
    <3> QED
      BY <3>3, <3>4
  <2> QED
    BY <1>3, <2>1, <2>2 DEF FileTransactions
<1>4. CASE \E size \in ImageSizes : t = Transaction("downloadWirelessStack", <<[at |-> 0, size |-> size]>>)
  <2>1. PICK size \in ImageSizes : t = Transaction("downloadWirelessStack", <<[at |-> 0, size |-> size]>>)
    BY <1>4
  <2>2. size \in Nat \ {0}
    BY FilesAreSound
  <2>3. PICK element : element = [at |-> 0, size |-> size]
    OBVIOUS
  <2>4. element \in [at : Int, size : Nat \ {0}] /\ element \in Element
    BY <2>2, <2>3
  <2>5. t.elements = <<element>> /\ t.elements[1] = element
    BY <2>1, <2>3 DEF Transaction
  <2>6. <<element>> \in Elements
    <3> HIDE DEF Element
    <3>1. <<element>> \in Seq(Element)
      BY <2>4
    <3> QED
      BY <3>1 DEF Elements, Element
  <2>7. t \in KnownTransactions
    BY <1>2, <2>1, <2>3, <2>6 DEF TransactionKinds
  <2> QED
    BY <2>4, <2>5, <2>7
<1>5. CASE \E kind \in {"setOSBoot", "setRecoveryBoot", "downloadOptionBytes", "exitRecoveryMode", "wirelessStatus", "startFUS",
                        "deleteWirelessStack", "upgradeWirelessStack", "checkWirelessStack"} : t = Transaction(kind, <<>>)
  <2>1. PICK kind \in {"setOSBoot", "setRecoveryBoot", "downloadOptionBytes", "exitRecoveryMode", "wirelessStatus", "startFUS",
                       "deleteWirelessStack", "upgradeWirelessStack", "checkWirelessStack"} : t = Transaction(kind, <<>>)
    BY <1>5
  <2>2. t.kind = kind
    BY <2>1 DEF Transaction
  <2>3. t \in KnownTransactions
    BY <1>1, <1>2, <2>1 DEF TransactionKinds
  <2> QED
    BY <2>1, <2>2, <2>3
<1> QED
  BY <1>3, <1>4, <1>5 DEF Transactions

(* A transaction begins with a device whose memory is what it is to keep,    *)
(* and with the interface free or held by a handle that was lost.            *)
LEMMA Started ==
    ASSUME NEW h, NEW c, NEW d, DInv(h, c, d), d.state # "dnloadBusy",
           NEW t \in Transactions,
           NEW x, x = [Idle EXCEPT !.job = t, !.todo = Calls(t), !.result = "running", !.blind = h.blind],
           NEW c2, c2 = (IF c = "host" THEN "lost" ELSE c),
           NEW y, y = [d EXCEPT !.memory = Unchanged]
    PROVE  DInv(x, c2, y)
<1>1. /\ x.job = t /\ x.todo = Calls(t) /\ x.read = NothingRead /\ x.result = "running" /\ x.blind = h.blind
      /\ DOMAIN x = HostFields
  BY DEF Idle, HostFields
<1>2. HostType(h) /\ DeviceType(d, h.blind) /\ ClaimInv(c, d) /\ CommandInv(h, c, d) /\ h.blind \in BOOLEAN
  BY DEF DInv, HostType
<1>3. /\ y.state = d.state /\ y.alt = d.alt /\ y.pointer = d.pointer /\ y.cmd = d.cmd /\ y.options = d.options
      /\ y.memory = Unchanged /\ DOMAIN y = DeviceFields
  BY <1>2 DEF DeviceType, DeviceFields
<1>4. Clean(y)
  BY <1>3 DEF Clean, Unchanged
<1>5. /\ t \in KnownTransactions
      /\ t.kind = "downloadWirelessStack" =>
            t.elements = <<t.elements[1]>> /\ t.elements[1] \in [at : Int, size : Nat \ {0}]
  BY TransactionsType
<1>6. t.kind \in TransactionKinds /\ t.kind # "none" /\ t \in [kind : TransactionKinds, elements : Elements]
  BY <1>5 DEF KnownTransactions
<1>7. HostType(x)
  <2>1. NothingRead \in AnyOptions
    BY DEF NothingRead, AnyOptions
  <2>2. x.job \in [kind : TransactionKinds, elements : Seq([at : Int, size : Nat])]
    BY <1>1, <1>6 DEF Elements
  <2>3. Stacked(x) => x.job.elements = <<x.job.elements[1]>> /\ x.job.elements[1] \in [at : Int, size : Nat \ {0}]
    BY <1>1, <1>5 DEF Stacked
  <2> QED
    BY <1>1, <1>2, <2>1, <2>2, <2>3 DEF HostType, HostFields
<1>8. DeviceType(y, x.blind)
  BY <1>1, <1>2, <1>3 DEF DeviceType, DeviceFields
<1>9. c2 \in {"none", "lost"} /\ ClaimInv(c2, y)
  BY <1>2, <1>3 DEF ClaimInv
<1>10. x.todo = Calls(x.job) /\ x.job.kind # "none"
  BY <1>1, <1>6
<1>11. TodoInv(x, c2, y)
  <2>1. Beginning(x, y)
    BY <1>1, <1>4 DEF Beginning
  <2>2. ASSUME ~WritesMemory(x) PROVE x.todo \in PlainTodos(x.blind)
    <3>1. t.kind \notin WritingKinds
      BY <1>1, <2>2 DEF WritesMemory, WritingKinds
    <3> QED
      BY <1>1, <1>2, <1>5, <3>1, CallsOfPlain
  <2> QED
    BY <1>10, <2>1, <2>2 DEF TodoInv
<1>12. CommandInv(x, c2, y)
  <2>1. ASSUME Pending(y) PROVE Foreign(x, c2, y)
    <3>1. Pending(d) /\ d.state = "dnloadSync" /\ y.state = "dnloadSync"
      BY <1>3, <2>1 DEF Pending
    <3>2. CASE c2 = "lost"
      BY <1>4, <3>1, <3>2 DEF Foreign
    <3>3. CASE c2 = "none"
      <4>1. c = "none"
        BY <1>2, <3>3 DEF ClaimInv
      <4>2. Foreign(h, c, d)
        BY <1>2, <3>1, <4>1 DEF CommandInv, Mine
      <4>3. d.cmd \in Pointers \cup Raws \/ d.cmd \in OptionWrites(h.blind)
        BY <4>1, <4>2 DEF Foreign
      <4> QED
        BY <1>1, <1>3, <1>4, <4>3 DEF Foreign
    <3> QED
      BY <1>9, <3>2, <3>3
  <2> QED
    BY <2>1 DEF CommandInv
<1>13. MemoryInv(x, y)
  BY <1>4 DEF MemoryInv, TouchesOnly, StaysBelow, Clean
<1>14. BlocksInv(x, c2, y)
  <2>1. ~Downloading(x, c2, y)
    BY <1>9 DEF Downloading
  <2>2. ~Ending(x)
    <3>1. First(x.todo) = Item("claim", 0)
      BY <1>7, <1>10, ClaimIsFirst
    <3>2. First(End) = Item("release", 0)
      BY ShortTodos
    <3> QED
      BY <3>1, <3>2 DEF Ending, Item
  <2> QED
    BY <1>1, <2>1, <2>2 DEF BlocksInv
<1> QED
  BY <1>7, <1>8, <1>9, <1>11, <1>12, <1>13, <1>14 DEF DInv

(* A transaction that begins keeps the invariant. *)
LEMMA StartKeeps ==
    ASSUME DfuseInv, Start
    PROVE  DfuseInv'
<1>1. PICK h, c, d : Now(h, c, d)
  BY DEF Now
<1>2. PICK x, c2, d2 : x = host' /\ c2 = claimed' /\ d2 = device'
  OBVIOUS
<1>3. DInv(h, c, d) /\ h = host /\ c = claimed /\ d = device
  BY <1>1, NowKnown
<1>4. /\ d.state # "dnloadBusy" /\ c2 = (IF c = "host" THEN "lost" ELSE c) /\ d2 = [d EXCEPT !.memory = Unchanged]
      /\ \E t \in Transactions :
            x = [Idle EXCEPT !.job = t, !.todo = Calls(t), !.result = "running", !.blind = h.blind]
  BY <1>2, <1>3 DEF Start
<1>5. PICK t \in Transactions :
          x = [Idle EXCEPT !.job = t, !.todo = Calls(t), !.result = "running", !.blind = h.blind]
  BY <1>4
<1>6. DInv(x, c2, d2)
  BY <1>3, <1>4, <1>5, Started
<1> QED
  BY <1>2, <1>6 DEF DfuseInv

(* A device that settles, one that is gone and one that comes back.          *)
LEMMA DeviceSettlesKeeps ==
    ASSUME DfuseInv, DeviceSettles
    PROVE  DfuseInv'
<1>1. PICK h, c, d : Now(h, c, d)
  BY DEF Now
<1>2. PICK d2 : d2 = device'
  OBVIOUS
<1>3. DInv(h, c, d) /\ h = host /\ c = claimed /\ d = device
  BY <1>1, NowKnown
<1>4. h.todo = <<>> /\ d.state = "dnloadBusy" /\ d2 = Executed(d) /\ host' = h /\ claimed' = c
  BY <1>2, <1>3 DEF DeviceSettles, Busy
<1>5. DInv(h, c, d2)
  BY <1>3, <1>4, CarriedOut
<1> QED
  BY <1>2, <1>4, <1>5 DEF DfuseInv

(* The invariant, of a device that goes away between two transactions. *)
LEMMA Departed ==
    ASSUME NEW h, NEW c, NEW d, DInv(h, c, d), h.todo = <<>>, NEW y, y = [d EXCEPT !.state = "gone"]
    PROVE  DInv(h, c, y)
<1>1. HostType(h) /\ DeviceType(d, h.blind) /\ ClaimInv(c, d) /\ TodoInv(h, c, d) /\ MemoryInv(h, d) /\ BlocksInv(h, c, d)
  BY DEF DInv
<1>2. /\ y.state = "gone" /\ y.alt = d.alt /\ y.pointer = d.pointer /\ y.cmd = d.cmd /\ y.options = d.options
      /\ y.memory = d.memory /\ DOMAIN y = DeviceFields
  BY <1>1 DEF DeviceType, DeviceFields
<1>3. ~Pending(y)
  BY <1>2 DEF Pending
<1>4. DeviceType(y, h.blind)
  BY <1>1, <1>2 DEF DeviceType, DeviceFields, DeviceStates
<1>5. ClaimInv(c, y) /\ CommandInv(h, c, y)
  BY <1>1, <1>2, <1>3 DEF ClaimInv, CommandInv
<1>6. TodoInv(h, c, y)
  BY <1>1 DEF TodoInv
<1>7. MemoryInv(h, y) /\ (AllDone(d, h.job.elements) => AllDone(y, h.job.elements))
  BY <1>1, <1>2, SameMemory
<1>8. BlocksInv(h, c, y)
  <2>1. ~Downloading(h, c, y) /\ ~Ending(h)
    BY ShortTodos DEF Downloading, Ending
  <2>2. ASSUME WritesMemory(h), h.result = "ok" PROVE AllWritten(h, c, y)
    <3>1. AllWritten(h, c, d)
      BY <1>1, <2>2 DEF BlocksInv
    <3>2. AllDone(y, h.job.elements)
      BY <1>7, <3>1 DEF AllWritten, AllDone
    <3> QED
      BY <1>3, <3>2 DEF AllWritten, AllDone
  <2> QED
    BY <2>1, <2>2 DEF BlocksInv
<1> QED
  BY <1>1, <1>4, <1>5, <1>6, <1>7, <1>8 DEF DInv

(* A device that goes away keeps the invariant. *)
LEMMA DisconnectsKeeps ==
    ASSUME DfuseInv, Disconnects
    PROVE  DfuseInv'
<1>1. PICK h, c, d : Now(h, c, d)
  BY DEF Now
<1>2. PICK d2 : d2 = device'
  OBVIOUS
<1>3. DInv(h, c, d) /\ h = host /\ c = claimed /\ d = device
  BY <1>1, NowKnown
<1>4. h.todo = <<>> /\ d2 = [d EXCEPT !.state = "gone"] /\ host' = h /\ claimed' = c
  BY <1>2, <1>3 DEF Disconnects, Busy
<1>5. DInv(h, c, d2)
  BY <1>3, <1>4, Departed
<1> QED
  BY <1>2, <1>4, <1>5 DEF DfuseInv

(* A device that has just come, and a host that has asked it for nothing.    *)
LEMMA Arrived ==
    ASSUME NEW options \in KeptOptions(FALSE), NEW d, d = Attached(options, Unchanged)
    PROVE  DInv(Idle, "none", d)
<1>1. /\ d.state = "idle" /\ d.alt = 0 /\ d.pointer = Origin /\ d.options = options /\ d.memory = Unchanged
      /\ DOMAIN d = DeviceFields
  BY DEF Attached, DeviceFields
<1>2. /\ Idle.job = Transaction("none", <<>>) /\ Idle.todo = <<>> /\ Idle.read = NothingRead /\ Idle.result = "none"
      /\ Idle.blind = FALSE /\ DOMAIN Idle = HostFields
  BY DEF Idle, HostFields
<1>3. Idle.job.kind = "none" /\ Idle.job.elements = <<>> /\ ~WritesMemory(Idle) /\ ~Stacked(Idle)
  BY <1>2 DEF Transaction, WritesMemory, Stacked
<1>4. Clean(d) /\ ~Pending(d)
  BY <1>1 DEF Clean, Unchanged, Pending
<1>5. HostType(Idle)
  <2>1. NothingRead \in AnyOptions
    BY DEF NothingRead, AnyOptions
  <2>2. Idle.job \in [kind : TransactionKinds, elements : Seq([at : Int, size : Nat])]
    BY <1>2 DEF Transaction, TransactionKinds
  <2> QED
    BY <1>2, <1>3, <2>1, <2>2 DEF HostType, HostFields
<1>6. DeviceType(d, Idle.blind)
  <2>1. d.state \in DeviceStates /\ d.alt \in {0, 1} /\ d.pointer \in Int
    BY <1>1, SizesType DEF DeviceStates
  <2>2. d.options \in KeptOptions(FALSE) /\ DOMAIN d = DeviceFields
    BY <1>1
  <2>3. DeviceType(d, FALSE)
    BY <2>1, <2>2 DEF DeviceType, DeviceFields
  <2> QED
    BY <1>2, <2>3
<1>7. ClaimInv("none", d) /\ CommandInv(Idle, "none", d)
  BY <1>4 DEF ClaimInv, CommandInv
<1>8. TodoInv(Idle, "none", d)
  <2>1. <<>> \in PlainTodos(FALSE)
    BY PlainTodo
  <2> QED
    BY <1>2, <1>3, <2>1 DEF TodoInv
<1>9. MemoryInv(Idle, d) /\ BlocksInv(Idle, "none", d)
  BY <1>3, <1>4 DEF MemoryInv, BlocksInv, TouchesOnly, Clean
<1> QED
  BY <1>5, <1>6, <1>7, <1>8, <1>9 DEF DInv

(* A device that comes back keeps the invariant. *)
LEMMA ReconnectsKeeps ==
    ASSUME DfuseInv, Reconnects
    PROVE  DfuseInv'
<1>1. PICK h, c, d : Now(h, c, d)
  BY DEF Now
<1>2. PICK d2 : d2 = device'
  OBVIOUS
<1>3. DeviceType(d, h.blind) /\ d = device
  BY <1>1, NowKnown
<1>4. PICK options : options = [d.options EXCEPT !.kept = TRUE]
  OBVIOUS
<1>5. options \in KeptOptions(FALSE)
  <2>1. d.options \in AnyOptions
    BY <1>3 DEF DeviceType, KeptOptions
  <2>2. options \in AnyOptions /\ options.kept = TRUE
    BY <1>4, <2>1 DEF AnyOptions
  <2> QED
    BY <2>2 DEF KeptOptions
<1>6. host' = Idle /\ claimed' = "none" /\ d2 = Attached(options, Unchanged)
  BY <1>2, <1>3, <1>4 DEF Reconnects
<1>7. DInv(Idle, "none", d2)
  BY <1>5, <1>6, Arrived
<1> QED
  BY <1>2, <1>6, <1>7 DEF DfuseInv, Idle

(* The invariant holds at the beginning. *)
LEMMA DfuseInitHolds ==
    ASSUME DfuseInit
    PROVE  DfuseInv
<1>1. PICK options \in Options : device = Attached(options, Unchanged)
  BY DEF DfuseInit
<1>2. options \in KeptOptions(FALSE)
  BY DEF Options, KeptOptions, AnyOptions
<1> QED
  BY <1>1, <1>2, Arrived DEF DfuseInit, DfuseInv

(* Every step keeps the invariant. *)
LEMMA DfuseStepKeeps ==
    ASSUME DfuseInv, [DfuseNext]_dfuseVars
    PROVE  DfuseInv'
<1>1. CASE UNCHANGED dfuseVars
  BY <1>1 DEF dfuseVars, DfuseInv
<1>2. CASE DfuseNext
  BY <1>2, StartKeeps, TransferStepKeeps, ClaimKeeps, ReleaseKeeps, LocalKeeps, PlaceKeeps, DeviceSettlesKeeps, DisconnectsKeeps, ReconnectsKeeps
     DEF DfuseNext
<1> QED
  BY <1>1, <1>2

(* The invariant implies that nothing else is touched. *)
LEMMA InvMeansNothingElse ==
    ASSUME DfuseInv
    PROVE  NothingElseTouched
<1>1. PICK h, c, d : Now(h, c, d)
  BY DEF Now
<1>2. DInv(h, c, d) /\ HostType(h) /\ DeviceType(d, h.blind) /\ h = host /\ c = claimed /\ d = device
  BY <1>1, NowKnown
<1>3. MemoryInv(h, d)
  BY <1>2 DEF DInv
<1>4. Writes = WritesMemory(h)
  BY <1>2 DEF Writes, WritesMemory
<1>5. ASSUME NEW a \in Addresses, d.memory[a] # Old
      PROVE  Writes /\ \E k \in DOMAIN h.job.elements : \E b \in Touched(h.job.elements[k]) : PageOf(a) = PageOf(b)
  BY <1>3, <1>4, <1>5 DEF MemoryInv, TouchesOnly, Clean
<1>6. ASSUME h.job.kind = "downloadWirelessStack", ~Astray
      PROVE  \A a \in Addresses : d.memory[a] # Old => a < Origin + PageSize * d.options.sfsa
  <2>1. Stacked(h)
    BY <1>6 DEF Stacked
  <2>2. h.job.elements[1].at = TargetAddress(h.job.elements[1].size, d.options.sfsa)
    BY <1>2, <1>6 DEF Astray
  <2>3. Fits(h.job.elements, d)
    BY <1>2, <2>1, <2>2, WhereItFits DEF Fits
  <2> QED
    BY <1>3, <2>1, <2>3 DEF MemoryInv, StaysBelow
<1>7. ~d.options.kept => h.blind
  BY <1>2 DEF DeviceType, KeptOptions
<1> QED
  BY <1>2, <1>5, <1>6, <1>7 DEF NothingElseTouched

(* The invariant implies that a success is one: every cell of an element is in a block, and every block is written. *)
LEMMA InvMeansWritten ==
    ASSUME DfuseInv
    PROVE  SuccessMeansWritten
<1>1. PICK h, c, d : Now(h, c, d)
  BY DEF Now
<1>2. DInv(h, c, d) /\ HostType(h) /\ h = host /\ c = claimed /\ d = device
  BY <1>1, NowKnown
<1>3. PICK e : e = h.job.elements
  OBVIOUS
<1>4. e \in Elements
  BY <1>2, <1>3 DEF HostType, Elements
<1>5. SUFFICES ASSUME WritesMemory(h), h.result = "ok", NEW k \in DOMAIN e, NEW a \in Cells(e[k])
               PROVE  d.memory[a] = <<k, a - e[k].at + 1>>
  BY <1>2, <1>3 DEF SuccessMeansWritten, Writes, WritesMemory
<1>6. PICK at, n : at = e[k].at /\ n = e[k].size /\ at \in Int /\ n \in Nat
  BY <1>4, <1>5, ElementType
<1>7. a \in at..at + n - 1
  BY <1>5, <1>6 DEF Cells
<1>8. PICK i \in 1..n : i = a - at + 1
  BY <1>6, <1>7
<1>9. PICK b \in 1..BlockCount(n) : \E j \in DOMAIN Block(Data(k, n), b) : i = Skipped(b) + j
  BY <1>6, <1>8, BlocksCover
<1>10. PICK j \in DOMAIN Block(Data(k, n), b) : i = Skipped(b) + j
  BY <1>9
<1>11. Written(d, e, k, b)
  <2>1. AllWritten(h, c, d)
    BY <1>2, <1>5 DEF DInv, BlocksInv
  <2>2. b \in BlocksOf(e, k)
    BY <1>6, <1>9 DEF BlocksOf
  <2> QED
    BY <1>3, <2>1, <2>2 DEF AllWritten
<1>12. d.memory[at + Skipped(b) + j - 1] = <<k, Skipped(b) + j>>
  BY <1>6, <1>10, <1>11 DEF Written
<1>13. at + Skipped(b) + j - 1 = a
  <2>1. PICK size : size = Len(Block(Data(k, n), b)) /\ size \in Nat \ {0} /\ DOMAIN Block(Data(k, n), b) = 1..size
                    /\ Skipped(b) \in Nat
    <3>1. /\ Len(Block(Data(k, n), b)) \in Nat \ {0} /\ Skipped(b) \in Nat
          /\ DOMAIN Block(Data(k, n), b) = 1..Len(Block(Data(k, n), b))
      BY <1>6, <1>9, BlockType
    <3> QED
      BY <3>1
  <2>2. j \in Int
    BY <1>10, <2>1
  <2>3. PICK skipped \in Nat : skipped = Skipped(b)
    BY <2>1
  <2>4. at \in Int /\ a \in Int /\ i \in Int
    BY <1>6, <1>7, <1>8
  <2>5. i = a - at + 1 /\ i = skipped + j
    BY <1>8, <1>10, <2>3
  <2>6. at + skipped + j - 1 = a
    BY <2>2, <2>4, <2>5
  <2> QED
    BY <2>3, <2>6
<1> QED
  BY <1>6, <1>8, <1>10, <1>12, <1>13

(* The invariant of DfuseDevice holds for every layout of pages, every file and
   every number of tries. *)
THEOREM DfuseIsSound == DfuseSpec => []DfuseInv
<1> QED
  BY DfuseInitHolds, DfuseStepKeeps, PTL DEF DfuseSpec

(* Whatever fails, a transaction alters no page its elements have no part in, no option
   byte but its own and, unless the stack went astray because the memory layout could not
   be read, nothing of the secure area (Recovery, STM32WB55, DfuseDevice). *)
THEOREM OnlyItsPages == DfuseSpec => []NothingElseTouched
<1> QED
  BY DfuseIsSound, InvMeansNothingElse, PTL

(* A download that is reported as done has written every element of the file whole,
   each block in its place (STM32WB55::download(), DfuseDevice::download()). *)
THEOREM WrittenWhole == DfuseSpec => []SuccessMeansWritten
<1> QED
  BY DfuseIsSound, InvMeansWritten, PTL

=============================================================================
