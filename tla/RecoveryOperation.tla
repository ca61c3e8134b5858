--------------------------- MODULE RecoveryOperation ---------------------------
(***************************************************************************)
(* RecoveryInterface: the runner of OperationRunner with the recovery      *)
(* operations it runs (src/backend/flipperzero/recovery), what they have   *)
(* Recovery (recovery.cpp) do to the device, and the device.               *)
(*                                                                         *)
(* A transaction with the device is one step: it blocks the event loop.    *)
(* Firmware is written by a thread, whose transaction keeps all others out *)
(* as long as the device stays.  What a transaction is made of is the      *)
(* matter of DfuseDevice.                                                  *)
(*                                                                         *)
(* External: the device, which leaves and returns as it likes, and its     *)
(* second core, which runs the firmware upgrade service (FUS) or the       *)
(* wireless stack.  It takes commands while the FUS is idle.               *)
(***************************************************************************)
EXTENDS OperationRunner

CONSTANT MaxTries       \* INSTALL_TRY_COUNT and CHECK_TRY_COUNT, 3

ASSUME TriesAreNumbers == MaxTries \in Nat \ {0}

VARIABLES
    job,        \* the operation that was started last
    thread,     \* its download: "none", "writing", or "astray", which is bound to fail
    held,       \* the thread of an operation that is over still holds the device
    dev         \* the device and its second core

recoveryVars == <<job, thread, held, dev>>
allVars == <<vars, recoveryVars>>

BootKinds == {"setOSBoot", "setRecoveryBoot", "fixOptionBytes", "exitRecovery"}
Kinds == BootKinds \cup {"firmware", "wirelessStack"}

NoJob == [kind |-> "none", at |-> "none", timer |-> FALSE, loop |-> FALSE, steps |-> 0,
          installs |-> 0, checks |-> 0, unread |-> FALSE]
NewJob(kind) == [NoJob EXCEPT !.kind = kind, !.at = "ready", !.steps = 1, !.installs = MaxTries]
Underway == job.at \notin {"none", "ok", "failed"}

RecoveryInit ==
    /\ Init
    /\ job = NoJob
    /\ thread = "none"
    /\ held = FALSE
    /\ dev = [online |-> TRUE, dfu |-> TRUE, core2 |-> "stack", stack |-> "old", image |-> "none"]

-----------------------------------------------------------------------------
(* The end of a step: the operation is over, or goes on.                     *)

LeavesThread == thread' = "none" /\ held' = (held \/ thread = "writing")
Finish(unread) ==
    /\ Succeed(Current)
    /\ job' = [NoJob EXCEPT !.kind = job.kind, !.at = "ok", !.unread = unread]
    /\ LeavesThread /\ UNCHANGED dev
FinishWithError ==
    /\ Fail(Current)
    /\ job' = [NoJob EXCEPT !.kind = job.kind, !.at = "failed"]
    /\ LeavesThread /\ UNCHANGED dev
GoOn(next) == job' = next /\ UNCHANGED <<vars, thread, held>>
Advanced(j) == [j EXCEPT !.steps = @ + 1]

(* A transaction finds the device, in recovery mode, with no other under way. *)
BeginTransaction == dev.online /\ dev.dfu /\ thread # "writing" /\ ~held

(* Anything may go wrong in a transaction (FinishWithError), or it is done.   *)
Done(next, nextDev) == BeginTransaction /\ GoOn(next) /\ dev' = nextDev

StartThread(j) ==
    /\ job' = [j EXCEPT !.at = "downloading"]
    /\ thread' = IF BeginTransaction THEN "writing" ELSE "astray"
    /\ dev' = [dev EXCEPT !.image = IF BeginTransaction THEN "part" ELSE @]
    /\ UNCHANGED <<vars, held>>

-----------------------------------------------------------------------------
(* SetBootModeOperation, CorrectOptionBytesOperation, ExitRecoveryOperation  *)

ResetsDevice(j) == FinishWithError \/ Done([j EXCEPT !.at = "waiting", !.timer = TRUE], dev)
BootLogic(j) ==
    \/ j.at = "ready" /\ ResetsDevice(j)
    \/ j.at = "waiting" /\ Finish(FALSE)

(* FirmwareDownloadOperation: whatever advances it in the second state       *)
(* finishes it.                                                              *)
FirmwareLogic(j) ==
    \/ j.at = "ready" /\ StartThread(j)
    \/ j.at = "downloading" /\ Finish(FALSE)

-----------------------------------------------------------------------------
(* WirelessStackDownloadOperation                                            *)

(* FUSState.  While the stack runs the first request says so, the second     *)
(* starts the FUS, which a reset completes.                                  *)
FUSGetState ==
    CASE dev.core2 = "fus" -> "FUSRunning"
      [] dev.core2 \in {"stack", "starting"} -> "WSRunning"
      [] dev.core2 = "error" -> "ErrorOccured"
      [] OTHER -> "UnhandledState"

StartUntimed(j) == [j EXCEPT !.at = "startingFUS"]                       \* mutant
StartTimed(j) == [j EXCEPT !.at = "startingFUS", !.timer = TRUE]
StartFUS(j) ==
    \/ FinishWithError
    \/ /\ FUSGetState \in {"FUSRunning", "WSRunning"}
       /\ Done(StartTimed(j), [dev EXCEPT !.core2 = IF @ = "stack" THEN "starting" ELSE @])

DeleteWirelessStack(j) ==
    \/ FinishWithError
    \/ /\ FUSGetState = "FUSRunning"
       /\ Done([j EXCEPT !.at = "deleting", !.loop = TRUE], [dev EXCEPT !.core2 = "deleting"])

(* wirelessStatus()                                                          *)
Statuses == {"Invalid"} \cup (IF BeginTransaction THEN {FUSGetState} ELSE {})
WaitsNext(status) == status \in {"Invalid", "UnhandledState"}

IsWirelessStackDeleted(j) ==
    \E status \in Statuses :
       \/ WaitsNext(status) /\ GoOn(j) /\ UNCHANGED dev
       \/ status \in {"WSRunning", "ErrorOccured"} /\ FinishWithError
       \/ status = "FUSRunning" /\ StartThread([j EXCEPT !.loop = FALSE])

UpgradeWirelessStack(j) ==
    \/ FinishWithError
    \/ /\ FUSGetState = "FUSRunning"
       /\ Done([j EXCEPT !.at = "upgrading", !.loop = TRUE], [dev EXCEPT !.core2 = "upgrading"])

(* checkWirelessStack() starts the loop again, and posts a step as well.     *)
IsWirelessStackUpgraded(j) ==
    \E status \in Statuses :
       \/ WaitsNext(status) /\ GoOn(j) /\ UNCHANGED dev
       \/ status = "ErrorOccured" /\ FinishWithError
       \/ /\ status \in {"FUSRunning", "WSRunning"}
          /\ GoOn(Advanced([j EXCEPT !.at = "checking", !.loop = TRUE, !.checks = MaxTries]))
          /\ UNCHANGED dev

TryAgain(j) ==
    \/ j.checks > 1 /\ GoOn([j EXCEPT !.checks = @ - 1]) /\ UNCHANGED dev
    \/ /\ j.checks <= 1 /\ j.installs > 1
       /\ GoOn(Advanced([j EXCEPT !.checks = 0, !.installs = @ - 1, !.loop = FALSE, !.at = "ready"]))
       /\ UNCHANGED dev
    \/ j.checks <= 1 /\ j.installs <= 1 /\ FinishWithError

(* A version that cannot be read is not "0.0.0", and passes.                 *)
AnyVersion(version) == TRUE                                              \* mutant
VersionOK(version) == version # "0.0.0"
Versions == {"unreadable", IF dev.stack = "none" THEN "0.0.0" ELSE "a version"}
CheckWirelessStack(j) ==
    \/ TryAgain(j)                       \* the transaction has failed
    \/ /\ BeginTransaction
       /\ \E version \in Versions :
             IF VersionOK(version) THEN Finish(version = "unreadable") ELSE TryAgain(j)

WirelessStackLogic(j) ==
    \/ j.at = "ready" /\ StartFUS(j)
    \/ j.at = "startingFUS" /\ DeleteWirelessStack(j)
    \/ j.at = "deleting" /\ IsWirelessStackDeleted(j)
    \/ j.at = "downloading" /\ UpgradeWirelessStack(j)
    \/ j.at = "upgrading" /\ IsWirelessStackUpgraded(j)
    \/ j.at = "checking" /\ CheckWirelessStack(j)

-----------------------------------------------------------------------------
(* What makes an operation take its next step                                *)

NextStateLogic(j) ==
    \/ job.kind \in BootKinds /\ BootLogic(j)
    \/ job.kind = "firmware" /\ FirmwareLogic(j)
    \/ job.kind = "wirelessStack" /\ WirelessStackLogic(j)

PostedStep == Underway /\ job.steps > 0 /\ NextStateLogic([job EXCEPT !.steps = @ - 1])
LoopTimer == Underway /\ job.loop /\ NextStateLogic(job)

AssumesFunctional == dev.online /\ job.kind \notin {"exitRecovery", "firmware"}
OnOperationTimeout ==
    /\ Underway /\ job.timer
    /\ IF AssumesFunctional
       THEN GoOn(Advanced([job EXCEPT !.timer = FALSE])) /\ UNCHANGED dev
       ELSE FinishWithError

(* The thread of the operation ends; that of an operation that is over does  *)
(* not tell anybody.                                                         *)
ThreadEnds ==
    /\ thread # "none"
    /\ \/ FinishWithError
       \/ /\ thread = "writing"
          /\ job' = Advanced(job) /\ thread' = "none"
          /\ dev' = [dev EXCEPT !.image = "whole"]
          /\ UNCHANGED <<vars, held>>
HolderEnds == held /\ held' = FALSE /\ UNCHANGED <<vars, job, thread, dev>>

-----------------------------------------------------------------------------
(* The device *)

DeviceLeaves ==
    /\ dev.online
    /\ dev' = [dev EXCEPT !.online = FALSE]
    /\ job' = [job EXCEPT !.timer = @ \/ Underway]
    /\ thread' = IF thread = "writing" THEN "astray" ELSE thread
    /\ held' = FALSE
    /\ UNCHANGED vars

(* A device takes longer to come back than a posted step to be taken.        *)
DeviceReturns ==
    /\ ~dev.online /\ job.steps = 0
    /\ \E dfu \in BOOLEAN :
          dev' = [dev EXCEPT !.online = TRUE, !.dfu = dfu,
                             !.core2 = IF @ = "starting" THEN "fus" ELSE @]
    /\ job' = IF Underway THEN Advanced([job EXCEPT !.timer = FALSE]) ELSE job
    /\ UNCHANGED <<vars, thread, held>>

(* The FUS ends what it was told to do: it has done it, or it has not and    *)
(* says so, or does not say so.                                              *)
SecondCore ==
    /\ dev' \in CASE dev.core2 = "deleting" ->
                     {[dev EXCEPT !.core2 = "fus", !.stack = "none"], [dev EXCEPT !.core2 = "error"]}
                  [] dev.core2 = "upgrading" ->
                     {[dev EXCEPT !.core2 = "fus"], [dev EXCEPT !.core2 = "error"]}
                       \cup (IF dev.image = "whole" THEN {[dev EXCEPT !.core2 = "stack", !.stack = "new"]} ELSE {})
                  [] OTHER -> {}
    /\ UNCHANGED <<vars, job, thread, held>>

-----------------------------------------------------------------------------
(* The runner *)

Enqueue == \E o \in Operation : EnqueueOperation(o) /\ UNCHANGED recoveryVars
Deletion == \E o \in Operation : Delete(o) /\ UNCHANGED recoveryVars

(* start(): the kind of an operation matters from here on.                   *)
RunnerTurn ==
    /\ ProcessQueue
    /\ IF queue = <<>> THEN UNCHANGED job ELSE \E kind \in Kinds : job' = NewJob(kind)
    /\ UNCHANGED <<thread, held, dev>>

RecoveryNext ==
    \/ Enqueue \/ Deletion \/ RunnerTurn
    \/ PostedStep \/ LoopTimer \/ OnOperationTimeout \/ ThreadEnds \/ HolderEnds
    \/ DeviceLeaves \/ DeviceReturns \/ SecondCore

RecoverySpec == RecoveryInit /\ [][RecoveryNext]_allVars

(* The event loop runs what was posted, timers fire and threads end.         *)
RecoveryFairSpec ==
    /\ RecoverySpec
    /\ WF_allVars(RunnerTurn) /\ WF_allVars(PostedStep) /\ WF_allVars(OnOperationTimeout)
    /\ WF_allVars(ThreadEnds) /\ WF_allVars(LoopTimer)

-----------------------------------------------------------------------------
(* Properties *)

(* An operation that is under way has something to wait for that will come   *)
(* whatever the device does: a posted step, a timer or its thread.  None is  *)
(* left in the runner for good, with the others queued behind it.            *)
NothingStalls ==
    /\ Underway => job.timer \/ job.loop \/ job.steps > 0 \/ thread # "none"
    /\ Underway <=> Running # {}

(* A wireless stack is reported as installed only when the old one was       *)
(* deleted and the new one runs, over all tries, resets and steps posted     *)
(* twice - or when its version could not be read at all.  Firmware is not    *)
(* reported as written while it still is, unless the device has left.        *)
SuccessMeansDone ==
    [][job.at # "ok" /\ job'.at = "ok" =>
         /\ job.kind = "wirelessStack" => dev.stack = "new" \/ job'.unread
         /\ job.kind = "firmware" => thread # "writing"]_allVars

=============================================================================
