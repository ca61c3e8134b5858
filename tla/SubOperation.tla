----------------------------- MODULE SubOperation -----------------------------
(***************************************************************************)
(* One operation of UtilityInterface or RecoveryInterface at work on the   *)
(* device of a toplevel operation (src/backend/flipperzero/utility,        *)
(* src/backend/flipperzero/recovery), with the device itself: it reboots,  *)
(* is unplugged, and comes back in the mode it pleases.                    *)
(*                                                                         *)
(* The runners execute one operation at a time (OperationRunner), so there *)
(* is one job.  An action is one slot run by the event loop; its argument  *)
(* r says whether the job ends in it: "none", "ok" or "failed".            *)
(***************************************************************************)
EXTENDS Naturals

CONSTANT MaxPosted      \* bound: steps of a job posted at once; a device takes longer to reboot

ASSUME MaxPostedAssumption == MaxPosted \in Nat \ {0}

VARIABLES
    job,        \* the operation: its name, what it waits for, its timer, its posted steps
    request,    \* the RPC request it has handed to the session, see JobTypeOK
    dev,        \* the device: DeviceState, what is behind it, and whether its session is up
    crashed     \* the program has died

jobVars == <<job, request, dev, crashed>>

(* The option bytes and the boot mode: commands that reset the device.     *)
BootJobs == {"setRecoveryBootMode", "setOSBootMode", "fixOptionBytes", "exitRecoveryMode"}
RecoveryJobs == BootJobs \cup {"downloadFirmware", "downloadWirelessStack"}
(* Utility operations that wait for the device to come back ...            *)
ResetJobs == {"startRecoveryMode", "restartDevice", "factoryReset"}
(* ... and those that work through RPC requests, one after the other.      *)
Talkers ==
    {"backupInternalStorage", "restoreInternalStorage", "downloadAssets", "provisionRegionData",
     "refreshStorageInfo", "createPath", "verifyChecksum", "uploadFiles"}
JobNames == RecoveryJobs \cup ResetJobs \cup Talkers \cup {"startUpdater"}

Stages ==
    {"none", "queued",              \* in the runner
     "ready",                       \* started, its first step posted
     "asking", "rebooting",         \* StartUpdater: the two requests
     "away",                        \* waits for the device to come back online
     "working", "worked",           \* the transfer, in a thread
     "busy"}                        \* fetching, unpacking, or waiting for an answer

NoJob == [name |-> "none", at |-> "none", timer |-> FALSE, next |-> 0]
QueuedJob(name) == [name |-> name, at |-> "queued", timer |-> FALSE, next |-> 0]

(* A request is "queued" while its session is not up, "sent" once the        *)
(* session has it in line, and "lost" when it was dropped from there.        *)
DeviceRecords ==
    [online : BOOLEAN, dfu : BOOLEAN, boot : {"os", "dfu"}, resetting : BOOLEAN, up : BOOLEAN]
JobTypeOK ==
    /\ job \in [name : JobNames \cup {"none"}, at : Stages, timer : BOOLEAN, next : Nat]
    /\ request \in {"none", "queued", "sent", "lost"}
    /\ dev \in DeviceRecords
    /\ crashed \in BOOLEAN

-----------------------------------------------------------------------------

Ends(r) == r # "none" /\ job' = NoJob /\ request' = "none"
GoesOn(r, next) == r = "none" /\ job' = next
StepTaken(at) == [job EXCEPT !.at = at, !.next = @ - 1]
Asks == request' = IF dev.up THEN "sent" ELSE "queued"

(* The runner starts the job, which posts its first step. *)
StartJob(r) ==
    /\ job.at = "queued"
    /\ GoesOn(r, [job EXCEPT !.at = "ready", !.next = 1])
    /\ UNCHANGED <<request, dev, crashed>>

(* The transaction with the boot loader.  It cannot succeed without it.    *)
BootAfter(name) ==
    CASE name = "setRecoveryBootMode" -> "dfu"
      [] name \in {"setOSBootMode", "fixOptionBytes"} -> "os"
      [] OTHER -> dev.boot

BootTransaction(r) ==
    /\ job.name \in BootJobs
    /\ \/ Ends(r) /\ r = "failed" /\ UNCHANGED dev
       \/ /\ dev.online /\ dev.dfu
          /\ GoesOn(r, [StepTaken("away") EXCEPT !.timer = TRUE])
          /\ dev' = [dev EXCEPT !.boot = BootAfter(job.name)]
          /\ UNCHANGED request

StartTransfer(r) ==
    /\ job.name \in {"downloadFirmware", "downloadWirelessStack"}
    /\ GoesOn(r, StepTaken("working"))
    /\ UNCHANGED <<request, dev>>

AskForReset(r) ==
    /\ job.name \in ResetJobs
    /\ IF job.name = "startRecoveryMode" /\ dev.dfu
       THEN Ends(r) /\ r = "ok"
       ELSE /\ GoesOn(r, [StepTaken("away") EXCEPT !.timer = (job.name = "restartDevice")])
            /\ Asks
    /\ UNCHANGED dev

AskForUpdate(r) ==
    /\ job.name = "startUpdater"
    /\ GoesOn(r, StepTaken("asking"))
    /\ Asks
    /\ UNCHANGED dev

BeginTalking(r) ==
    /\ job.name \in Talkers
    /\ GoesOn(r, StepTaken("busy"))
    /\ UNCHANGED <<request, dev>>

FirstStep(r) ==
    /\ job.at = "ready" /\ job.next > 0
    /\ \/ BootTransaction(r)
       \/ StartTransfer(r)
       \/ AskForReset(r)
       \/ AskForUpdate(r)
       \/ BeginTalking(r)
    /\ UNCHANGED crashed

(* A step posted later, by a device that came online, by a thread that has *)
(* ended, by an answer or by a timer.  The polls of the wireless stack are *)
(* part of its work.                                                       *)
LaterStep(r) ==
    /\ job.next > 0
    /\ \/ job.at \in {"away", "worked"} /\ Ends(r) /\ r = "ok"
       \/ job.at = "working" /\ job.name = "downloadFirmware" /\ Ends(r) /\ r = "ok"
       \/ job.at = "working" /\ job.name # "downloadFirmware"
              /\ GoesOn(r, StepTaken("working")) /\ UNCHANGED request
       \/ job.at = "asking" /\ GoesOn(r, StepTaken("rebooting")) /\ Asks
       \/ job.at = "rebooting" /\ GoesOn(r, [StepTaken("away") EXCEPT !.timer = TRUE])
              /\ UNCHANGED request
    /\ UNCHANGED <<dev, crashed>>

(* The transfer of the firmware ends; the wireless stack is installed, or  *)
(* is given up after its tries.                                            *)
TransferEnds(r) ==
    /\ job.at = "working"
    /\ IF job.name = "downloadFirmware"
       THEN \/ Ends(r) /\ r = "failed"
            \/ GoesOn(r, [job EXCEPT !.at = "worked", !.next = @ + 1]) /\ UNCHANGED request
       ELSE Ends(r)
    /\ UNCHANGED <<dev, crashed>>

(* What is left of a utility operation between two requests: it ends, or   *)
(* it hands the next one to the session.  The data of the region is        *)
(* encoded by the plugin first, and the plugin goes with the session, but  *)
(* for one that has failed to start.                                       *)
Encodes == job.name = "provisionRegionData"

TalksOn(r) ==
    /\ job.at = "busy" /\ request = "none"
    /\ \/ Ends(r) /\ UNCHANGED crashed
       \/ r = "none" /\ Encodes /\ ~dev.up
              /\ crashed' = TRUE /\ UNCHANGED <<job, request>>
       \/ r = "none" /\ Asks /\ UNCHANGED <<job, crashed>>
    /\ UNCHANGED dev

(* finished() of a request in line: it was served, refused, timed out, or  *)
(* aborted because the session stopped (but see RequestDropped).           *)
(* Uploading the region data is the last thing its operation does.         *)
TimerAfterAnswer == job.timer \/ job.name = "startRecoveryMode"
OnAnswer(r) ==
    /\ request = "sent"
    /\ \/ Ends(r) /\ (r = "failed" \/ Encodes) /\ UNCHANGED dev
       \/ /\ ~Encodes
          /\ request' = "none"
          /\ GoesOn(r, [job EXCEPT !.timer = TimerAfterAnswer,
                                   !.next = IF job.name = "startUpdater" THEN @ + 1 ELSE @])
          /\ dev' = [dev EXCEPT !.resetting =
                        @ \/ (dev.online /\ (job.name \in ResetJobs \/ job.at = "rebooting"))]
    /\ UNCHANGED crashed

(* The timer.  A boot job takes a device that is online for functional.    *)
AssumesFunctional ==
    /\ dev.online
    /\ job.name \in (BootJobs \ {"exitRecoveryMode"}) \cup {"downloadWirelessStack"}

OnOperationTimeout(r) ==
    /\ job.timer
    /\ IF AssumesFunctional
       THEN GoesOn(r, [job EXCEPT !.timer = FALSE, !.next = @ + 1]) /\ UNCHANGED request
       ELSE Ends(r) /\ r = "failed"
    /\ UNCHANGED <<dev, crashed>>

-----------------------------------------------------------------------------
(* The device *)

Watches ==
    \/ job.name \in RecoveryJobs /\ job.at # "queued"
    \/ job.at = "away"

Leave ==
    /\ dev.online
    /\ dev' = [dev EXCEPT !.online = FALSE, !.resetting = FALSE, !.up = FALSE]
    /\ job' = [job EXCEPT !.timer = @ \/ Watches]
    /\ UNCHANGED <<request, crashed>>

(* A device whose option bytes say so comes back in recovery mode.  Any    *)
(* other may too: it was told to, a key is held, or its firmware is gone.  *)
(* There is no session in recovery mode, and its start may fail.           *)
Return ==
    /\ ~dev.online /\ job.next < MaxPosted
    /\ \E dfu, up \in BOOLEAN :
          /\ dev.boot = "dfu" => dfu
          /\ up => ~dfu
          /\ dev' = [dev EXCEPT !.online = TRUE, !.dfu = dfu, !.up = up]
    /\ job' = IF Watches
              THEN [job EXCEPT !.next = @ + 1, !.timer = @ /\ job.name \notin RecoveryJobs]
              ELSE job
    /\ request' = IF request = "queued" /\ dev'.up THEN "sent" ELSE request
    /\ UNCHANGED crashed

(* The session stops, for its port has failed.                             *)
SessionStops ==
    /\ dev.up
    /\ dev' = [dev EXCEPT !.up = FALSE]
    /\ UNCHANGED <<job, request, crashed>>

(* The request was in line behind another client's, and that one failed or *)
(* was aborted: it is deleted, and nobody is told.                         *)
RequestDropped ==
    /\ request = "sent" /\ request' = "lost"
    /\ UNCHANGED <<job, dev, crashed>>

JobStep(r) ==
    \/ StartJob(r)
    \/ FirstStep(r)
    \/ LaterStep(r)
    \/ TransferEnds(r)
    \/ TalksOn(r)
    \/ OnAnswer(r)
    \/ OnOperationTimeout(r)

=============================================================================
