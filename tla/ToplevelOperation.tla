--------------------------- MODULE ToplevelOperation ---------------------------
(***************************************************************************)
(* The toplevel operations (src/backend/flipperzero/toplevel): what the    *)
(* user asks of a device, done as a row of steps.  A step hands a job to   *)
(* the utility or the recovery interface (SubOperation), waits for a       *)
(* helper or a delay, or passes at once; its end posts nextStateLogic().   *)
(*                                                                         *)
(* One operation runs, of a kind and with options chosen in Init; `pos' is *)
(* its m_operationState as a position in the row of its steps.             *)
(***************************************************************************)
EXTENDS SubOperation, Sequences

VARIABLES
    op,         \* the operation and what it was constructed with; never changes
    pos,        \* 0 for Ready, or the position of the step it is in
    posted,     \* nextStateLogic() calls posted by advanceOperationState()
    aside,      \* what the operation itself waits for
    result,     \* finish() and finishWithError()
    done        \* history: the jobs that have ended without an error

topVars == <<op, pos, posted, aside, result, done>>
vars == <<jobVars, topVars>>

Kinds == {"fullUpdate", "legacyUpdate", "fullRepair", "firmwareInstall", "core2Update",
          "settingsBackup", "settingsRestore", "factoryReset"}

(* isLocal: the update comes from a file.  radio: the firmware brings a    *)
(* wireless stack.  skipBackup: m_skipBackup.                              *)
Ops ==
    [kind : {"fullUpdate"}, isLocal : BOOLEAN]
    \cup [kind : {"legacyUpdate"}, radio : BOOLEAN, skipBackup : BOOLEAN]
    \cup [kind : {"firmwareInstall"}, skipBackup : BOOLEAN]
    \cup [kind : Kinds \ {"fullUpdate", "legacyUpdate", "firmwareInstall"}]

(* The states of each, in the order in which nextStateLogic() takes them.  *)
FullUpdateSteps(isLocal) ==
    <<"ProvisioninigRegion", "CheckingStorage",
      IF isLocal THEN "PreparingLocalUpdate" ELSE "FetchingUpdate",
      "ExtractingUpdate", "ReadingUpdateFiles", "PreparingRemoteUpdate",
      "VerifyingExistingFiles", "UploadingUpdateFiles", "WaitingForUpdate">>
LegacyUpdateSteps(radio) ==
    IF radio
    THEN <<"FetchingFirmware", "SavingBackup", "StartingRecovery", "SettingBootMode",
           "DownloadingRadioFirmware", "DownloadingFirmware", "CorrectingOptionBytes",
           "DownloadingAssets", "ProvisioningRegion", "RestoringBackup", "RestartingDevice">>
    ELSE <<"FetchingFirmware", "SavingBackup", "StartingRecovery",
           "DownloadingRadioFirmware", "DownloadingFirmware", "ExitingRecovery",
           "DownloadingAssets", "ProvisioningRegion", "RestoringBackup", "RestartingDevice">>
FullRepairSteps ==
    <<"FetchingFirmware", "SettingBootMode", "DownloadingRadioFirmware",
      "DownloadingFirmware", "CorrectingOptionBytes", "DownloadingAssets",
      "ProvisioningRegion", "RestartingDevice">>
FirmwareInstallSteps ==
    <<"SavingBackup", "StartingRecovery", "InstallingFirmware", "ExitingRecovery",
      "RestoringBackup", "RestartingDevice">>
Core2UpdateSteps ==
    <<"StartingRecovery", "SettingRecoveryBootMode", "UpdatingWirelessStack",
      "SettingOSBootMode">>
SettingsBackupSteps == <<"SavingBackup", "Waiting">>
SettingsRestoreSteps == <<"RestoringBackup", "Waiting", "RestartingDevice">>
FactoryResetSteps == <<"ResettingDevice", "Waiting">>

StepsOf(o) ==
    CASE o.kind = "fullUpdate" -> FullUpdateSteps(o.isLocal)
      [] o.kind = "legacyUpdate" -> LegacyUpdateSteps(o.radio)
      [] o.kind = "fullRepair" -> FullRepairSteps
      [] o.kind = "firmwareInstall" -> FirmwareInstallSteps
      [] o.kind = "core2Update" -> Core2UpdateSteps
      [] o.kind = "settingsBackup" -> SettingsBackupSteps
      [] o.kind = "settingsRestore" -> SettingsRestoreSteps
      [] o.kind = "factoryReset" -> FactoryResetSteps

(* The job a step hands over, and what the operation waits for itself. *)
JobFor(s) ==
    CASE s \in {"ProvisioninigRegion", "ProvisioningRegion"} -> "provisionRegionData"
      [] s = "CheckingStorage" -> "refreshStorageInfo"
      [] s = "PreparingRemoteUpdate" -> "createPath"
      [] s = "VerifyingExistingFiles" -> "verifyChecksum"
      [] s = "UploadingUpdateFiles" -> "uploadFiles"
      [] s = "WaitingForUpdate" -> "startUpdater"
      [] s = "SavingBackup" -> "backupInternalStorage"
      [] s = "RestoringBackup" -> "restoreInternalStorage"
      [] s = "DownloadingAssets" -> "downloadAssets"
      [] s = "StartingRecovery" -> "startRecoveryMode"
      [] s = "RestartingDevice" -> "restartDevice"
      [] s = "ResettingDevice" -> "factoryReset"
      [] s \in {"SettingBootMode", "SettingRecoveryBootMode"} -> "setRecoveryBootMode"
      [] s = "SettingOSBootMode" -> "setOSBootMode"
      [] s \in {"DownloadingRadioFirmware", "UpdatingWirelessStack"} -> "downloadWirelessStack"
      [] s \in {"DownloadingFirmware", "InstallingFirmware"} -> "downloadFirmware"
      [] s = "CorrectingOptionBytes" -> "fixOptionBytes"
      [] s = "ExitingRecovery" -> "exitRecoveryMode"
      [] OTHER -> "none"

AsideOf(s) ==
    CASE s \in {"FetchingFirmware", "FetchingUpdate", "ExtractingUpdate"} -> "helper"
      [] s = "Waiting" -> "delay"
      [] OTHER -> "none"

Step == IF pos = 0 THEN "Ready" ELSE StepsOf(op)[pos]

TopTypeOK ==
    /\ op \in Ops
    /\ pos \in 0 .. Len(StepsOf(op))
    /\ posted \in Nat
    /\ aside \in {"none", "helper", "delay"}
    /\ result \in {"none", "ok", "error"}
    /\ done \subseteq JobNames
TypeOK == JobTypeOK /\ TopTypeOK

(* The application offers a repair for a device in recovery mode only, and *)
(* what works through RPC for the others.  start() posts the first step.   *)
Init ==
    /\ op \in Ops
    /\ dev \in [online : {TRUE}, dfu : BOOLEAN, boot : {"os", "dfu"}, resetting : {FALSE}, up : BOOLEAN]
    /\ dev.boot = "dfu" => dev.dfu
    /\ dev.up => ~dev.dfu
    /\ dev.dfu => op.kind \in {"fullRepair", "firmwareInstall", "core2Update"}
    /\ op.kind = "fullRepair" => dev.dfu
    /\ op.kind = "firmwareInstall" => op.skipBackup = dev.dfu
    /\ job = NoJob /\ request = "none" /\ crashed = FALSE
    /\ pos = 0 /\ posted = 1 /\ aside = "none" /\ result = "none" /\ done = {}

-----------------------------------------------------------------------------

Becomes(p, n, r) == pos' = p /\ posted' = n /\ result' = r
Hands(next) == job' = next /\ UNCHANGED aside
Waits(for) == aside' = for /\ UNCHANGED job

(* Steps that post the next one at once.                                   *)
PassesEveryBackup(s) ==                                                \* mutant
    s \in {"PreparingLocalUpdate", "SavingBackup", "RestoringBackup", "DownloadingRadioFirmware"}
Passes(s) ==
    \/ s = "PreparingLocalUpdate"
    \/ op.kind = "legacyUpdate" /\ op.skipBackup /\ s \in {"SavingBackup", "RestoringBackup"}
    \/ op.kind = "legacyUpdate" /\ ~op.radio /\ s = "DownloadingRadioFirmware"
    \/ op.kind = "fullRepair" /\ dev.dfu /\ s = "DownloadingAssets"

(* Steps that pass or not by data the model leaves out: the device has its *)
(* assets already; the update directory could be read.                     *)
MayPass(s) ==
    \/ op.kind = "legacyUpdate" /\ op.skipBackup /\ s = "RestartingDevice"
    \/ s = "ReadingUpdateFiles"
MayFail(s) == s \in {"FetchingUpdate", "ReadingUpdateFiles"}

(* A step that hands over a job posts nothing. *)
AdvancesToo == posted                                                  \* mutant
AfterHanding == posted - 1

Enter(p) ==
    LET s == StepsOf(op)[p]
        skips == op.kind = "firmwareInstall" /\ op.skipBackup
    IN \/ (Passes(s) \/ MayPass(s))
          /\ Becomes(p, posted, result) /\ UNCHANGED <<job, aside>>
       \/ skips /\ s = "SavingBackup"
          /\ Becomes(p + 1, posted, result) /\ UNCHANGED <<job, aside>>
       \/ skips /\ s = "RestoringBackup"
          /\ Becomes(p, posted - 1, "ok") /\ UNCHANGED <<job, aside>>
       \/ MayFail(s)
          /\ Becomes(p, posted - 1, "error") /\ UNCHANGED <<job, aside>>
       \/ AsideOf(s) # "none"
          /\ Becomes(p, posted - 1, result) /\ Waits(AsideOf(s))
       \/ JobFor(s) # "none" /\ ~Passes(s)
          /\ ~(skips /\ s \in {"SavingBackup", "RestoringBackup"})
          /\ Becomes(p, AfterHanding, result) /\ Hands(QueuedJob(JobFor(s)))

NextStateLogic ==
    /\ posted > 0 /\ result = "none"
    /\ IF pos < Len(StepsOf(op))
       THEN Enter(pos + 1)
       ELSE Becomes(pos, posted - 1, "ok") /\ UNCHANGED <<job, aside>>
    /\ UNCHANGED <<op, request, dev, crashed, done>>

(* The helper that fetches or unpacks files ends, or the delay is over.    *)
AsideEnds(failed) ==
    /\ aside # "none" /\ result = "none"
    /\ aside = "delay" => ~failed
    /\ aside' = "none"
    /\ IF failed THEN Becomes(pos, posted, "error") ELSE Becomes(pos, posted + 1, result)
    /\ UNCHANGED <<jobVars, op, done>>

(* A job ends, and with it its step.  The radio may fail, and so may the   *)
(* region of an update.  Without a path there is nothing to verify, and    *)
(* without a difference nothing to upload.                                 *)
ToleratesAll == TRUE                                                   \* mutant
Tolerates ==
    \/ Step = "ProvisioninigRegion"
    \/ Step = "DownloadingRadioFirmware"
SkipsOne == Step \in {"PreparingRemoteUpdate", "VerifyingExistingFiles"}

OnSubOperation(r) ==
    \/ r = "failed" /\ ~Tolerates /\ Becomes(pos, posted, "error")
    \/ r = "ok" /\ Step = "CheckingStorage" /\ Becomes(pos, posted, "error")
    \/ r = "ok" /\ SkipsOne /\ Becomes(pos + 1, posted + 1, result)
    \/ (r = "ok" \/ Tolerates) /\ Becomes(pos, posted + 1, result)

SubOperationStep ==
    \E r \in {"none", "ok", "failed"} :
        /\ JobStep(r)
        /\ IF r = "none"
           THEN UNCHANGED <<pos, posted, result, done>>
           ELSE /\ OnSubOperation(r)
                /\ done' = IF r = "ok" THEN done \cup {job.name} ELSE done
        /\ UNCHANGED <<op, aside>>

Program ==
    /\ ~crashed
    /\ \/ NextStateLogic
       \/ \E failed \in BOOLEAN : AsideEnds(failed)
       \/ SubOperationStep

Environment == (Leave \/ Return \/ SessionStops \/ RequestDropped) /\ UNCHANGED topVars

Next == Program \/ Environment
Spec == Init /\ [][Next]_vars

(* Timers expire and posted steps are run; fetching, unpacking and          *)
(* transferring end; a job has finitely many requests; one in line ends, if *)
(* it is not dropped: the operation that runs has a timer, which every part *)
(* of an answer starts again, and an answer has finitely many parts.  A     *)
(* device that has been told to reset itself does.  It need not come back,  *)
(* nor its session.                                                         *)
JobEnds == ~crashed /\ job # NoJob /\ SubOperationStep /\ job' = NoJob
DeviceResets == dev.resetting /\ Leave /\ UNCHANGED topVars
FairSpec == Spec /\ WF_vars(Program) /\ SF_vars(JobEnds) /\ WF_vars(DeviceResets)

-----------------------------------------------------------------------------

(* Until the operation ends it waits for exactly one thing: a step it has   *)
(* posted, a helper or a delay, or a job.  With none of them it would never *)
(* end; with two, a step would be taken while the job of the last one is    *)
(* still at the device.  After the end nothing of it is left to happen.     *)
Pending == posted + (IF aside = "none" THEN 0 ELSE 1) + (IF job = NoJob THEN 0 ELSE 1)
OneThingPending == Pending = IF result = "none" THEN 1 ELSE 0

(* The firmware upgrade service of the radio reboots the device at its own  *)
(* discretion.  It is only started when the option bytes make the device    *)
(* come back in recovery mode, whatever failed or was skipped before.       *)
StackOnRecoveryBoot ==
    job.name = "downloadWirelessStack" /\ job.at = "working" => dev.boot = "dfu"

(* An operation that has changed the option bytes, or that is there to      *)
(* repair them, does not report success with a device that would boot into  *)
(* recovery mode again, on whatever path it got there.                      *)
SuccessLeavesOSBoot ==
    result = "ok" /\ op.kind # "firmwareInstall" => dev.boot = "os"

(* Both: the option bytes are right where a reboot would tell.              *)
BootIsRight == StackOnRecoveryBoot /\ SuccessLeavesOSBoot

(* Settings survive the firmware: it is not flashed before they are saved,  *)
(* and success is not reported before they are restored, except where the   *)
(* backup is skipped, and then it is not attempted at all.                  *)
KeepsSettings == op.kind \in {"legacyUpdate", "firmwareInstall"}
Flashed == job.name = "downloadFirmware" \/ "downloadFirmware" \in done
SettingsSurvive ==
    KeepsSettings =>
        /\ Flashed /\ ~op.skipBackup => "backupInternalStorage" \in done
        /\ result = "ok" /\ ~op.skipBackup => "restoreInternalStorage" \in done
        /\ op.skipBackup => {"backupInternalStorage", "restoreInternalStorage"} \cap done = {}


=============================================================================
