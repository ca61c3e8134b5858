---------------------------- MODULE FirmwareUpdates ----------------------------
(***************************************************************************)
(* How the command line tool updates a device (src/cli/cli.cpp): it waits  *)
(* for a device and for the directory of updates (UpdateRegistry), begins  *)
(* the operation (AbstractTopLevelHelper, FirmwareHelper), and begins it   *)
(* again as often as it was asked to.                                      *)
(*                                                                         *)
(* The directory and the files come through RemoteFileFetcher.  Checks for *)
(* updates may overlap: one is made every ten minutes, one by each helper. *)
(* A slot that changes a state runs the slots that are connected to it, so *)
(* the steps are operators on the whole state, a record.  How a device     *)
(* becomes ready, and what the operations do, is in other modules.         *)
(***************************************************************************)
EXTENDS Naturals, FiniteSets

CONSTANTS
    MaxRepeat,      \* bound: the largest number given with -n
    MaxChecks       \* bound: the checks under way when the timer makes one more

ASSUME BoundsAreNumbers == MaxRepeat \in Nat \ {0} /\ MaxChecks \in Nat \ {0}

VARIABLE app

vars == <<app>>

NoHelper == [at |-> "none", listens |-> FALSE, posted |-> FALSE]
NoWork == [at |-> "none", posted |-> FALSE, getting |-> FALSE, files |-> {}]

(* beginDefaultAction(), or beginBackup() ... beginCore2FUS() with their file *)
PendingOperations == {"default", "other"}

(* processArguments() and processRepeatNumberOption(); the registry makes a  *)
(* check as it is constructed.                                               *)
Init ==
    \E pending \in PendingOperations, repeat \in 1..MaxRepeat :
        app = [registry |-> "Checking", channels |-> "none", line |-> 1,
               backend |-> "WaitingForDevices", device |-> "none", recovery |-> FALSE, persistent |-> FALSE,
               helper |-> NoHelper, work |-> NoWork, dying |-> FALSE,
               pending |-> pending, repeat |-> repeat, left |-> repeat, listens |-> FALSE, exit |-> "no",
               done |-> 0,              \* history: operations that ended well
               interrupted |-> FALSE,   \* history: the device was taken from an operation
               faulted |-> FALSE]       \* latestVersion() of a channel that is not there, which is undefined

-----------------------------------------------------------------------------
(* Cli and the backend, in the slots of one another.                         *)

Exits(s, code) == [s EXCEPT !.exit = code]

(* latestVersion() is the first of the versions of the channel chosen.       *)
ReadsVersion(s) == IF s.channels = "chosen" THEN s ELSE [s EXCEPT !.faulted = TRUE]

(* The constructors of helpers and operations keep the device in the list.   *)
LeavesAsItIs(s) == s                                                    \* mutant
MakesPersistent(s) == [s EXCEPT !.persistent = TRUE]

StartsWork(s, at) == [MakesPersistent(s) EXCEPT !.work = [NoWork EXCEPT !.at = at, !.posted = at = "Ready"]]

(* mainAction(), or an operation on a file                                   *)
StartPendingOperation(s) ==
    CASE s.left = 0 -> Exits(s, "done")
      [] s.left > 0 /\ s.pending = "default" ->
            [MakesPersistent(s) EXCEPT !.left = @ - 1, !.backend = "Busy",
                                       !.helper = [NoHelper EXCEPT !.at = "Ready", !.posted = TRUE]]
      [] OTHER -> [StartsWork(s, "operation") EXCEPT !.left = @ - 1, !.backend = "Busy"]

(* onBackendStateChanged()                                                   *)
OnReady(s) ==
    LET r == [s EXCEPT !.backend = "Ready"] IN
    CASE s.pending # "default" -> StartPendingOperation(r)
      [] s.pending = "default" /\ s.registry = "ErrorOccured" -> Exits(r, "error")
      [] s.pending = "default" /\ s.registry = "Ready" -> StartPendingOperation(ReadsVersion(r))
      [] OTHER -> [r EXCEPT !.listens = TRUE]

OnError(s) == Exits([s EXCEPT !.backend = "ErrorOccured"], "error")

OnWaitingForDevices(s) ==
    IF s.backend = "WaitingForDevices" THEN s
    ELSE Exits([s EXCEPT !.backend = "WaitingForDevices"], "disconnected")

(* finalizeOperation() deletes the device that is offline, or is ready again.*)
OnFinished(s) ==
    LET r == [s EXCEPT !.backend = "Finished"] IN
    IF s.device = "offline" THEN OnWaitingForDevices([r EXCEPT !.device = "none"]) ELSE OnReady(r)

(* onUpdateStateChanged()                                                    *)
OnUpdateStateChanged(s) ==
    CASE s.listens /\ s.registry = "ErrorOccured" -> Exits(s, "error")
      [] s.listens /\ s.registry = "Ready" -> StartPendingOperation(ReadsVersion([s EXCEPT !.listens = FALSE]))
      [] OTHER -> s

(* operationFinished() of the device: the helper is done, an error ends the  *)
(* program, and success may begin the next operation at once.                *)
OnDeviceOperationFinished(s, failed) ==
    LET r == [s EXCEPT !.helper = NoHelper] IN
    IF failed THEN OnError(r) ELSE OnFinished(r)

-----------------------------------------------------------------------------
(* UpdateRegistry and the helper that listens to it                          *)

(* onUpdateRegistryStateChanged()                                            *)
HelperTold(s) ==
    CASE s.helper.listens /\ s.registry = "ErrorOccured" -> OnDeviceOperationFinished(s, TRUE)
      [] s.helper.listens /\ s.registry = "Ready" ->
            IF s.device = "online" THEN [s EXCEPT !.helper.listens = FALSE, !.helper.posted = TRUE]
            ELSE OnDeviceOperationFinished(s, TRUE)
      [] OTHER -> s

SetState(s, state) ==
    IF s.registry = state THEN s ELSE HelperTold(OnUpdateStateChanged([s EXCEPT !.registry = state]))

(* check(): what it had shown before does not count until the answer comes,  *)
(* which is what makes an answer a change of the state.                      *)
ShowsWhatItHad(s) == s                                                  \* mutant
ShowsChecking(s) == SetState(s, "Checking")

Check(s) ==
    LET r == ShowsChecking(s) IN
    {[r EXCEPT !.line = @ + 1], SetState(r, "ErrorOccured")}

(* A channel is read with its versions and their files, or is malformed as a *)
(* whole; fillFromJson() keeps the channels before the first malformed one.  *)
Channels == {"none", "others", "chosen"}

DirectoryFetched(s, channels) ==
    LET r == [s EXCEPT !.line = @ - 1, !.channels = channels] IN
    SetState(r, IF channels = "none" THEN "ErrorOccured" ELSE "Ready")
DirectoryFailed(s) == SetState([s EXCEPT !.line = @ - 1], "ErrorOccured")

Runs == app.exit = "no" /\ ~app.faulted

CheckTimer == Runs /\ app.line < MaxChecks /\ app' \in Check(app)

DirectoryReply ==
    /\ Runs /\ app.line > 0
    /\ \/ app' = DirectoryFailed(app)
       \/ \E channels \in Channels : app' = DirectoryFetched(app, channels)

(* No time limit is set for a transfer: it may be one that never ends.       *)
DirectoryStalls == Runs /\ app.line > 0 /\ app' = [app EXCEPT !.line = @ - 1]

-----------------------------------------------------------------------------
(* nextStateLogic() of the helper; a repair begins with the files it needs.  *)

CheckForUpdates ==
    /\ Runs /\ app.helper.posted /\ app.helper.at = "Ready"
    /\ app' \in Check([app EXCEPT !.helper = [at |-> "CheckingForUpdates", listens |-> TRUE, posted |-> FALSE]])

RunCustomOperation ==
    /\ Runs /\ app.helper.posted /\ app.helper.at = "CheckingForUpdates"
    /\ LET s == ReadsVersion([app EXCEPT !.helper.at = "RunningCustomOperation", !.helper.posted = FALSE]) IN
       app' = StartsWork(s, IF app.recovery THEN "Ready" ELSE "operation")

(* FirmwareHelper: a file is fetched, or made of one that was fetched.       *)
NextStep ==
    [Ready |-> "FetchingFirmware", FetchingFirmware |-> "FetchingCore2Firmware",
     FetchingCore2Firmware |-> "PreparingRadioFirmware", PreparingRadioFirmware |-> "FetchingScripts",
     FetchingScripts |-> "PreparingOptionBytes", PreparingOptionBytes |-> "FetchingAssets",
     FetchingAssets |-> "operation"]
Fetches == {"FetchingFirmware", "FetchingCore2Firmware", "FetchingScripts", "FetchingAssets"}
FirmwareFiles == DOMAIN NextStep \ {"Ready"}

(* The operation ends; it is deleted with deleteLater().                     *)
Ends(s, failed) ==
    OnDeviceOperationFinished([s EXCEPT !.work = NoWork, !.dying = TRUE, !.done = IF failed THEN @ ELSE @ + 1], failed)

FirmwareHelperStep ==
    /\ Runs /\ app.work.posted
    /\ LET at == NextStep[app.work.at]
           s == [app EXCEPT !.work.at = at, !.work.posted = FALSE] IN
       \/ app' = [s EXCEPT !.work.getting = at \in FirmwareFiles]
       \/ at \in FirmwareFiles /\ app' = Ends(s, TRUE)

(* RemoteFileFetcher: finished() comes with a file, or with an error when it *)
(* was cut off or its checksum is wrong, but not for a file that cannot be   *)
(* read again.  A checksum that is empty is not looked at.                   *)
AnyFile(is, checksum) == IF is = "unreadable" /\ checksum THEN "lost" ELSE "taken"      \* mutant
Fetched(is, checksum) ==
    CASE is = "cut off" \/ (is = "corrupt" /\ checksum) -> "error"
      [] is = "unreadable" /\ checksum -> "lost"
      [] OTHER -> "taken"

FileFetched ==
    /\ Runs /\ app.work.getting /\ app.work.at \in Fetches
    /\ \E is \in {"whole", "cut off", "corrupt", "unreadable"}, checksum \in BOOLEAN :
          LET s == [app EXCEPT !.work.getting = FALSE]
              good == is = "whole" \/ ~checksum IN
          CASE Fetched(is, checksum) = "error" -> app' = Ends(s, TRUE)
            [] Fetched(is, checksum) = "lost" -> app' = s
            [] OTHER -> app' = [s EXCEPT !.work.posted = TRUE,
                                         !.work.files = IF good THEN @ \cup {s.work.at} ELSE @]

FileStalls ==
    /\ Runs /\ app.work.getting /\ app.work.at \in Fetches
    /\ app' = [app EXCEPT !.work.getting = FALSE]

Prepared(at, s) == [s EXCEPT !.work.getting = FALSE, !.work.posted = TRUE, !.work.files = @ \cup {at}]

(* RadioManifestHelper uncompresses the archive and reads its manifest, and  *)
(* ScriptsHelper uncompresses the other; the file is written, or an error    *)
(* of any of these ends the operation.                                       *)
RadioFirmwarePrepared ==
    /\ Runs /\ app.work.getting /\ app.work.at = "PreparingRadioFirmware"
    /\ app' \in {Prepared("PreparingRadioFirmware", app), Ends(app, TRUE)}

OptionBytesPrepared ==
    /\ Runs /\ app.work.getting /\ app.work.at = "PreparingOptionBytes"
    /\ app' \in {Prepared("PreparingOptionBytes", app), Ends(app, TRUE)}

OperationEnds ==
    /\ Runs /\ app.work.at = "operation" /\ ~app.work.posted
    /\ \E failed \in BOOLEAN : app' = Ends(app, failed)

(* A request of the operation waits for a session, or was dropped with the   *)
(* line it was in: the operation goes on when that is over, if it ever is.   *)
OperationWaits ==
    /\ Runs /\ app.work.at = "operation" /\ ~app.work.posted
    /\ app' = [app EXCEPT !.work.at = "waiting"]
OperationGoesOn == Runs /\ app.work.at = "waiting" /\ app' = [app EXCEPT !.work.at = "operation"]

(* ~AbstractTopLevelOperation()                                              *)
DeleteOperation == Runs /\ app.dying /\ app' = [app EXCEPT !.dying = FALSE, !.persistent = FALSE]

-----------------------------------------------------------------------------
(* The device                                                                *)

DeviceIsReady ==
    /\ Runs /\ app.device = "none" /\ app.backend = "WaitingForDevices"
    /\ \E recovery \in BOOLEAN :
          app' = OnReady([app EXCEPT !.device = "online", !.recovery = recovery, !.persistent = FALSE])

(* It is unplugged, or restarts: the registry deletes it unless it is        *)
(* persistent, and the operation with it.                                    *)
DeviceLeaves ==
    /\ Runs /\ app.device = "online"
    /\ LET gone == [app EXCEPT !.device = "none"] IN
       CASE app.persistent -> app' = [app EXCEPT !.device = "offline"]
         [] ~app.persistent /\ app.backend = "Busy" -> app' = OnError([gone EXCEPT !.interrupted = TRUE])
         [] OTHER -> app' = OnWaitingForDevices(gone)

DeviceReturns == Runs /\ app.device = "offline" /\ app' = [app EXCEPT !.device = "online"]

SessionError ==
    /\ Runs /\ app.device = "online" /\ (app.recovery => app.backend = "Busy")
    /\ app' = OnDeviceOperationFinished(app, TRUE)

Next ==
    \/ CheckTimer \/ DirectoryReply \/ DirectoryStalls
    \/ CheckForUpdates \/ RunCustomOperation
    \/ FirmwareHelperStep \/ FileFetched \/ FileStalls \/ RadioFirmwarePrepared \/ OptionBytesPrepared
    \/ OperationEnds \/ OperationWaits \/ OperationGoesOn \/ DeleteOperation
    \/ DeviceIsReady \/ DeviceLeaves \/ DeviceReturns \/ SessionError

(* The event loop turns; a transfer is answered or fails, unless it is one   *)
(* that stalls; an operation ends, unless it is one that waits, for a while  *)
(* or for ever.  The device and the timer do as they like.                   *)
FairSpec ==
    /\ Init /\ [][Next]_vars
    /\ WF_vars(DirectoryReply) /\ WF_vars(CheckForUpdates) /\ WF_vars(RunCustomOperation)
    /\ WF_vars(FirmwareHelperStep) /\ WF_vars(FileFetched)
    /\ WF_vars(RadioFirmwarePrepared) /\ WF_vars(OptionBytesPrepared)
    /\ WF_vars(OperationEnds) /\ WF_vars(DeleteOperation)

-----------------------------------------------------------------------------
(* Properties *)

(* Once there was a device the program exits: no check for updates, helper   *)
(* or file is waited for in vain, however the checks overlap, unless what it *)
(* waits for never comes: every transfer of the directory under way stalled, *)
(* that of the file stalled or could not be read again, which finished() is  *)
(* not emitted for, or the operation waits for a session.  Excepted is also  *)
(* a version that is not there.                                              *)
FileNeverComes == app.work.at \in FirmwareFiles /\ ~app.work.posted /\ ~app.work.getting
DirectoryNeverComes == app.registry = "Checking" /\ app.line = 0 /\ (app.listens \/ app.helper.listens)
Stuck == FileNeverComes \/ DirectoryNeverComes \/ app.work.at = "waiting"
ProgramExits == app.backend # "WaitingForDevices" ~> app.exit # "no" \/ app.faulted \/ Stuck

(* "All done": as many operations ended well as were asked for.  A repair is *)
(* begun with every file, whole unless it came without a checksum.           *)
SuccessMeansDone ==
    /\ app.exit = "done" => app.done = app.repeat
    /\ app.work.at = "operation" /\ ~app.work.posted /\ app.recovery /\ app.pending = "default" =>
          FirmwareFiles \subseteq app.work.files

(* A device that restarts is not taken from the first operation on it.  The  *)
(* next one is begun before the last is deleted, which takes the persistence *)
(* of its device away.                                                       *)
FirstIsNotInterrupted == app.interrupted => app.done > 0
=============================================================================
