-------------------------- MODULE ApplicationBackend --------------------------
(***************************************************************************)
(* The backend of the application (src/backend/applicationbackend.cpp)     *)
(* over the registry of devices: which device the user's operation runs    *)
(* on, and what the user is shown of it.  The toplevel operations and      *)
(* helpers (flipperzero/toplevel, flipperzero/helper) are reduced to their *)
(* beginning and their end, which may come at any time and either way.     *)
(*                                                                         *)
(* The user acts as the QML lets him: operations and the full screen       *)
(* stream begin in the state Ready, and FinishOverlay calls                *)
(* finalizeOperation().  Every step is a step of DeviceRegistry together   *)
(* with what the slots connected to its signals do to the backend.         *)
(***************************************************************************)
EXTENDS DeviceRegistry

CONSTANT MaxWork        \* bound: helpers and operations of one device

ASSUME WorkAssumption == MaxWork \in Nat

BackendStates ==
    {"WaitingForDevices", "Ready", "ScreenStreaming",
     "Busy",            \* UpdatingDevice to InstallingFUS
     "Finished", "ErrorOccured"}

VARIABLES
    backendState,       \* m_backendState
    connected,          \* how often onDeviceOperationFinished() is connected to each device
    streamWatched,      \* onScreenStreamerStateChanged() is connected to the streamer
    work,               \* the helpers that check for updates and the operations, by device
    outlived,           \* a device was deleted with one of them at work on it
    outcome,            \* history: how the last operation to end did, since one was begun or dismissed
    overlaps            \* history: the one begun last was begun with another at work

backendVars == <<backendState, connected, streamWatched, work, outlived, outcome, overlaps>>
allVars == <<vars, backendVars>>

NoWork == [checking |-> 0, operating |-> 0]
WorkOf(f) == work[f].checking + work[f].operating
AtWork(f) == WorkOf(f) > 0

KeptTypeOK ==
    /\ backendState \in BackendStates
    /\ connected \in [Listed -> Nat]
    /\ streamWatched \in BOOLEAN
    /\ work \in [Listed -> [checking : Nat, operating : Nat]]
    /\ outlived \in BOOLEAN

BackendTypeOK ==
    /\ KeptTypeOK
    /\ outcome \in {"nothing", "succeeded", "failed"}
    /\ overlaps \in BOOLEAN

BackendInit ==
    /\ Init
    /\ backendState = "WaitingForDevices"
    /\ connected = <<>>
    /\ streamWatched = FALSE
    /\ work = <<>>
    /\ outlived = FALSE
    /\ outcome = "nothing"
    /\ overlaps = FALSE

-----------------------------------------------------------------------------
(* Slots: what they do when the registry's part of the step is done *)

(* The connections and the operations of a device are deleted with it, and a *)
(* new device has none.                                                      *)
OfRemaining(of, none) ==
    [f \in DOMAIN dev' |-> IF f \in DOMAIN of THEN of[f] ELSE none]

DevicesComeAndGo ==
    /\ work' = OfRemaining(work, NoWork)
    /\ outlived' = \E f \in DOMAIN dev : f \notin DOMAIN dev' /\ AtWork(f)

ConnectedOnceMore(n) == n + 1

OnCurrentDeviceChanged ==
    LET current == CurrentDevice(devices')
        others == OfRemaining(connected, 0)
    IN \/ /\ backendState = "Busy"
          /\ backendState' = "ErrorOccured"
          /\ connected' = others
          /\ UNCHANGED streamWatched
       \/ /\ backendState # "Busy" /\ current = NoDevice
          /\ backendState' = "WaitingForDevices"
          /\ connected' = others
          /\ UNCHANGED streamWatched
       \/ /\ backendState # "Busy" /\ current # NoDevice
          /\ connected' = [others EXCEPT ![current] = ConnectedOnceMore(@)]
          /\ IF dev'[current].info.dfu
             THEN backendState' = "Ready" /\ UNCHANGED streamWatched
             ELSE streamWatched' = TRUE /\ UNCHANGED backendState

Counts(f, w) == work' = [work EXCEPT ![f] = w]

(* A device emits operationFinished().  Its helpers finish, and when it is   *)
(* connected the state of the current device is shown.                       *)
ResultShown(list, devs) ==
    IF list # <<>> /\ ~devs[Head(list)].error THEN "Finished" ELSE "ErrorOccured"

OnOperationFinished(f, ended) ==
    /\ backendState' = IF connected[f] > 0 THEN ResultShown(devices', dev') ELSE backendState
    /\ Counts(f, [checking |-> 0, operating |-> work[f].operating - ended])
    /\ UNCHANGED <<connected, streamWatched, outlived>>

(* errorOccured() of the registry comes when the error is another than       *)
(* before.                                                                   *)
OnDeviceRegistryErrorOccured(another) ==
    backendState' = IF another /\ backendState = "WaitingForDevices"
                    THEN "ErrorOccured" ELSE backendState

-----------------------------------------------------------------------------
(* The registry and its devices *)

DeviceInserted(f, dfu, complete, another) ==
    /\ InsertDevice(f, dfu, complete)
    /\ ~complete /\ ~error => another
    /\ OnDeviceRegistryErrorOccured(~complete /\ another)
    /\ UNCHANGED <<connected, streamWatched, work, outlived>>

DeviceRemoved(usb) ==
    /\ RemoveDevice(usb)
    /\ IF devices' # devices THEN OnCurrentDeviceChanged
                             ELSE UNCHANGED <<backendState, connected, streamWatched>>
    /\ DevicesComeAndGo

DeviceProcessed(query, success, another) ==
    /\ ProcessDevice(query, success)
    /\ ~success /\ ~error => another
    /\ IF devices' # devices /\ Len(devices') = 1
       THEN OnCurrentDeviceChanged
       ELSE /\ OnDeviceRegistryErrorOccured(~success /\ another)
            /\ connected' = OfRemaining(connected, 0)
            /\ UNCHANGED streamWatched
    /\ DevicesComeAndGo

(* A session that reports an error is the end of an operation, whether there *)
(* was one or not.                                                           *)
ReportsAnyStatus(f, isError) == OnOperationFinished(f, 0)              \* mutant
SessionReports(f, isError) ==
    IF isError THEN OnOperationFinished(f, 0)
               ELSE UNCHANGED <<backendState, connected, streamWatched, work, outlived>>

SessionStep(f) ==
    \/ \E pluginLoads \in BOOLEAN :
          /\ StartSession(f, pluginLoads)
          /\ SessionReports(f, dev[f].session = "Stopped" /\ ~pluginLoads)
    \/ \E success \in BOOLEAN : SessionStarted(f, success) /\ SessionReports(f, ~success)
    \/ \E writeFailed, revived \in BOOLEAN :
          SessionLost(f, writeFailed, revived) /\ SessionReports(f, writeFailed)
    \/ SessionStatusChanged(f) /\ SessionReports(f, dev[f].session = "Failed")
    \/ SetStorageInfo(f) /\ SessionReports(f, FALSE)

-----------------------------------------------------------------------------
(* Operations *)

NewestDevice(list) == Last(list)                                       \* mutant
DeviceToUse(list) == Head(list)

(* createBackup() and its like begin the operation at once; mainAction(),    *)
(* beginUpdate() and beginRepair() have a helper check for updates first.    *)
LeavesDeviceAsItIs(f) == dev[f].persistent                             \* mutant
MakesPersistent(f) == TRUE

WorkAdded(w, byHelper) ==
    IF byHelper THEN [w EXCEPT !.checking = w.checking + 1]
                ELSE [w EXCEPT !.operating = w.operating + 1]

BeginOperation(byHelper) ==
    LET f == DeviceToUse(devices) IN
    /\ backendState = "Ready" /\ devices # <<>>
    /\ WorkOf(f) < MaxWork
    /\ OperationSets(f, MakesPersistent(f), byHelper /\ dev[f].error)
    /\ backendState' = "Busy"
    /\ Counts(f, WorkAdded(work[f], byHelper))
    /\ outcome' = "nothing"
    /\ overlaps' = AtWork(f)
    /\ UNCHANGED <<connected, streamWatched, outlived>>

(* The helper's onUpdateRegistryStateChanged(): it begins the operation, or  *)
(* finishes early.                                                           *)
UpdatesChecked(f, retrieved) ==
    /\ work[f].checking > 0
    /\ \/ /\ retrieved /\ dev[f].online
          /\ OperationSets(f, TRUE, FALSE)
          /\ Counts(f, [checking |-> work[f].checking - 1, operating |-> work[f].operating + 1])
          /\ UNCHANGED <<backendState, connected, streamWatched, outlived, outcome>>
       \/ /\ ~(retrieved /\ dev[f].online)
          /\ OperationSets(f, dev[f].persistent, TRUE)
          /\ OnOperationFinished(f, 0)
          /\ outcome' = "failed"
    /\ UNCHANGED overlaps

(* An operation finishes, and is deleted when that has been shown.           *)
OperationEnds(f, success) ==
    /\ work[f].operating > 0
    /\ OperationSets(f, FALSE, dev[f].error \/ ~success)
    /\ OnOperationFinished(f, 1)
    /\ outcome' = IF success THEN "succeeded" ELSE "failed"
    /\ UNCHANGED overlaps

-----------------------------------------------------------------------------
(* The user, the streamer and the file manager *)

AlwaysReady(list) == "Ready"                                           \* mutant
StateAfterwards(list) == IF list = <<>> THEN "WaitingForDevices" ELSE "Ready"

FinalizeOperation ==
    /\ backendState \in {"Finished", "ErrorOccured"}
    /\ RemoveOfflineDevices
    /\ backendState' = StateAfterwards(devices')
    /\ connected' = OfRemaining(connected, 0)
    /\ DevicesComeAndGo
    /\ outcome' = "nothing"
    /\ UNCHANGED <<streamWatched, overlaps>>

FullScreenStreaming ==
    /\ \/ backendState = "Ready" /\ backendState' = "ScreenStreaming"
       \/ backendState = "ScreenStreaming" /\ backendState' = "Ready"
    /\ UNCHANGED <<vars, connected, streamWatched, work, outlived>>

(* The streamer has been started on the current device, or unpaused.         *)
OnScreenStreamerStateChanged ==
    /\ streamWatched
    /\ devices # <<>> /\ dev[Head(devices)].session = "Up"
    /\ streamWatched' = FALSE
    /\ backendState' = "Ready"
    /\ UNCHANGED <<vars, connected, work, outlived>>

(* An operation of the file manager has failed, one of its page or of the    *)
(* refresh() in finalizeOperation().                                         *)
OnFileManagerErrorOccured ==
    /\ backendState # "WaitingForDevices" /\ devices # <<>>
    /\ backendState' = "ErrorOccured"
    /\ UNCHANGED <<vars, connected, streamWatched, work, outlived>>

-----------------------------------------------------------------------------

RegistryStep ==
    \/ \E f \in Flipper, dfu, complete, another \in BOOLEAN : DeviceInserted(f, dfu, complete, another)
    \/ \E usb \in Connections : DeviceRemoved(usb)
    \/ \E query \in helpers, success, another \in BOOLEAN : DeviceProcessed(query, success, another)

OperationStep ==
    \/ \E byHelper \in BOOLEAN : BeginOperation(byHelper)
    \/ \E f \in DOMAIN dev, done \in BOOLEAN : UpdatesChecked(f, done) \/ OperationEnds(f, done)

BackendNext ==
    /\ fault = "none" /\ ~outlived
    /\ \/ OperationStep
       \/ FinalizeOperation
       \/ /\ UNCHANGED <<outcome, overlaps>>
          /\ \/ RegistryStep
             \/ \E f \in DOMAIN dev : SessionStep(f)
             \/ FullScreenStreaming
             \/ OnScreenStreamerStateChanged
             \/ OnFileManagerErrorOccured

BackendSpec == BackendInit /\ [][BackendNext]_allVars

-----------------------------------------------------------------------------

(* Wherever the user can act on a device there is one: mainAction() and its  *)
(* like use device() without looking.                                        *)
DeviceIsThere ==
    backendState \in {"Ready", "ScreenStreaming", "Busy"} => devices # <<>>

(* The end of an operation on the current device is heard of, in whichever   *)
(* way the device came to be the current one.                                *)
CurrentIsConnected ==
    devices # <<>> => connected[CurrentDevice(devices)] > 0

(* The user's actions, and what becomes of them, reach the same device.      *)
UserIsHeard == DeviceIsThere /\ CurrentIsConnected

(* The user is never left with an operation that is in progress while        *)
(* nothing is at work on the current device; and that device is kept when    *)
(* it reboots, so that its end can come.                                     *)
BusyWithSomething ==
    backendState = "Busy" =>
        /\ devices # <<>>
        /\ AtWork(CurrentDevice(devices))
        /\ dev[CurrentDevice(devices)].persistent

(* Nothing is ever at work on a device other than the one that is shown.     *)
WorkIsCurrent ==
    \A f \in Listed : AtWork(f) => f = CurrentDevice(devices)

(* What is shown to be in progress is, and nothing else is.                  *)
WorkIsShown == BusyWithSomething /\ WorkIsCurrent

(* The user is told that an operation has finished only when the operation   *)
(* that ended last, since the user began one or dismissed what was shown,    *)
(* has itself succeeded: not on the word of a session, a helper or another   *)
(* device, nor because a reboot has cleared the error of one that failed.    *)
(* And nothing is at work then, except when an operation was begun behind    *)
(* one that was still at work, after an error of the session or of the file  *)
(* manager had been shown as its end: then the end of either is shown.       *)
EndIsShown ==
    backendState = "Finished" =>
        /\ outcome = "succeeded"
        /\ \A f \in Listed : AtWork(f) => overlaps

(* No device is deleted under an operation as long as it is shown to be in   *)
(* progress.                                                                 *)
BusyDeviceStays ==
    [][backendState = "Busy" => \A f \in Listed : AtWork(f) => f \in Listed']_allVars

(* A device that is unplugged or restarts is kept for its operation.         *)
DevicesStay == PersistentStays /\ BusyDeviceStays

=============================================================================
