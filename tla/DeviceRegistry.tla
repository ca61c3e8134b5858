---------------------------- MODULE DeviceRegistry ----------------------------
(***************************************************************************)
(* The registry of connected Flippers (src/backend/deviceregistry.cpp)     *)
(* with the state of each of them (flipperzero/devicestate.cpp) and what a *)
(* FlipperZero (flipperzero/flipperzero.cpp) does when it changes.         *)
(*                                                                         *)
(* Everything runs in one thread; an action is one slot with all that its  *)
(* signals trigger.  A Flipper is plugged in as a new connection each      *)
(* time, in normal or in DFU mode; the USB detector reports connections    *)
(* coming and going (win32 reports arrivals before departures, so the old  *)
(* connection of a Flipper may go after its new one has come).  The RPC    *)
(* session is reduced to what its owner can see of it: module              *)
(* ProtobufSession has the rest, among it the session that comes up again  *)
(* after it was stopped.                                                   *)
(***************************************************************************)
EXTENDS Naturals, Sequences, SequencesExt

CONSTANTS
    Flipper,            \* the names of the devices
    NoDevice,           \* no device: currentDevice() is null
    MaxConnections,     \* bound: connections made altogether
    MaxTimers           \* bound: startSession() timers of one device

ASSUME NoDeviceAssumption == NoDevice \notin Flipper
ASSUME BoundsAssumption == MaxConnections \in Nat /\ MaxTimers \in Nat

Connections == 1..MaxConnections        \* USBDeviceInfo::backendData()
UsbInfo == [usb : Connections, dfu : BOOLEAN]
Info == [name : Flipper, info : UsbInfo]
NoPort == 0
Device ==
    [info : UsbInfo, persistent : BOOLEAN, online : BOOLEAN, error : BOOLEAN,
     queue : Seq(UsbInfo),          \* DeviceState
     timers : Nat,                  \* singleShot(100, m_rpc, startSession)
     port : Connections \cup {NoPort},   \* the session's m_portInfo
     opened : Connections \cup {NoPort}, \* the port it is being started on
     session : {"Stopped", "Starting", "Up",
                "Revived",          \* up after it was stopped, without a port
                "Failed"},          \* and that with the error of a write
     refused : BOOLEAN]             \* history: the last startSession() found it in the way,
                                    \* or an operation has cleared the error it ended with

VARIABLES
    made,               \* connections made so far
    attached,           \* connections reported as plugged in, and not as unplugged
    helpers,            \* the DeviceInfoHelpers that are running, by what they query
    devices,            \* m_devices, by name
    dev,                \* the FlipperZero and DeviceState objects that exist, by name
    queryInProgress,    \* m_isQueryInProgress
    error,              \* m_error is set; it is UnknownError otherwise
    announced,          \* history: currentDevice() at the last currentDeviceChanged()
    newest,             \* history: the last information about each Flipper
    fault               \* a device in m_devices was deleted, or memory past its end was

vars == <<made, attached, helpers, devices, dev, queryInProgress, error, announced, newest, fault>>

Listed == {devices[i] : i \in DOMAIN devices}
CurrentDevice(list) == IF list = <<>> THEN NoDevice ELSE Head(list)
NoInfo == [usb |-> 0, dfu |-> FALSE]

TypeOK ==
    /\ made \in Nat
    /\ attached \subseteq Connections
    /\ helpers \subseteq Info
    /\ devices \in Seq(Flipper)
    /\ DOMAIN dev = Listed
    /\ \A f \in DOMAIN dev : dev[f] \in Device
    /\ queryInProgress \in BOOLEAN
    /\ error \in BOOLEAN
    /\ announced \in Flipper \cup {NoDevice}
    /\ newest \in [Flipper -> UsbInfo \cup {NoInfo}]
    /\ fault \in {"none", "onlineDeleted", "pastTheEnd"}

Init ==
    /\ made = 0
    /\ attached = {}
    /\ helpers = {}
    /\ devices = <<>>
    /\ dev = <<>>
    /\ queryInProgress = FALSE
    /\ error = FALSE
    /\ announced = NoDevice
    /\ newest = [f \in Flipper |-> NoInfo]
    /\ fault = "none"

-----------------------------------------------------------------------------
(* DeviceState and FlipperZero: each operator takes a device to what it is   *)
(* when the slot returns, with the slots its signals run.                    *)

(* setOnline(true)                                                          *)
GoesOnline(d) == [d EXCEPT !.online = TRUE]

(* deviceInfoChanged(): DeviceState clears the error, FlipperZero brings an  *)
(* offline device up, at once in DFU mode and with a session otherwise.      *)
LeftAsItIs(d) == d.online \/ d.session # "Stopped"                      \* mutant
IsUpAlready(d) == d.online

DeviceInfoChanged(d) ==
    LET cleared == [d EXCEPT !.error = FALSE] IN
    CASE IsUpAlready(d) -> cleared
      [] ~IsUpAlready(d) /\ d.info.dfu -> GoesOnline(cleared)
      [] OTHER -> [cleared EXCEPT !.port = d.info.usb, !.timers = @ + 1]

ComesTooEarly(d) == d.online

SetDeviceInfo(d, info) ==
    IF ComesTooEarly(d) THEN [d EXCEPT !.queue = Append(@, info)]
                        ELSE DeviceInfoChanged([d EXCEPT !.info = info])

TakeLatest(queue) == Last(queue)

(* setOnline(false), and processQueue() of the DeviceState                   *)
LeavesQueue(d) == [d EXCEPT !.online = FALSE]                         \* mutant
GoesOffline(d) ==
    LET off == [d EXCEPT !.online = FALSE] IN
    IF ~d.online \/ d.queue = <<>> THEN off
    ELSE [SetDeviceInfo(off, TakeLatest(d.queue)) EXCEPT !.queue = <<>>]

(* The constructor of FlipperZero.                                          *)
NewDevice(info) ==
    DeviceInfoChanged([info |-> info, persistent |-> FALSE, online |-> FALSE, error |-> FALSE,
                       queue |-> <<>>, timers |-> 0, port |-> NoPort, opened |-> NoPort,
                       session |-> "Stopped", refused |-> FALSE])

Update(f, d) == dev' = [dev EXCEPT ![f] = d]

-----------------------------------------------------------------------------
(* The registry *)

(* insertDevice(): a Flipper was plugged in, and a DeviceInfoHelper asks it  *)
(* who it is, unless the USB descriptors could not be read.                  *)
InsertDevice(f, dfu, complete) ==
    LET usb == made + 1 IN
    /\ fault = "none"
    /\ made < MaxConnections
    /\ made' = usb
    /\ attached' = attached \cup {usb}
    /\ IF complete
       THEN /\ helpers' = helpers \cup {[name |-> f, info |-> [usb |-> usb, dfu |-> dfu]]}
            /\ queryInProgress' = TRUE
            /\ UNCHANGED error
       ELSE /\ error' = TRUE
            /\ UNCHANGED <<helpers, queryInProgress>>
    /\ UNCHANGED <<devices, dev, announced, newest, fault>>

(* m_devices.takeAt(i)->deleteLater()                                        *)
WithoutDeviceAt(i) == [f \in DOMAIN dev \ {devices[i]} |-> dev[f]]

TakeAt(i) ==
    /\ devices' = RemoveAt(devices, i)
    /\ dev' = WithoutDeviceAt(i)

RemovesDevice(d) == ~d.persistent

AnnouncesNothing(list) == announced                                   \* mutant
Announces(list) == CurrentDevice(list)

RemoveDevice(usb) ==
    /\ fault = "none"
    /\ usb \in attached
    /\ attached' = attached \ {usb}
    /\ \/ /\ \A i \in DOMAIN devices : dev[devices[i]].info.usb # usb
          /\ UNCHANGED <<devices, dev, announced>>
       \/ \E i \in DOMAIN devices :
             /\ dev[devices[i]].info.usb = usb
             /\ IF RemovesDevice(dev[devices[i]])
                THEN /\ TakeAt(i)
                     /\ announced' = Announces(devices')
                ELSE /\ Update(devices[i], GoesOffline(dev[devices[i]]))
                     /\ UNCHANGED <<devices, announced>>
    /\ UNCHANGED <<made, helpers, queryInProgress, error, newest, fault>>

(* A DeviceInfoHelper finished.  A device that was unplugged meanwhile may   *)
(* still have answered.                                                      *)
IsListed(name) == \E i \in DOMAIN devices : devices[i] = name

ProcessDevice(query, success) ==
    /\ fault = "none"
    /\ query \in helpers
    /\ helpers' = helpers \ {query}
    /\ queryInProgress' = FALSE
    /\ error' = (error \/ ~success)
    /\ newest' = IF success THEN [newest EXCEPT ![query.name] = query.info] ELSE newest
    /\ CASE ~success -> UNCHANGED <<devices, dev, announced>>
         [] success /\ IsListed(query.name) ->
               /\ Update(query.name, SetDeviceInfo(dev[query.name], query.info))
               /\ UNCHANGED <<devices, announced>>
         [] OTHER ->
               /\ devices' = Append(devices, query.name)
               /\ dev' = [f \in DOMAIN dev \cup {query.name} |->
                              IF f = query.name THEN NewDevice(query.info) ELSE dev[f]]
               /\ announced' = IF Len(devices') = 1 THEN Announces(devices') ELSE announced
    /\ UNCHANGED <<made, attached, fault>>

(* removeOfflineDevices(), clearError() and finalizeOperation() of the device *)
(* that is current then, which ApplicationBackend calls in turn.             *)
(* std::remove_if() moves the online devices to the front and leaves the     *)
(* rest of m_devices as it was; the loop erases what is at the new end and   *)
(* deletes what the iterator points to then: the last element of the old     *)
(* list when one device was offline, and memory past the end of the list     *)
(* when there were more.  Nothing is announced.                              *)
ErrorCleared(list, devs) ==
    [f \in DOMAIN devs |->
        IF f = CurrentDevice(list) THEN [devs[f] EXCEPT !.error = FALSE] ELSE devs[f]]

RemoveOfflineDevices ==
    LET offline == {i \in DOMAIN devices : ~dev[devices[i]].online} IN
    /\ fault = "none"
    /\ CASE offline = {} -> /\ dev' = ErrorCleared(devices, dev)
                           /\ UNCHANGED <<devices, fault>>
         [] offline = {Len(devices)} ->
               /\ devices' = RemoveAt(devices, Len(devices))
               /\ dev' = ErrorCleared(devices', WithoutDeviceAt(Len(devices)))
               /\ UNCHANGED fault
         [] OTHER -> /\ fault' = IF Len(devices) \in offline THEN "pastTheEnd" ELSE "onlineDeleted"
                     /\ UNCHANGED <<devices, dev>>
    /\ error' = FALSE
    /\ UNCHANGED <<made, attached, helpers, queryInProgress, announced, newest>>

-----------------------------------------------------------------------------
(* What happens to a device *)

(* The 100 ms timer: startSession(); no plugin for the device's protocol     *)
(* ends it at once, with an error.                                           *)
StartSession(f, pluginLoads) ==
    LET d == [dev[f] EXCEPT !.timers = @ - 1] IN
    /\ fault = "none"
    /\ dev[f].timers > 0
    /\ Update(f, CASE d.session # "Stopped" -> [d EXCEPT !.refused = TRUE]
                   [] d.session = "Stopped" /\ pluginLoads ->
                         [d EXCEPT !.session = "Starting", !.opened = d.port, !.refused = FALSE]
                   [] OTHER -> [d EXCEPT !.error = TRUE, !.refused = FALSE])
    /\ UNCHANGED <<made, attached, helpers, devices, queryInProgress, error, announced, newest, fault>>

(* The SerialInitHelper finished; a session that is up brings the device     *)
(* online.                                                                   *)
SessionStarted(f, success) ==
    /\ fault = "none"
    /\ dev[f].session = "Starting"
    /\ success => dev[f].opened \in attached
    /\ Update(f, IF success THEN GoesOnline([dev[f] EXCEPT !.session = "Up", !.opened = NoPort])
                 ELSE [dev[f] EXCEPT !.session = "Stopped", !.opened = NoPort, !.error = TRUE])
    /\ UNCHANGED <<made, attached, helpers, devices, queryInProgress, error, announced, newest, fault>>

(* The session lost its port, perhaps with a write that failed.  If it had   *)
(* an operation under way it is up again, without a port, when it has looked *)
(* at its queue, and nothing ends it any more.                               *)
SessionLost(f, writeFailed, revived) ==
    LET stopped == [dev[f] EXCEPT !.session = "Stopped", !.error = @ \/ writeFailed]
        up == [stopped EXCEPT !.session = IF writeFailed THEN "Failed" ELSE "Revived"]
    IN /\ fault = "none"
       /\ dev[f].session = "Up"
       /\ Update(f, CASE ~revived -> stopped
                      [] revived /\ writeFailed -> up
                      [] OTHER -> GoesOnline(up))
       /\ UNCHANGED <<made, attached, helpers, devices, queryInProgress, error, announced, newest, fault>>

(* A session that is up goes from Idle to Running or back, and as often says *)
(* that it is up, or what its error is.                                      *)
SessionStatusChanged(f) ==
    /\ fault = "none"
    /\ dev[f].session \in {"Up", "Revived", "Failed"}
    /\ Update(f, IF dev[f].session = "Failed" THEN [dev[f] EXCEPT !.error = TRUE]
                                              ELSE GoesOnline(dev[f]))
    /\ UNCHANGED <<made, attached, helpers, devices, queryInProgress, error, announced, newest, fault>>

(* What operations do to the state of their device, in one slot: one that     *)
(* begins makes it persistent and clears the error, one that ends sets an    *)
(* error if it failed, and its deletion ends the persistence.                *)
OperationSets(f, persistent, isError) ==
    LET d == dev[f] IN
    /\ fault = "none"
    /\ Update(f, [d EXCEPT !.persistent = persistent, !.error = isError,
                           !.refused = @ \/ (d.error /\ ~isError /\ ~d.online)])
    /\ UNCHANGED <<made, attached, helpers, devices, queryInProgress, error, announced, newest, fault>>

(* StorageInfoRefreshOperation is done, late enough for the device to have   *)
(* gone offline: setStorageInfo().                                           *)
SetStorageInfo(f) ==
    /\ fault = "none"
    /\ dev[f].timers < MaxTimers
    /\ Update(f, DeviceInfoChanged(dev[f]))
    /\ UNCHANGED <<made, attached, helpers, devices, queryInProgress, error, announced, newest, fault>>

-----------------------------------------------------------------------------

Detector ==
    \/ \E f \in Flipper, dfu, complete \in BOOLEAN : InsertDevice(f, dfu, complete)
    \/ \E usb \in Connections : RemoveDevice(usb)

DeviceStep(f) ==
    \/ \E pluginLoads \in BOOLEAN : StartSession(f, pluginLoads)
    \/ \E success \in BOOLEAN : SessionStarted(f, success)
    \/ \E writeFailed, revived \in BOOLEAN : SessionLost(f, writeFailed, revived)
    \/ SessionStatusChanged(f)
    \/ \E persistent, isError \in BOOLEAN : OperationSets(f, persistent, isError)
    \/ SetStorageInfo(f)

Next ==
    \/ Detector
    \/ \E query \in helpers, success \in BOOLEAN : ProcessDevice(query, success)
    \/ RemoveOfflineDevices
    \/ \E f \in DOMAIN dev : DeviceStep(f)

Spec == Init /\ [][Next]_vars

-----------------------------------------------------------------------------

(* A Flipper has one entry in the list, however often it comes and goes, in  *)
(* whichever mode and whatever order the queries about it end in.            *)
OneObjectEach ==
    \A i, j \in DOMAIN devices : devices[i] = devices[j] => i = j

(* Whoever follows currentDeviceChanged() knows the device that is current;  *)
(* only when the last device goes offline and is removed nobody is told.     *)
ListenersAreCurrent == devices # <<>> => announced = CurrentDevice(devices)

(* The list names each Flipper once, and its head is known to who follows.   *)
ListIsSound == OneObjectEach /\ ListenersAreCurrent

(* No information about a device is lost on one that comes back before it    *)
(* was seen to leave: the newest is in use, or it is the one that will be    *)
(* taken when the device goes offline.                                       *)
InfoIsNewest ==
    \A f \in Listed :
        IF dev[f].queue = <<>> THEN dev[f].info = newest[f]
        ELSE dev[f].online /\ Last(dev[f].queue) = newest[f]

(* A device that is there, offline and without an error is being brought up, *)
(* except behind a session that was still in the way of startSession() then, *)
(* and when the error was there and an operation has cleared it.             *)
(* In particular none is left waiting for the session of an old port.        *)
OnlyRefusalsStrand ==
    \A f \in Listed :
        LET d == dev[f] IN
        ~d.online /\ ~d.error /\ d.info.usb \in attached
            => d.timers > 0 \/ d.session = "Starting" \/ d.refused

(* A device with an operation under way keeps its objects when it is         *)
(* unplugged, to be found again when it comes back.                          *)
PersistentStays ==
    [][\A f \in Listed : dev[f].persistent /\ dev[f].online => f \in Listed']_vars

(* removeOfflineDevices() says "Removed offline device:" of each device it   *)
(* deletes: it deletes those and no others.                                  *)
OnlyOfflineRemoved == fault # "onlineDeleted"

=============================================================================
