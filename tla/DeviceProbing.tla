----------------------------- MODULE DeviceProbing -----------------------------
(***************************************************************************)
(* From the USB port to the registry: USBDeviceDetector (src/dfu/libusb)   *)
(* and the helpers that find out what was plugged in:                      *)
(* AbstractDeviceInfoHelper with SerialFinder, SerialInitHelper and a      *)
(* ProtobufSession of its own (src/backend).                               *)
(*                                                                         *)
(* All of them live in one event loop.  What they post with singleShot(0)  *)
(* is run in the order in which it was posted (loop); the answers of the   *)
(* device, the port's errors, timers and deleteLater() come in between.    *)
(* The session has the one operation that its helper waits for.            *)
(***************************************************************************)
EXTENDS Naturals, Sequences, FiniteSets, SequencesExt

CONSTANTS
    Pointer,        \* libusb_device pointers, USBDeviceInfo::backendData(): libusb uses them again
    NumTries,       \* m_numTries of the SerialFinder, 100
    RetryCount,     \* m_retryCount of the SerialInitHelper, 20
    MaxArrivals     \* bound: how often devices are plugged in

ASSUME CountsAreNumbers == NumTries \in Nat \ {0} /\ RetryCount \in Nat \ {0} /\ MaxArrivals \in Nat

VARIABLES
    usb,        \* the devices that are plugged in: the number of its arrival for each pointer, 0 for none
    arrivals,   \* arrivals so far
    known,      \* m_devices of the detector
    announced,  \* history: the arrivals that devicePluggedIn() told of
    raced,      \* history: pointers whose device left before its registration was run
    loop,       \* what is posted: [does, id]
    probe       \* the helper for each arrival

vars == <<usb, arrivals, known, announced, raced, loop, probe>>

Arrivals == 1..MaxArrivals
There(id) == \E p \in Pointer : usb[p] = id

NoProbe ==
    [at |-> "none", dfu |-> FALSE, tries |-> 0, init |-> "none", session |-> "Stopped", error |-> FALSE,
     lost |-> FALSE, operation |-> "none", answered |-> {}, reports |-> <<>>]

Init ==
    /\ usb = [p \in Pointer |-> 0]
    /\ arrivals = 0
    /\ known = {}
    /\ announced = {}
    /\ raced = {}
    /\ loop = <<>>
    /\ probe = [id \in Arrivals |-> NoProbe]

-----------------------------------------------------------------------------
(* A slot takes a helper to another state and posts events: operators on     *)
(* [p, posts] are its parts.                                                 *)

Slot(p) == [p |-> p, posts |-> <<>>]
Post(r, does) == [r EXCEPT !.posts = Append(@, does)]
IsUp(p) == p.session \in {"Idle", "Running"}

Finish(r, report) == [r EXCEPT !.p.at = "Finished", !.p.reports = Append(@, report)]

(* onSessionStatusChanged()                                                  *)
StoppedIsDone(p) == ~IsUp(p)                                            \* mutant
IsDone(p) == p.at = "StoppingRPCSession" /\ ~IsUp(p)

OnSessionStatusChanged(r) ==
    CASE r.p.error -> Finish(r, "error")
      [] ~r.p.error /\ r.p.at = "StartingRPCSession" /\ IsUp(r.p) -> Post(r, "next")
      [] ~r.p.error /\ IsDone(r.p) -> Finish(r, "ok")
      [] OTHER -> r

(* ProtobufSession, as far as one operation at a time needs it               *)
SetSessionState(r, state) ==
    IF r.p.session = state THEN r ELSE OnSessionStatusChanged([r EXCEPT !.p.session = state])

EnqueueOperation(r) ==
    LET queued == [r EXCEPT !.p.operation = "queued"] IN
    IF r.p.session = "Idle" THEN SetSessionState(Post(queued, "processQueue"), "Running") ELSE queued

StopAtOnce(r) == IF IsUp(r.p) THEN SetSessionState(r, "Stopped") ELSE r    \* mutant
StopSession(r) == IF IsUp(r.p) THEN Post(r, "doStopSession") ELSE r

(* finished() of the operation: the slot of the helper, then the session's.  *)
(* Without an SD card there is no manifest to ask for.                       *)
AfterAnswer(p, present) ==
    [p EXCEPT !.operation = "none", !.answered = @ \cup {p.at},
              !.at = IF p.at = "CheckingSDCard" /\ ~present THEN "CheckingManifest" ELSE @]
OperationSucceeds(r, present) == Post(Post([r EXCEPT !.p = AfterAnswer(@, present)], "next"), "processQueue")
OperationFails(r) == Post(Finish([r EXCEPT !.p.operation = "none"], "error"), "processQueue")

ProcessQueue(r) ==
    IF r.p.operation = "queued" THEN {[r EXCEPT !.p.operation = "running"],
                                      StopSession([r EXCEPT !.p.operation = "running", !.p.error = TRUE])}
    ELSE {SetSessionState(r, "Idle")}

DoStopSession(r) ==
    SetSessionState(IF r.p.operation = "running" THEN OperationFails(r) ELSE r, "Stopped")

(* VCPDeviceInfoHelper::nextStateLogic(), DFUDeviceInfoHelper's              *)
NextState ==
    [Ready |-> "FindingSerialPort", FindingSerialPort |-> "StartingRPCSession",
     StartingRPCSession |-> "FetchingProtobufVersion", FetchingProtobufVersion |-> "FetchingDeviceInfo",
     FetchingDeviceInfo |-> "CheckingSDCard", CheckingSDCard |-> "CheckingManifest",
     CheckingManifest |-> "GettingTimeSkew", GettingTimeSkew |-> "SyncingTime",
     SyncingTime |-> "StoppingRPCSession"]
Queries == {"FetchingProtobufVersion", "FetchingDeviceInfo", "CheckingSDCard", "CheckingManifest",
            "GettingTimeSkew", "SyncingTime"}

(* loadProtobufPlugin(): there is none for the version, or it cannot be read.*)
PluginFails(r) == OnSessionStatusChanged([r EXCEPT !.p.error = TRUE])

StartSession(r) ==
    {[r EXCEPT !.p.session = "Starting", !.p.init = "Ready", !.p.tries = RetryCount], PluginFails(r)}

NextStateLogic(r) ==
    IF r.p.at \notin DOMAIN NextState THEN {r}
    ELSE IF r.p.dfu THEN {Finish(r, "ok"), Finish(r, "error")}
    ELSE LET s == [r EXCEPT !.p.at = NextState[r.p.at]] IN
         CASE s.p.at = "FindingSerialPort" -> {[s EXCEPT !.p.tries = NumTries]}
           [] s.p.at = "StartingRPCSession" -> StartSession(s)
           [] s.p.at \in Queries -> {EnqueueOperation(s)}
           [] s.p.at = "StoppingRPCSession" -> {StopSession(s)}

(* SerialInitHelper::nextStateLogic(): an operation on the port is started,  *)
(* or the session is up.                                                     *)
SerialInit(r) ==
    CASE r.p.init = "Ready" -> [r EXCEPT !.p.init = "OpeningPort"]
      [] r.p.init = "OpeningPort" -> [r EXCEPT !.p.init = "SkippingMOTD"]
      [] r.p.init = "SkippingMOTD" -> [r EXCEPT !.p.init = "StartingRPC"]
      [] r.p.init = "StartingRPC" -> SetSessionState([r EXCEPT !.p.init = "none"], "Idle")

(* What is posted by startSession() is the helper's first step.              *)
Begins(r) == IF r.p.init = "Ready" /\ r.p.session = "Starting" THEN Post(r, "serialInit") ELSE r

Runs(does, r) ==
    CASE does = "next" -> {Begins(s) : s \in NextStateLogic(r)}
      [] does = "processQueue" -> ProcessQueue(r)
      [] does = "doStopSession" -> {DoStopSession(r)}
      [] does = "serialInit" -> {SerialInit(r)}

-----------------------------------------------------------------------------

Events(id, posts) == [i \in DOMAIN posts |-> [does |-> posts[i], id |-> id]]

(* A slot of the helper of one arrival, after which the loop holds what is   *)
(* left of it and what the slot has posted.                                  *)
Becomes(id, r, left) ==
    /\ probe' = [probe EXCEPT ![id] = r.p]
    /\ loop' = left \o Events(id, r.posts)
    /\ UNCHANGED <<usb, arrivals, known, announced, raced>>

(* fillDeviceInfo(): the descriptors, or not all of them after 20 tries.     *)
DeviceInfos == {"vcp", "dfu", "incomplete"}

(* insertDevice() creates a helper for a device it can tell.                 *)
Probed(info) == IF info = "incomplete" THEN NoProbe ELSE [NoProbe EXCEPT !.at = "Ready", !.dfu = info = "dfu"]

(* The event loop runs what was posted first.  registerDevice() reads the    *)
(* descriptors and announces the device, unless its pointer is known.        *)
RunRegistration ==
    /\ loop # <<>> /\ Head(loop).does = "register"
    /\ LET p == Head(loop).pointer
           id == Head(loop).id IN
       IF p \in known THEN /\ loop' = Tail(loop)
                          /\ UNCHANGED <<known, announced, probe>>
       ELSE /\ known' = known \cup {p}
            /\ announced' = announced \cup {id}
            /\ \E info \in DeviceInfos :
                  /\ probe' = [probe EXCEPT ![id] = Probed(info)]
                  /\ loop' = Tail(loop) \o IF info = "incomplete" THEN <<>> ELSE Events(id, <<"next">>)
    /\ UNCHANGED <<usb, arrivals, raced>>

(* What was posted to a helper that is deleted is dropped.                   *)
RunPosted ==
    /\ loop # <<>> /\ Head(loop).does # "register"
    /\ LET id == Head(loop).id IN
       \/ /\ probe[id].at # "gone"
          /\ \E r \in Runs(Head(loop).does, Slot(probe[id])) : Becomes(id, r, Tail(loop))
       \/ /\ probe[id].at = "gone"
          /\ loop' = Tail(loop)
          /\ UNCHANGED <<usb, arrivals, known, announced, raced, probe>>

(* deleteLater()                                                             *)
Deletion(id) ==
    /\ probe[id].at = "Finished"
    /\ probe' = [probe EXCEPT ![id] = [NoProbe EXCEPT !.at = "gone", !.reports = probe[id].reports]]
    /\ UNCHANGED <<usb, arrivals, known, announced, raced, loop>>

(* The timer of the SerialFinder: its last try is not made.                  *)
FindMatchingPort(id) ==
    /\ probe[id].at = "FindingSerialPort" /\ probe[id].tries > 0
    /\ LET tried == [probe[id] EXCEPT !.tries = @ - 1]
           over == [tried EXCEPT !.tries = 0] IN
       \/ tried.tries = 0 /\ Becomes(id, Finish(Slot(tried), "error"), loop)
       \/ tried.tries > 0 /\ There(id) /\ Becomes(id, Post(Slot(over), "next"), loop)
       \/ tried.tries > 0 /\ Becomes(id, Slot(tried), loop)

(* The SerialInitHelper: its timer, and the end of its two operations, which *)
(* have a timeout.  An error ends the session early.                         *)
EndsEarly(p) == SetSessionState(Slot([p EXCEPT !.init = "none", !.error = TRUE]), "Stopped")
OpenPort(id) ==
    /\ probe[id].init = "OpeningPort" /\ probe[id].tries > 0
    /\ LET tried == [probe[id] EXCEPT !.tries = @ - 1] IN
       \/ There(id) /\ Becomes(id, Post(Slot([tried EXCEPT !.tries = 0]), "serialInit"), loop)
       \/ Becomes(id, IF tried.tries = 0 THEN EndsEarly(tried) ELSE Slot(tried), loop)

Under(id, init) == probe[id].init = init /\ [does |-> "serialInit", id |-> id] \notin Range(loop)

(* The prompt of the command line is read, or the echo of the command.       *)
MOTDSkipped(id) == Under(id, "SkippingMOTD") /\ There(id) /\ Becomes(id, Post(Slot(probe[id]), "serialInit"), loop)
RPCStarted(id) == Under(id, "StartingRPC") /\ There(id) /\ Becomes(id, Post(Slot(probe[id]), "serialInit"), loop)

(* It cannot be written, the port fails, or nothing is read in time.         *)
SerialOperationFails(id) ==
    /\ \E init \in {"SkippingMOTD", "StartingRPC"} : Under(id, init)
    /\ Becomes(id, EndsEarly(probe[id]), loop)

SerialOperationEnds(id) == MOTDSkipped(id) \/ RPCStarted(id) \/ SerialOperationFails(id)

(* The device answers, or an answer that was on its way is read; 30 s are    *)
(* over since its last part, or the device has refused.                      *)
OperationEnds(id) ==
    /\ probe[id].operation = "running"
    /\ \/ /\ ~probe[id].lost /\ probe[id].session # "Stopped"
          /\ \E present \in BOOLEAN : Becomes(id, OperationSucceeds(Slot(probe[id]), present), loop)
       \/ Becomes(id, OperationFails(Slot(probe[id])), loop)

(* errorOccurred() of the port                                               *)
PortIsLost(id) ==
    /\ IsUp(probe[id]) /\ ~probe[id].lost /\ ~There(id)
    /\ Becomes(id, StopSession(Slot([probe[id] EXCEPT !.lost = TRUE])), loop)

-----------------------------------------------------------------------------
(* libusbHotplugCallback(): an arrival is posted, a departure registered at  *)
(* once.                                                                     *)
Arrive ==
    /\ arrivals < MaxArrivals
    /\ arrivals' = arrivals + 1
    /\ \E p \in Pointer :
          /\ usb[p] = 0
          /\ usb' = [usb EXCEPT ![p] = arrivals']
          /\ loop' = Append(loop, [does |-> "register", id |-> arrivals', pointer |-> p])
    /\ UNCHANGED <<known, announced, raced, probe>>

(* unregisterDevice()                                                        *)
KeepsThePointer(p) == known                                             \* mutant
KnownWithout(p) == known \ {p}

Leave ==
    /\ \E p \in Pointer :
          /\ usb[p] # 0
          /\ usb' = [usb EXCEPT ![p] = 0]
          /\ known' = KnownWithout(p)
          /\ raced' = IF p \in known THEN raced ELSE raced \cup {p}
    /\ UNCHANGED <<arrivals, announced, loop, probe>>

Helper(id) ==
    \/ Deletion(id) \/ FindMatchingPort(id) \/ OpenPort(id) \/ SerialOperationEnds(id)
    \/ OperationEnds(id) \/ PortIsLost(id)

Next == Arrive \/ Leave \/ RunRegistration \/ RunPosted \/ \E id \in Arrivals : Helper(id)

(* The event loop turns and timers fire: an operation times out when nothing *)
(* comes any more.  Devices come, go and answer as they like, and as each    *)
(* part of an answer starts the timer again, one without end keeps its       *)
(* operation for ever.                                                       *)
NothingComes(id) == probe[id].lost \/ probe[id].session = "Stopped" \/ ~There(id)
FairSpec ==
    /\ Init /\ [][Next]_vars
    /\ WF_vars(RunRegistration) /\ WF_vars(RunPosted)
    /\ \A id \in Arrivals :
          /\ WF_vars(FindMatchingPort(id)) /\ WF_vars(OpenPort(id))
          /\ WF_vars(SerialOperationEnds(id)) /\ WF_vars(NothingComes(id) /\ OperationEnds(id))

-----------------------------------------------------------------------------
(* Properties *)

(* Every query of the registry ends, whenever the device leaves and whatever *)
(* the port, the session and the device do: isQueryInProgress does not stay. *)
(* No step of the helper is lost between the session that stops and the      *)
(* operation that is asked of it.  Excepted is a device that stays and sends *)
(* an answer in parts without end.                                           *)
ProbesEnd ==
    \A id \in Arrivals :
        \/ probe[id].at = "Ready" ~> probe[id].reports # <<>>
        \/ <>[](probe[id].operation = "running" /\ ~NothingComes(id))

(* A helper reports a device once, and only with every answer it needs, in a *)
(* session that was ended in good order; one that has failed may say so more *)
(* than once, and never takes it back.                                       *)
ReportsAreTrue ==
    \A id \in Arrivals :
        LET p == probe[id] IN
        /\ "ok" \in Range(p.reports) => Len(p.reports) = 1
        /\ p.at = "Finished" /\ ~p.dfu /\ p.reports = <<"ok">> =>
              p.session = "Stopped" /\ ~p.error /\ p.operation = "none" /\ Queries \ {"CheckingManifest"} \subseteq p.answered

(* A device that is plugged in is known to the detector, and was announced   *)
(* once, when everything posted is done; one that is not plugged in is not   *)
(* known.  Excepted are pointers of a device that was gone before it was     *)
(* registered: it is known for good then, and the next one with that pointer *)
(* is overlooked.                                                            *)
DetectorAgrees ==
    \A p \in Pointer \ raced :
        (\A i \in DOMAIN loop : loop[i].does # "register") =>
            /\ p \in known <=> usb[p] # 0
            /\ usb[p] # 0 => usb[p] \in announced
=============================================================================
