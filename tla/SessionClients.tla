---------------------------- MODULE SessionClients ----------------------------
(***************************************************************************)
(* The clients of the RPC session of the current device: the screen        *)
(* streamer, the virtual display and the file manager                      *)
(* (src/backend/flipperzero), with what ApplicationBackend makes of them.  *)
(*                                                                         *)
(* All three put requests in the one line of the session (ProtobufSession, *)
(* here in short: first come, first served, and a failure clears it).      *)
(* Dropped requests never emit finished(), so their client is not told.    *)
(* The device is external.                                                 *)
(***************************************************************************)
EXTENDS Naturals, Sequences, SequencesExt

CONSTANTS Name,       \* of directories
          MaxDepth,   \* bound: of a path
          MaxLine     \* bound: requests in line at once

ASSUME BoundsAreNumbers == MaxDepth \in Nat /\ MaxLine \in Nat \ {0}
ASSUME NothingIsNoName == "nothing" \notin Name        \* see Nothing

VARIABLES
    session,    \* that of the current device: "new" (never started), "starting", "up",
                \* "down", or "lost": a deleted device was used, and anything may happen
    line,       \* requests of the clients
    streamer,   \* ScreenStreamer::m_streamState; Running stands for Paused as well,
                \* which differs in the frames that are shown only
    display,    \* VirtualDisplay::m_displayState
    bound,      \* m_device of both, a raw pointer: "none", "current", "gone" (its device is
                \* deleted) or "reused" (the current device has the address of the deleted one)
    files,      \* FileManager
    current,    \* the current device: "none", "normal" or "recovery"
    backend,    \* the application: "waiting" (for a device, then for its stream), "ready", or
                \* "busy" with an operation, or with the end of one or an error on show
    dev,        \* the device: whether it streams its screen, and shows ours
    upset       \* clients with a request that failed, was refused or dropped; "work" if it
                \* was one the file manager is busy with, "stream" if the start of the stream

vars == <<session, line, streamer, display, bound, files, current, backend, dev, upset>>
screens == <<streamer, display, bound>>
outside == <<session, current, backend, dev, upset>>

Clients == {"streamer", "display", "files"}
Nothing == <<"nothing">>        \* an empty list, shown for no path

Request(by, do, path) == [by |-> by, do |-> do, path |-> path]
ClientsIn(requests) == {requests[i].by : i \in DOMAIN requests}
StreamStart == Request("streamer", "start", <<>>)
StreamStop == Request("streamer", "stop", <<>>)
Marks(r) == {r.by} \cup (IF r.do = "work" THEN {"work"} ELSE IF r = StreamStart THEN {"stream"} ELSE {})
Dropped(requests) == UNION {Marks(requests[i]) : i \in DOMAIN requests}

(* The screens hear of the session if they are connected to it: to that of   *)
(* the device they were bound to, not to that of one found at its address.   *)
Hears == bound = "current"
Screens == IF Hears THEN {"streamer", "display"} ELSE {}
Missed(marks) == marks \cap (Screens \cup {"files", "work"} \cup (IF backend = "waiting" THEN {"stream"} ELSE {}))
(* A failure: the first is told, the others are dropped.                     *)
Told == IF line # <<>> /\ Head(line).do = "work" THEN {"work"} ELSE {}
Upsets == (upset \cup Missed(Dropped(line))) \ Told
Room == Len(line) < MaxLine

NewFiles == [history |-> <<>>, forward |-> <<>>, shown |-> Nothing, busy |-> FALSE]

Init ==
    /\ session = "new" /\ line = <<>>
    /\ streamer = "Stopped" /\ display = "Stopped" /\ bound = "none"
    /\ files = NewFiles
    /\ current = "none" /\ backend = "waiting"
    /\ dev = [streams |-> FALSE, shows |-> FALSE]
    /\ upset = {}

-----------------------------------------------------------------------------
(* ScreenStreamer: start() and stop() do nothing in the wrong state, and     *)
(* start() nothing without a pointer.  What the pointer points to is not     *)
(* looked at: a request through one whose device is deleted is undefined     *)
(* behaviour, with which the model ends.                                     *)

StartsStream == streamer = "Stopped" /\ bound # "none"
IsEnabled(state) == state = "Running"
Dangles ==
    /\ bound = "gone" /\ session' = "lost"
    /\ UNCHANGED <<line, screens, files, current, backend, dev, upset>>

(* The file manager comes into view or leaves it, in the application that is *)
(* Ready; its tab stays in view while a device in recovery mode is current.  *)
SetEnabled ==
    /\ Room /\ session # "lost" /\ backend = "ready"
    /\ StartsStream \/ IsEnabled(streamer)
    /\ \/ Dangles
       \/ /\ bound # "gone"
          /\ \/ StartsStream /\ streamer' = "Starting" /\ line' = Append(line, StreamStart)
             \/ IsEnabled(streamer) /\ streamer' = "Stopping" /\ line' = Append(line, StreamStop)
          /\ UNCHANGED <<display, bound, files, outside>>

(* The keypad of the stream, whatever has become of the stream; its view     *)
(* still takes input while it fades out, after the device has gone.          *)
SendInputEvent ==
    /\ Room /\ session # "lost"
    /\ \/ current = "none" /\ Dangles
       \/ /\ current = "normal" /\ backend = "ready"
          /\ line' = Append(line, Request("streamer", "input", <<>>))
          /\ UNCHANGED <<screens, files, outside>>

(* An operation begins.  VirtualDisplay is started with it, if it may be,    *)
(* and again when the device returns within it; and it is given a last frame *)
(* when the operation ends.                                                  *)
OperationBegins ==
    /\ session # "lost" /\ backend = "ready" /\ backend' = "busy"
    /\ UNCHANGED <<line, screens, files, session, current, dev, upset>>
Operating == Room /\ backend = "busy" /\ current = "normal"
DisplayStart ==
    /\ Operating /\ display = "Stopped"
    /\ display' = "Starting"
    /\ line' = Append(line, Request("display", "start", <<>>))
    /\ UNCHANGED <<streamer, bound, files, outside>>
SendFrame ==
    /\ Operating
    /\ line' = Append(line, Request("display", "frame", <<>>))
    /\ UNCHANGED <<screens, files, outside>>
StopsDisplay == display = "Running"

-----------------------------------------------------------------------------
(* FileManager: where the user is, the way back and forth, and what is shown *)

Listing(path) == Request("files", "list", path)

ForwardAfter(name) ==
    IF files.forward # <<>> /\ Last(files.forward) = name THEN Front(files.forward) ELSE <<>>
Pushed(name) == [files EXCEPT !.forward = ForwardAfter(name), !.history = Append(@, name)]
Popped ==
    IF files.history = <<>> THEN files
    ELSE [files EXCEPT !.forward = Append(@, Last(files.history)), !.history = Front(@)]

(* A listing is asked for by the path that is current at that time.          *)
ListPathBefore(next) == files' = next /\ line' = Append(line, Listing(files.history)) \* mutant
ListCurrentPath(next) ==
    /\ files' = next
    /\ line' = Append(line, Listing(next.history))

(* What the user can do while a device is there; directories are picked from *)
(* the list that is shown.                                                   *)
InFileManager == Room /\ current = "normal" /\ backend = "ready" /\ UNCHANGED <<screens, outside>>

Cd(name) ==
    /\ files.shown # Nothing /\ Len(files.history) < MaxDepth
    /\ ListCurrentPath(Pushed(name))
HistoryForward ==
    /\ files.forward # <<>>
    /\ ListCurrentPath(Pushed(Last(files.forward)))
HistoryBack == ListCurrentPath(Popped)
Refresh == ListCurrentPath(files)

(* rename(), remove(), commitMkDir(), upload() and download(): work that is  *)
(* waited for; uploadTo() goes to a directory without listing it first.      *)
Work(next) ==
    /\ files' = [next EXCEPT !.busy = TRUE]
    /\ line' = Append(line, Request("files", "work", next.history))
UploadTo(name) ==
    /\ files.shown # Nothing /\ Len(files.history) < MaxDepth
    /\ Work(Pushed(name))

FileManager ==
    /\ InFileManager
    /\ \/ \E name \in Name : Cd(name) \/ UploadTo(name)
       \/ HistoryForward
       \/ HistoryBack
       \/ Refresh
       \/ Work(files)

-----------------------------------------------------------------------------
(* The end of a request: what the device has done, and what its client does  *)
(* on finished().                                                            *)

Carried(r) ==
    CASE r.by = "streamer" /\ r.do # "input" -> [dev EXCEPT !.streams = r.do = "start"]
      [] r.by = "display" /\ r.do # "frame" -> [dev EXCEPT !.shows = r.do = "start"]
      [] OTHER -> dev

AfterOK(state, r) ==
    CASE r.do = "start" -> "Running" [] r.do = "stop" -> "Stopped" [] OTHER -> state
AfterError(state, r) ==
    IF r.do = "frame" THEN state ELSE "Stopped"

StreamerTold(next) ==
    /\ streamer' = next
    /\ backend' = IF backend = "waiting" /\ IsEnabled(next) THEN "ready" ELSE backend
    /\ UNCHANGED <<display, files>>
DisplayTold(next) == display' = next /\ UNCHANGED <<streamer, files, backend>>
FilesTold(next) == files' = next /\ UNCHANGED <<streamer, display>>

(* Finished without an error; "found" is FALSE for a directory that is not   *)
(* there any more, or if the device refused.                                 *)
ListShown(r) == [files EXCEPT !.shown = r.path]
FileManagerReset == [NewFiles EXCEPT !.busy = files.busy]
FilesAfterOK(r, found) ==
    IF r.do = "work"
    THEN FilesTold([files EXCEPT !.busy = FALSE]) /\ line' = Append(Tail(line), Listing(files.history))
    ELSE IF found \/ r.path = <<>>
    THEN FilesTold(ListShown(r)) /\ line' = Tail(line)
    ELSE FilesTold(FileManagerReset) /\ line' = Append(Tail(line), Listing(<<>>))

OnFinished(r, found) ==
    \/ r.by = "streamer" /\ StreamerTold(AfterOK(streamer, r)) /\ line' = Tail(line)
    \/ r.by = "display" /\ DisplayTold(AfterOK(display, r)) /\ line' = Tail(line)
    \/ r.by = "files" /\ FilesAfterOK(r, found) /\ UNCHANGED backend

StaysBusy(r) == files                                                      \* mutant
FilesAfterError(r) == IF r.do = "work" THEN [files EXCEPT !.busy = FALSE] ELSE files

(* The application shows the errors of the file manager.                     *)
OnError(r) ==
    \/ r.by = "streamer" /\ StreamerTold(AfterError(streamer, r))
    \/ r.by = "display" /\ DisplayTold(AfterError(display, r))
    \/ /\ r.by = "files" /\ backend' = "busy"
       /\ FilesTold(FilesAfterError(r))

(* A client has made up for what it missed.                                  *)
Recovered(r) ==
    IF r.do = "list" /\ "files" \notin ClientsIn(Tail(line)) THEN {"files"} ELSE Told

RequestDone ==
    /\ session = "up" /\ line # <<>>
    /\ LET r == Head(line) IN
       /\ dev' = Carried(r)
       /\ OnFinished(r, TRUE)
       /\ upset' = upset \ Recovered(r)
    /\ UNCHANGED <<session, bound, current>>

RequestRefused ==
    /\ session = "up" /\ line # <<>>
    /\ LET r == Head(line) IN
       /\ OnFinished(r, FALSE)
       /\ upset' = (upset \cup Missed({r.by} \ {"files"})) \ Told
    /\ UNCHANGED <<session, bound, current, dev>>

(* The session clears its line.                                              *)
RequestFailed ==
    /\ session = "up" /\ line # <<>>
    /\ line' = <<>>
    /\ OnError(Head(line))
    /\ dev' \in {dev, Carried(Head(line))}
    /\ upset' = Upsets
    /\ UNCHANGED <<session, bound, current>>

-----------------------------------------------------------------------------
(* The session                                                               *)

(* sessionStateChanged(): not up.                                            *)
Unheard(state) == IF Hears THEN "Stopped" ELSE state
ScreensStop == streamer' = Unheard(streamer) /\ display' = Unheard(display) /\ UNCHANGED bound

(* The session of a new device, or of one that comes back within an          *)
(* operation: any other is taken off the list when it leaves (see            *)
(* DeviceRegistry).  No device has to come back.                             *)
StartSession ==
    /\ current = "normal" /\ (session = "new" \/ (session = "down" /\ backend = "busy"))
    /\ session' = "starting"
    /\ ScreensStop
    /\ upset' = upset \ Screens
    /\ UNCHANGED <<line, files, current, backend, dev>>
SessionStarted ==
    /\ session = "starting"
    /\ session' = "up"
    /\ UNCHANGED <<line, screens, files, current, backend, dev, upset>>

(* stopEarly(): the line stays as it is, neither finished nor dropped.       *)
SessionFails ==
    /\ session = "starting"
    /\ session' = "down"
    /\ ScreensStop
    /\ UNCHANGED <<line, files, current, backend, dev, upset>>

(* The request that runs is aborted, the others are dropped, and the device  *)
(* stops what it did for the session.                                        *)
Aborts(client, done) == line # <<>> /\ Head(line).by = client /\ Head(line).do \in done
SessionStopped ==
    /\ session = "up"
    /\ session' = "down"
    /\ line' = <<>>
    /\ files' = IF Aborts("files", {"list", "work"}) THEN FilesAfterError(Head(line)) ELSE files
    /\ streamer' = IF Aborts("streamer", {"start", "stop", "input"}) THEN "Stopped" ELSE Unheard(streamer)
    /\ display' = IF Aborts("display", {"start", "stop"}) THEN "Stopped" ELSE Unheard(display)
    /\ dev' = [streams |-> FALSE, shows |-> FALSE]
    /\ upset' = Upsets \ Screens
    /\ backend' = IF Aborts("files", {"list", "work"}) THEN "busy" ELSE backend
    /\ UNCHANGED <<bound, current>>

-----------------------------------------------------------------------------
(* ApplicationBackend                                                        *)

(* The current device is deleted, and its session with it, in whatever state *)
(* that is: nobody is told of the end of a session that was up.  The file    *)
(* manager notices, the others keep the pointer.                             *)
DeviceRemoved ==
    /\ current # "none" /\ session # "lost"
    /\ current' = "none" /\ backend' = "waiting"
    /\ session' = "down"
    /\ bound' = IF bound = "none" THEN "none" ELSE "gone"
    /\ line' = <<>>
    /\ dev' = [streams |-> FALSE, shows |-> FALSE]
    /\ upset' = (upset \cup Dropped(line)) \cap {"files", "work"}
    /\ UNCHANGED <<streamer, display, files>>

(* The new device may have been allocated where the deleted one was.         *)
Address == IF bound = "gone" THEN {"gone", "reused"} ELSE {bound}

(* setDevice() of both returns at once on a pointer equal to its own; else   *)
(* the streamer stops, while the display keeps its state.                    *)
StreamGoesOn(address) == streamer                                          \* mutant
StreamAfterSetDevice(address) == IF address = "reused" THEN streamer ELSE "Stopped"
BindsTo(address) == IF address = "reused" THEN address ELSE "current"

(* The device is bound, unless it is in recovery mode, and the stream is     *)
(* started, if it is stopped.                                                *)
OnCurrentDeviceChanged ==
    /\ current = "none" /\ session # "lost"
    /\ session' = "new"
    /\ \E address \in Address :
       \/ /\ current' = "recovery" /\ backend' = "ready"
          /\ bound' = address
          /\ UNCHANGED <<line, streamer, files, upset>>
       \/ /\ current' = "normal" /\ backend' = "waiting"
          /\ bound' = BindsTo(address)
          /\ LET starts == StreamAfterSetDevice(address) = "Stopped" IN
             /\ streamer' = IF starts THEN "Starting" ELSE StreamAfterSetDevice(address)
             /\ line' = IF starts THEN <<StreamStart>> ELSE <<>>
          /\ files' = FileManagerReset
          /\ upset' = upset \cap {"work"}
    /\ UNCHANGED <<display, dev>>

(* The device comes out of recovery mode, by an operation.                   *)
OnDeviceInfoChanged ==
    /\ current = "recovery" /\ backend = "busy" /\ session # "lost"
    /\ current' = "normal"
    /\ bound' = BindsTo(bound)
    /\ streamer' = StreamAfterSetDevice(bound) /\ files' = FileManagerReset
    /\ UNCHANGED <<session, line, display, backend, dev, upset>>

(* finalizeOperation(): in normal mode the display is stopped, if it runs;   *)
(* the stream started again, if it does not; the root directory listed.      *)
FinalizeOperation ==
    /\ Room /\ backend = "busy" /\ session # "lost"
    /\ backend' = "ready"
    /\ \/ /\ current = "recovery"
          /\ UNCHANGED <<line, streamer, display, files>>
       \/ /\ current = "normal"
          /\ display' = IF StopsDisplay THEN "Stopping" ELSE display
          /\ streamer' = IF StartsStream THEN "Starting" ELSE streamer
          /\ files' = FileManagerReset
          /\ line' = line \o (IF StopsDisplay THEN <<Request("display", "stop", <<>>)>> ELSE <<>>)
                          \o (IF StartsStream THEN <<StreamStart>> ELSE <<>>)
                          \o <<Listing(<<>>)>>
    /\ UNCHANGED <<bound, session, current, dev, upset>>

-----------------------------------------------------------------------------

User ==
    \/ SetEnabled \/ SendInputEvent \/ FileManager
    \/ OperationBegins \/ FinalizeOperation
Rpc == RequestDone \/ RequestRefused \/ RequestFailed
Connection ==
    \/ StartSession \/ SessionStarted \/ SessionFails \/ SessionStopped
    \/ DeviceRemoved \/ OnCurrentDeviceChanged \/ OnDeviceInfoChanged

Next == User \/ DisplayStart \/ SendFrame \/ Rpc \/ Connection

Spec == Init /\ [][Next]_vars

(* A request that is sent ends: its operation has a timer, which every part  *)
(* of an answer starts again, and an answer has finitely many parts; and a   *)
(* session that is starting comes up or fails.  No device has to come back,  *)
(* and no session to be started again.                                       *)
FairSpec == Spec /\ WF_vars(Rpc) /\ WF_vars(SessionStarted \/ SessionFails)

-----------------------------------------------------------------------------
(* Properties *)

Quiet(client) == session = "up" /\ client \notin upset /\ client \notin ClientsIn(line)

(* When a client has nothing in line, and nothing of it has failed, it and   *)
(* the device agree: the device streams its screen if the streamer is        *)
(* running, shows the virtual display if that is, and the list of files is   *)
(* that of the directory the user is in.  The screens are excepted while     *)
(* they do not hear of the session, for setDevice() took its device for the  *)
(* deleted one.                                                              *)
ClientsAgree ==
    /\ Hears /\ Quiet("streamer") => streamer \notin {"Starting", "Stopping"} /\ (IsEnabled(streamer) <=> dev.streams)
    /\ Hears /\ Quiet("display") => display \notin {"Starting", "Stopping"} /\ (display = "Running" <=> dev.shows)
    /\ Quiet("files") => files.shown \in {files.history, Nothing}

(* The application that has not seen the stream of its device has asked for  *)
(* it, and the request is still in line unless it failed or was dropped:     *)
(* start() refuses a stream that is not stopped, such as one that was left   *)
(* running when the last device was deleted.  Excepted is the device that    *)
(* setDevice() takes for the deleted one.                                    *)
StreamAskedFor ==
    backend = "waiting" /\ current = "normal" /\ Hears /\ "stream" \notin upset => \E i \in DOMAIN line : line[i] = StreamStart

(* While the session is up, what waits for an answer gets it: the            *)
(* application for the stream, and the user for the file manager, unless the *)
(* request failed or was dropped; and the list of files becomes that of the  *)
(* path, unless the user keeps going elsewhere.  A stream that is taken over *)
(* with the address of a deleted device is excepted.                         *)
Settled(client) == client \in upset \/ session # "up"
ClientsSettle ==
    /\ backend = "waiting" /\ session = "up" ~> backend # "waiting" \/ Settled("stream") \/ bound = "reused"
    /\ files.busy /\ session = "up" ~> ~files.busy \/ Settled("work")
    /\ \/ session = "up" ~> files.shown \in {files.history, Nothing} \/ Settled("files")
       \/ []<><<FileManager>>_vars
=============================================================================
