----------------------------- MODULE RpcOperation -----------------------------
(***************************************************************************)
(* One RPC operation (src/backend/flipperzero/rpc) from start() to its     *)
(* finished(): the requests it encodes, the plugin that decodes the        *)
(* answers, and the device that gives them.  Which operations run, and     *)
(* when, is the business of ProtobufSession; here one of any class runs    *)
(* while the link may fail, the device may refuse, and storage reads and   *)
(* writes go in chunks.                                                    *)
(*                                                                         *)
(* The model ends with finished(): what comes later is not matched to this *)
(* operation any more.                                                     *)
(*                                                                         *)
(* The device is external: it answers in order, one request after another. *)
(* A file is a sequence of bytes that are told apart by their position.    *)
(***************************************************************************)
EXTENDS Naturals, Sequences

CONSTANTS ChunkSize,     \* CHUNK_SIZE, 1024
          PingsPerFile,  \* a ping for each 1/PingsPerFile of the file, 100
          PingCap,       \* CHUNKS_PER_PING_CAP, 1000
          MaxSize        \* bound: the size of a file, in bytes

ASSUME SizesAreSizes == /\ ChunkSize \in Nat \ {0}
                        /\ PingsPerFile \in Nat \ {0}
                        /\ PingCap \in Nat \ {0}
                        /\ MaxSize \in Nat

-----------------------------------------------------------------------------
(* What the plugin makes of an answer *)

SystemResponses == {"SystemDeviceInfo", "SystemGetDateTime", "SystemUpdate", "SystemProtobufVersion"}
StorageResponses == {"StorageInfo", "StorageStat", "StorageList", "StorageRead", "StorageMd5Sum"}
ResponseTypes ==
    {"Empty", "StatusPing", "GuiScreenFrame", "PropertyGet"} \cup SystemResponses \cup StorageResponses

(* A status is "ok", "refused" (any of the errors that concern the request:  *)
(* storage, application, virtual display, parameters) or "severe".           *)
IsError(response) == response.status = "severe"

(* decode() gives nothing for a message of a type it does not know, as it    *)
(* does for one that is not complete: the buffer is left as it is.           *)
Decodes(response) == response.type \in ResponseTypes

-----------------------------------------------------------------------------
(* The classes: what each asks, the type of its answer, and the types that   *)
(* its processResponse() accepts                                             *)

Class(asks, answer, accepts) ==
    [asks |-> asks, answer |-> answer, accepts |-> accepts, oneWay |-> FALSE]
Default(asks) == Class(asks, "Empty", {"Empty"})
FinishesLater(class) == [class EXCEPT !.oneWay = TRUE]

SystemReboot == FinishesLater(Default("SystemReboot"))
SystemFactoryReset == FinishesLater(Default("SystemFactoryReset"))
SystemDeviceInfo == Class("SystemDeviceInfo", "SystemDeviceInfo", {"SystemDeviceInfo"})
SystemGetDateTime == Class("SystemGetDateTime", "SystemGetDateTime", {"SystemGetDateTime"})
SystemSetDateTime == Default("SystemSetDateTime")
SystemUpdate == Class("SystemUpdate", "SystemUpdate", ResponseTypes)
SystemProtobufVersion ==
    Class("SystemProtobufVersion", "SystemProtobufVersion", {"SystemProtobufVersion"})
StorageInfo == Class("StorageInfo", "StorageInfo", ResponseTypes)
StorageStat == Class("StorageStat", "StorageStat", ResponseTypes)
StorageList == Class("StorageList", "StorageList", {"StorageList", "Empty"})
StorageMd5Sum == Class("StorageMd5Sum", "StorageMd5Sum", {"StorageMd5Sum", "Empty"})
StorageMkdir == Default("StorageMkdir")
StorageRename == Default("StorageRename")
StorageRemove == Default("StorageRemove")
StorageRead == Class("StorageRead", "StorageRead", {"StorageRead", "StorageStat"})
StorageWrite == Class("StorageWrite", "Empty", {"StatusPing", "Empty"})
GuiStartScreenStream == Default("GuiStartScreenStream")
GuiStopScreenStream == Default("GuiStopScreenStream")
GuiStartVirtualDisplay == Default("GuiStartVirtualDisplay")
GuiStopVirtualDisplay == Default("GuiStopVirtualDisplay")
GuiSendInput == Default("GuiSendInput")
GuiScreenFrame == FinishesLater(Default("GuiScreenFrame"))
PropertyGet == Class("PropertyGet", "PropertyGet", {"PropertyGet", "Empty"})

Classes ==
    {SystemReboot, SystemFactoryReset, SystemDeviceInfo, SystemGetDateTime, SystemSetDateTime,
     SystemUpdate, SystemProtobufVersion, StorageInfo, StorageStat, StorageList, StorageMd5Sum,
     StorageMkdir, StorageRename, StorageRemove, StorageRead, StorageWrite,
     GuiStartScreenStream, GuiStopScreenStream, GuiStartVirtualDisplay, GuiStopVirtualDisplay,
     GuiSendInput, GuiScreenFrame, PropertyGet}

(* The device answers these in any number of parts.                          *)
InParts == {"SystemDeviceInfo", "StorageList", "StorageRead", "PropertyGet"}

-----------------------------------------------------------------------------

VARIABLES
    op,        \* the operation, see NewOperation
    local,     \* the local file: what a write reads, and what a read has written
    requests,  \* requests on their way to the device
    replies,   \* its answers on their way back
    remote,    \* the file on the device, or NoFile
    device     \* the device: what it made of the request

vars == <<op, local, requests, replies, remote, device>>

NoFile == <<0>>
Bytes(n) == [i \in 1..n |-> i]
Sizes == 0..MaxSize

NewOperation(class) ==
    [class |-> class, phase |-> "ready", error |-> "none", sub |-> "none",
     offset |-> 0, chunksPerPing |-> 0, chunksWritten |-> 0, parts |-> 0]

Init ==
    \E class \in Classes, n \in Sizes :
    /\ op = NewOperation(class)
    /\ requests = <<>>
    /\ replies = <<>>
    /\ device = [did |-> "nothing", parts |-> 0]
    /\ \/ class = StorageWrite /\ local = Bytes(n) /\ remote \in {NoFile, <<>>}
       \/ class = StorageRead /\ local = <<>> /\ remote \in {NoFile, Bytes(n)}
       \/ class \notin {StorageRead, StorageWrite} /\ n = 0 /\ local = <<>> /\ remote = NoFile

-----------------------------------------------------------------------------
(* The host *)

Finished(error) == [op EXCEPT !.phase = "finished", !.error = error]

AtMost(x, y) == IF x < y THEN x ELSE y

ChunksPerPing(size) ==
    IF size >= ChunkSize * PingsPerFile
    THEN AtMost(size \div (ChunkSize * PingsPerFile), PingCap)
    ELSE 0

(* Opening the local file may fail; then finish() is posted.                 *)
Start ==
    /\ op.phase = "ready"
    /\ \/ /\ op.class \in {StorageRead, StorageWrite}
          /\ op' = Finished("Disk")
       \/ op' = [op EXCEPT !.phase = "writing",
                           !.chunksPerPing = IF op.class = StorageWrite THEN ChunksPerPing(Len(local)) ELSE 0]
    /\ UNCHANGED <<local, requests, replies, remote, device>>

(* The messages: a request for a path, or one without an argument that       *)
(* matters here; what is written, with its file; a ping.                     *)
Request(asks, data, hasNext) == [asks |-> asks, data |-> data, hasNext |-> hasNext]
StorageRequest(asks) == Request(asks, <<>>, FALSE)
WriteRequest(data, hasNext) == Request("StorageWrite", data, hasNext)
PingRequest == Request("StatusPing", <<>>, FALSE)

BytesAvailable == Len(local) > op.offset

(* What StorageWriteOperation sends next: a chunk, or the ping that is due.  *)
NextOfWrite ==
    IF op.sub = "ping"
    THEN /\ requests' = Append(requests, PingRequest)
         /\ op' = [op EXCEPT !.sub = "none"]
    ELSE LET end == AtMost(op.offset + ChunkSize, Len(local))
             pingDue == op.chunksWritten + 1 = op.chunksPerPing IN
         /\ requests' = Append(requests, WriteRequest(SubSeq(local, op.offset + 1, end), end < Len(local)))
         /\ op' = [op EXCEPT !.offset = end,
                             !.chunksWritten = IF pingDue THEN 0 ELSE @ + 1,
                             !.sub = IF pingDue THEN "ping" ELSE @,
                             !.phase = IF end < Len(local) THEN @ ELSE "started"]

(* What StorageReadOperation sends: a stat, and the read behind it.          *)
NextOfRead ==
    /\ requests' = Append(requests, StorageRequest(IF op.sub = "none" THEN "StorageStat" ELSE "StorageRead"))
    /\ op' = [op EXCEPT !.sub = IF @ = "none" THEN "stat" ELSE "read",
                        !.phase = IF op.sub = "stat" THEN "started" ELSE @]

NextOfOthers ==
    /\ requests' = Append(requests, Request(op.class.asks, <<>>, FALSE))
    /\ op' = [op EXCEPT !.phase = "started"]

(* One round of the loop in writeToPort(), which goes on while there is more *)
(* data.  When the buffer of the port is full the loop is left.              *)
WriteToPort ==
    /\ op.phase = "writing"
    /\ \/ /\ \/ op.class = StorageWrite /\ NextOfWrite
             \/ op.class = StorageRead /\ NextOfRead
             \/ op.class \notin {StorageRead, StorageWrite} /\ NextOfOthers
       \/ /\ op' = [op EXCEPT !.phase = "started"]
          /\ UNCHANGED requests
    /\ UNCHANGED <<local, replies, remote, device>>

(* Which answers end the operation, rather than start its timer again.       *)
LastOfAll(response) == ~response.hasNext                                   \* mutant
IsLast(response) ==
    IF op.class = StorageRead THEN response.type = "StorageRead" /\ ~response.hasNext
    ELSE IF op.class = StorageWrite THEN response.type # "StatusPing"
    ELSE ~response.hasNext

(* feedResponse(); the local file that a read fills may refuse the data.     *)
FeedResponse(response) ==
    /\ \/ IsError(response) /\ op' = Finished("Protocol") /\ UNCHANGED local
       \/ /\ ~IsError(response)
          /\ \/ response.type \notin op.class.accepts
             \/ op.class = StorageRead /\ response.type = "StorageRead"
          /\ op' = Finished("Protocol")
          /\ UNCHANGED local
       \/ /\ ~IsError(response)
          /\ response.type \in op.class.accepts
          /\ local' = IF op.class = StorageRead THEN local \o response.data ELSE local
          /\ op' = [(IF IsLast(response) THEN Finished("none") ELSE op)
                      EXCEPT !.parts = @ + (IF response.type = op.class.answer THEN 1 ELSE 0)]

ReadyRead ==
    /\ op.phase = "started"
    /\ replies # <<>>
    /\ Decodes(Head(replies))
    /\ replies' = Tail(replies)
    /\ FeedResponse(Head(replies))
    /\ UNCHANGED <<requests, remote, device>>

(* finishLater() in encodeRequest(): nothing is waited for.                  *)
FinishLater ==
    /\ op.phase = "started"
    /\ op.class.oneWay
    /\ op' = Finished("none")
    /\ UNCHANGED <<local, requests, replies, remote, device>>

(* The timer of 30 s, started again by each answer; or the session stops.    *)
TimeoutOrAbort ==
    /\ op.phase = "started"
    /\ op' \in {Finished("Timeout"), Finished("Unknown")}
    /\ UNCHANGED <<local, requests, replies, remote, device>>

-----------------------------------------------------------------------------
(* The device *)

Reply(type, status, data, hasNext) ==
    [type |-> type, status |-> status, data |-> data, hasNext |-> hasNext]

(* Writing replaces the file, chunk after chunk, and is confirmed once.      *)
DeviceWrites(request) ==
    /\ remote' = (IF device.did = "nothing" THEN <<>> ELSE remote) \o request.data
    /\ device' = [device EXCEPT !.did = IF request.hasNext THEN "some" ELSE "all"]
    /\ replies' = IF request.hasNext THEN replies ELSE Append(replies, Reply("Empty", "ok", <<>>, FALSE))

(* Reading sends one answer per chunk, one for an empty file.                *)
DeviceReads ==
    /\ remote # NoFile
    /\ LET sent == device.parts * ChunkSize
           end == AtMost(sent + ChunkSize, Len(remote))
           hasNext == end < Len(remote) IN
       /\ replies' = Append(replies, Reply("StorageRead", "ok", SubSeq(remote, sent + 1, end), hasNext))
       /\ device' = [did |-> IF hasNext THEN "some" ELSE "all", parts |-> device.parts + 1]
    /\ UNCHANGED remote

DeviceAnswers(request) ==
    \E hasNext \in BOOLEAN :
    /\ hasNext => request.asks \in InParts /\ device.parts = 0
    /\ replies' = Append(replies, Reply(op.class.answer, "ok", <<>>, hasNext))
    /\ device' = [did |-> IF hasNext THEN "some" ELSE "all", parts |-> device.parts + 1]
    /\ UNCHANGED remote

DeviceAsides(request) ==
    /\ UNCHANGED <<remote, device>>
    /\ \/ /\ request.asks = "StatusPing"
          /\ replies' = Append(replies, Reply("StatusPing", "ok", <<>>, FALSE))
       \/ /\ request.asks = "StorageStat" /\ op.class = StorageRead
          /\ remote # NoFile
          /\ replies' = Append(replies, Reply("StorageStat", "ok", <<>>, FALSE))

(* What is refused is not done, nor is the rest of a file that is.           *)
DeviceRefuses(request) ==
    /\ \E status \in {"refused", "severe"} : replies' = Append(replies, Reply("Empty", status, <<>>, FALSE))
    /\ device' = [device EXCEPT !.did = "refused"]
    /\ UNCHANGED remote

(* A firmware that is newer than the plugin answers what that does not know. *)
DeviceIsNewer ==
    /\ op.class.answer # "Empty"
    /\ device.did = "nothing"
    /\ replies' = Append(replies, Reply("Unknown", "ok", <<>>, FALSE))
    /\ UNCHANGED <<remote, device>>

(* Requests beside the one the operation is about.                           *)
Aside(request) ==
    \/ request.asks = "StatusPing"
    \/ request.asks = "StorageStat" /\ op.class = StorageRead

Device ==
    /\ op.phase # "finished"
    /\ requests # <<>>
    /\ LET request == Head(requests)
           aside == Aside(request) IN
       IF device.did = "refused"
       THEN \/ request.asks = "StorageWrite" /\ UNCHANGED <<replies, remote, device>>
            \/ request.asks = "StatusPing" /\ DeviceAsides(request)
            \/ request.asks = "StorageRead" /\ DeviceRefuses(request)
       ELSE \/ request.asks = "StorageWrite" /\ DeviceWrites(request)
            \/ request.asks = "StorageRead" /\ DeviceReads
            \/ aside /\ DeviceAsides(request)
            \/ ~aside /\ request.asks \notin {"StorageRead", "StorageWrite"} /\ DeviceAnswers(request)
            \/ request.asks # "StatusPing" /\ DeviceRefuses(request)
            \/ ~aside /\ DeviceIsNewer
    /\ requests' = IF device'.did = "some" /\ Head(requests).asks \in InParts THEN requests ELSE Tail(requests)
    /\ UNCHANGED <<op, local>>

-----------------------------------------------------------------------------

Next == Start \/ WriteToPort \/ ReadyRead \/ FinishLater \/ TimeoutOrAbort \/ Device

Spec == Init /\ [][Next]_vars

-----------------------------------------------------------------------------
(* Properties *)

(* An operation that ends without an error has done what it was asked, if    *)
(* the device did not refuse: a written file is on the device and a read one *)
(* here, whole and in order, whatever the size and wherever the pings fall,  *)
(* every part of an answer has been taken, and no answer to an earlier part  *)
(* was taken for the last: nothing is on its way any more that the next      *)
(* operation could meet.                                                     *)
SuccessMeansDone ==
    op.phase = "finished" /\ op.error = "none" /\ ~op.class.oneWay /\ device.did # "refused" =>
      /\ device.did = "all" /\ requests = <<>> /\ replies = <<>>
      /\ op.class \in {StorageRead, StorageWrite} => local = remote
      /\ op.class # StorageWrite => op.parts = device.parts
=============================================================================
