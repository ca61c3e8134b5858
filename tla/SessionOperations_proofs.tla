--------------------------- MODULE SessionOperations_proofs ---------------------------
(***************************************************************************)
(* Theorems about what runs in a session.                                  *)
(*                                                                         *)
(* RpcOperation, for files of every size and every size of chunks,         *)
(* wherever the pings fall: an operation that succeeds has moved the whole *)
(* file, and has left nothing on its way.                                  *)
(*                                                                         *)
(* UtilityOperation, for every set of paths and every tree of files on     *)
(* either side, in whatever order their lists name them, however often an  *)
(* operation is run: its requests stay in order, nothing of it outlives    *)
(* it, it has done its work when it says so, and the manifest of the       *)
(* resources stays true.                                                   *)
(***************************************************************************)
EXTENDS RpcOperation, UtilityOperation, SequenceTheorems, FiniteSetTheorems, TLAPS

-----------------------------------------------------------------------------
(* The invariant                                                             *)

Phases == {"ready", "writing", "started", "finished"}
Errors == {"none", "Disk", "Protocol", "Timeout", "Unknown"}
Ops == [class : Classes, phase : Phases, error : Errors, sub : {"none", "stat", "read", "ping"},
        offset : Nat, chunksPerPing : Nat, chunksWritten : Nat, parts : Nat]
Asks == {class.asks : class \in Classes} \cup {"StatusPing"}
Requests == [asks : Asks, data : Seq(Nat), hasNext : BOOLEAN]
Replies == [type : ResponseTypes \cup {"Unknown"}, status : {"ok", "refused", "severe"},
            data : Seq(Nat), hasNext : BOOLEAN]
Devices == [did : {"nothing", "some", "all", "refused"}, parts : Nat]

TypeOK ==
    /\ op \in Ops
    /\ local \in Seq(Nat) /\ remote \in Seq(Nat)
    /\ requests \in Seq(Requests) /\ replies \in Seq(Replies)
    /\ device \in Devices

(* What is on its way of a file being written: each request continues where  *)
(* the one before it ends, the first where the file on the device ends, the  *)
(* last where the operation has got to.  Request i brings the bytes after    *)
(* from[i] up to from[i + 1]; a ping brings none.                            *)
Written == IF device.did = "nothing" THEN 0 ELSE Len(remote)
Ping(i, from) == requests[i].asks = "StatusPing" /\ from[i + 1] = from[i]
Chunk(i, from) ==
    /\ requests[i].asks = "StorageWrite"
    /\ from[i] <= from[i + 1]
    /\ requests[i].data = SubSeq(local, from[i] + 1, from[i + 1])
    /\ requests[i].hasNext <=> from[i + 1] < Len(local)
InLine(from) ==
    /\ from[1] = Written
    /\ from[Len(requests) + 1] = op.offset
    /\ \A i \in DOMAIN requests : Ping(i, from) \/ Chunk(i, from)

(* Only the last request says that there is no other, and it is followed by  *)
(* nothing, not even a ping.                                                 *)
LastIsLast ==
    \A i \in DOMAIN requests :
        requests[i].asks = "StorageWrite" /\ ~requests[i].hasNext =>
            i = Len(requests) /\ op.phase = "started"

WriteInv ==
    /\ op.sub \in {"none", "ping"}
    /\ \E from \in [1..Len(requests) + 1 -> 0..Len(local)] : InLine(from)
    /\ LastIsLast
    /\ device.did = "some" => remote = SubSeq(local, 1, Len(remote))
    /\ device.did = "all" => requests = <<>> /\ remote = local /\ op.phase = "started"
    /\ \A i \in DOMAIN replies :
          /\ replies[i].status = "ok" /\ replies[i].type \in {"StatusPing", "Empty"}
          /\ replies[i].type = "Empty" => i = Len(replies) /\ device.did = "all"

(* The answers on their way are the parts that the device has sent and the   *)
(* operation has not taken, behind those to other requests; the one that     *)
(* says there is no other is the last.                                       *)
Others == Len(replies) - (device.parts - op.parts)
AnswersInOrder ==
    /\ op.parts <= device.parts /\ Others >= 0
    /\ device.parts = 0 <=> device.did = "nothing"
    /\ \A i \in DOMAIN replies :
          /\ replies[i].status = "ok"
          /\ i > Others =>
                /\ replies[i].type = op.class.answer
                /\ replies[i].hasNext <=> ~(i = Len(replies) /\ device.did = "all")
          /\ i <= Others =>
                \/ replies[i].type = "Unknown"
                \/ op.class = StorageRead /\ replies[i].type = "StorageStat" /\ replies[i].data = <<>>

(* The parts of a file being read: part k is its k-th chunk.                 *)
Offset(k) == AtMost(k * ChunkSize, Len(remote))
PartsOfFile ==
    /\ device.did = "some" => Offset(device.parts) < Len(remote)
    /\ device.did = "all" => Offset(device.parts) = Len(remote)
    /\ local = SubSeq(remote, 1, Offset(op.parts))
    /\ \A i \in DOMAIN replies :
          i > Others =>
              LET k == device.parts - (Len(replies) - i) IN
              replies[i].data = SubSeq(remote, Offset(k - 1) + 1, Offset(k))

(* A read is asked for once, last, and the device does nothing before.       *)
ReadInv ==
    /\ op.sub \in {"none", "stat", "read"}
    /\ op.sub = "none" => requests = <<>>
    /\ op.phase \in {"ready", "writing"} => op.sub # "read"
    /\ \A i \in DOMAIN requests :
          /\ requests[i].asks \in {"StorageStat", "StorageRead"}
          /\ requests[i].asks = "StorageRead" => i = Len(requests) /\ op.sub = "read"
    /\ device.did \in {"some", "all"} => op.sub = "read"
    /\ device.did = "some" => Len(requests) = 1 /\ requests[1].asks = "StorageRead"
    /\ device.did = "all" => requests = <<>>
    /\ PartsOfFile

(* Any other request is the only one.                                        *)
OtherInv ==
    /\ op.phase \in {"ready", "writing"} => requests = <<>> /\ device.did = "nothing"
    /\ Len(requests) <= 1
    /\ \A i \in DOMAIN requests : requests[i].asks = op.class.asks
    /\ device.did = "all" => requests = <<>>

Underway ==
    CASE op.class = StorageWrite -> WriteInv
      [] op.class = StorageRead -> AnswersInOrder /\ ReadInv
      [] OTHER -> AnswersInOrder /\ OtherInv

RpcInv ==
    /\ TypeOK
    /\ op.phase # "finished" /\ device.did # "refused" => Underway
    /\ SuccessMeansDone

-----------------------------------------------------------------------------
(* Sequences, chunks and classes                                             *)

(* Appending an element leaves the others where they were.                   *)
LEMMA Appended ==
    ASSUME NEW S, NEW s \in Seq(S), NEW e \in S
    PROVE  /\ Append(s, e) \in Seq(S) /\ Len(Append(s, e)) = Len(s) + 1 /\ Len(s) \in Nat
           /\ DOMAIN Append(s, e) = 1..Len(s) + 1 /\ DOMAIN s = 1..Len(s)
           /\ \A i \in DOMAIN s : Append(s, e)[i] = s[i]
           /\ Append(s, e)[Len(s) + 1] = e
BY AppendProperties, LenProperties

(* Taking the first element moves the others one place down.                 *)
LEMMA Taken ==
    ASSUME NEW S, NEW s \in Seq(S), s # <<>>
    PROVE  /\ Head(s) \in S /\ Tail(s) \in Seq(S) /\ Len(s) \in Nat \ {0}
           /\ Len(Tail(s)) = Len(s) - 1 /\ Head(s) = s[1] /\ 1 \in DOMAIN s
           /\ DOMAIN s = 1..Len(s) /\ DOMAIN Tail(s) = 1..Len(s) - 1
           /\ \A i \in DOMAIN Tail(s) : Tail(s)[i] = s[i + 1] /\ i + 1 \in DOMAIN s
           /\ Len(s) = 1 => Tail(s) = <<>>
<1>1. Len(s) \in Nat \ {0} /\ DOMAIN s = 1..Len(s)
  BY LenProperties, EmptySeq
<1>2. Head(s) \in S /\ Tail(s) \in Seq(S) /\ Len(Tail(s)) = Len(s) - 1
  BY HeadTailProperties
<1>3. DOMAIN Tail(s) = 1..Len(s) - 1 /\ \A i \in 1..Len(s) - 1 : Tail(s)[i] = s[i + 1]
  BY <1>2, HeadTailProperties, LenProperties
<1>4. Len(Tail(s)) = 0 => Tail(s) = <<>>
  BY <1>2, EmptySeq
<1>5. Head(s) = s[1]
  OBVIOUS
<1> QED
  BY <1>1, <1>2, <1>3, <1>4, <1>5

(* The beginning of a sequence, and a part of it that follows.               *)
LEMMA Parts ==
    ASSUME NEW S, NEW s \in Seq(S)
    PROVE  /\ SubSeq(s, 1, 0) = <<>> /\ SubSeq(s, 1, Len(s)) = s
           /\ \A a, b \in 0..Len(s) :
                /\ SubSeq(s, a + 1, b) \in Seq(S)
                /\ a <= b => Len(SubSeq(s, a + 1, b)) = b - a
                /\ a <= b => SubSeq(s, 1, a) \o SubSeq(s, a + 1, b) = SubSeq(s, 1, b)
<1>1. Len(s) \in Nat /\ \A i \in 1..Len(s) : s[i] \in S
  BY LenProperties, ElementOfSeq
<1>2. SubSeq(s, 1, 0) = <<>>
  BY SubSeqEmpty
<1>3. SubSeq(s, 1, Len(s)) = s
  BY SubSeqFull
<1>4. ASSUME NEW a \in 0..Len(s), NEW b \in 0..Len(s)
      PROVE  /\ SubSeq(s, a + 1, b) \in Seq(S)
             /\ a <= b => Len(SubSeq(s, a + 1, b)) = b - a
             /\ a <= b => SubSeq(s, 1, a) \o SubSeq(s, a + 1, b) = SubSeq(s, 1, b)
  <2>1. a + 1 \in Int /\ b \in Int /\ \A i \in a + 1..b : s[i] \in S
    BY <1>1
  <2>2. /\ SubSeq(s, a + 1, b) \in Seq(S)
        /\ Len(SubSeq(s, a + 1, b)) = IF a + 1 <= b THEN b - (a + 1) + 1 ELSE 0
    BY <2>1, SubSeqProperties
  <2>3. ASSUME a <= b PROVE SubSeq(s, 1, a) \o SubSeq(s, a + 1, b) = SubSeq(s, 1, b)
    <3>1. 1 \in 1..Len(s) + 1 /\ a \in 1 - 1..Len(s) /\ b \in a..Len(s)
      BY <1>1, <2>3
    <3> QED
      BY <3>1, ConcatAdjacentSubSeq
  <2> QED
    BY <1>1, <2>2, <2>3
<1> QED
  BY <1>2, <1>3, <1>4

(* The smaller of two numbers.                                               *)
LEMMA AtMostFacts ==
    ASSUME NEW x \in Nat, NEW y \in Nat
    PROVE  AtMost(x, y) \in 0..x /\ AtMost(x, y) \in 0..y /\ AtMost(x, y) \in {x, y}
BY DEF AtMost

(* A chunk more.                                                             *)
LEMMA ChunkMore ==
    ASSUME NEW k \in Nat
    PROVE  /\ ChunkSize \in Nat \ {0} /\ k * ChunkSize \in Nat
           /\ (k + 1) * ChunkSize = k * ChunkSize + ChunkSize
<1>1. ChunkSize \in Nat \ {0}
  BY SizesAreSizes
<1> QED
  BY <1>1

(* Where a chunk begins, and where it ends.                                  *)
LEMMA Offsets ==
    ASSUME NEW k \in Nat, remote \in Seq(Nat)
    PROVE  /\ Offset(k) \in 0..Len(remote) /\ Offset(k + 1) \in 0..Len(remote)
           /\ Offset(k) <= Offset(k + 1)
           /\ Offset(0) = 0
           /\ Offset(k + 1) = AtMost(k * ChunkSize + ChunkSize, Len(remote))
           /\ Offset(k + 1) < Len(remote) => Offset(k) = k * ChunkSize
<1>1. Len(remote) \in Nat
  BY LenProperties
<1>2. /\ ChunkSize \in Nat \ {0} /\ k * ChunkSize \in Nat
      /\ (k + 1) * ChunkSize = k * ChunkSize + ChunkSize
  BY ChunkMore
<1>0. 0 * ChunkSize = 0
  BY <1>2
<1> DEFINE begins == k * ChunkSize  ends == (k + 1) * ChunkSize  none == 0 * ChunkSize
<1>3. begins \in Nat /\ ends = begins + ChunkSize /\ none = 0 /\ ChunkSize \in Nat
  BY <1>0, <1>2
<1>4. /\ Offset(k) = AtMost(begins, Len(remote)) /\ Offset(k + 1) = AtMost(ends, Len(remote))
      /\ Offset(0) = AtMost(none, Len(remote))
  BY DEF Offset
<1> HIDE DEF begins, ends, none
<1>5. /\ AtMost(begins, Len(remote)) \in 0..Len(remote) /\ AtMost(ends, Len(remote)) \in 0..Len(remote)
      /\ AtMost(begins, Len(remote)) <= AtMost(ends, Len(remote)) /\ AtMost(none, Len(remote)) = 0
      /\ AtMost(ends, Len(remote)) < Len(remote) => AtMost(begins, Len(remote)) = begins
  BY <1>1, <1>3 DEF AtMost
<1> QED
  BY <1>3, <1>4, <1>5 DEF begins

(* What a class asks, and what it accepts.                                   *)
LEMMA ClassFacts ==
    /\ \A c \in Classes :
          /\ c.answer \in ResponseTypes /\ c.accepts \subseteq ResponseTypes
          /\ c.answer \in c.accepts
          /\ c \notin {StorageRead, StorageWrite} => c.asks \notin {"StorageRead", "StorageWrite", "StatusPing"}
    /\ StorageRead \in Classes /\ StorageWrite \in Classes /\ StorageRead # StorageWrite
    /\ StorageStat \in Classes /\ StorageStat.asks = "StorageStat"
    /\ StorageRead.asks = "StorageRead" /\ StorageRead.answer = "StorageRead"
    /\ StorageRead.accepts = {"StorageRead", "StorageStat"} /\ ~StorageRead.oneWay
    /\ StorageWrite.asks = "StorageWrite" /\ StorageWrite.answer = "Empty"
    /\ StorageWrite.accepts = {"StatusPing", "Empty"} /\ ~StorageWrite.oneWay
    /\ "Unknown" \notin ResponseTypes
<1>0. \A asks, answer, accepts :
          LET class == Class(asks, answer, accepts) IN
          /\ class.asks = asks /\ class.answer = answer /\ class.accepts = accepts /\ class.oneWay = FALSE
          /\ FinishesLater(class).asks = asks /\ FinishesLater(class).answer = answer
          /\ FinishesLater(class).accepts = accepts
  BY DEF Class, FinishesLater
<1> USE DEF Default
<1>1. ASSUME NEW c \in Classes
      PROVE  /\ c.answer \in ResponseTypes /\ c.accepts \subseteq ResponseTypes
             /\ c.answer \in c.accepts
             /\ c \notin {StorageRead, StorageWrite} => c.asks \notin {"StorageRead", "StorageWrite", "StatusPing"}
  <2> DEFINE Good(d) ==
             /\ d.answer \in ResponseTypes /\ d.accepts \subseteq ResponseTypes
             /\ d.answer \in d.accepts
             /\ d.asks \notin {"StorageRead", "StorageWrite", "StatusPing"}
  <2>1. /\ Good(SystemReboot) /\ Good(SystemFactoryReset) /\ Good(SystemSetDateTime) /\ Good(StorageMkdir)
        /\ Good(StorageRename) /\ Good(StorageRemove) /\ Good(GuiStartScreenStream) /\ Good(GuiStopScreenStream)
        /\ Good(GuiStartVirtualDisplay) /\ Good(GuiStopVirtualDisplay) /\ Good(GuiSendInput)
        /\ Good(GuiScreenFrame)
    BY <1>0 DEF ResponseTypes, SystemReboot, SystemFactoryReset, SystemSetDateTime, StorageMkdir, StorageRename, StorageRemove,
       GuiStartScreenStream, GuiStopScreenStream, GuiStartVirtualDisplay, GuiStopVirtualDisplay,
       GuiSendInput, GuiScreenFrame
  <2>2. /\ Good(SystemDeviceInfo) /\ Good(SystemGetDateTime) /\ Good(SystemUpdate)
        /\ Good(SystemProtobufVersion) /\ Good(StorageInfo) /\ Good(StorageStat)
        /\ Good(StorageList) /\ Good(StorageMd5Sum) /\ Good(PropertyGet)
    BY <1>0 DEF ResponseTypes, SystemResponses, StorageResponses, SystemDeviceInfo, SystemGetDateTime, SystemUpdate, SystemProtobufVersion, StorageInfo, StorageStat,
       StorageList, StorageMd5Sum, PropertyGet
  <2>3. /\ StorageRead.answer \in StorageRead.accepts
        /\ StorageRead.accepts \subseteq ResponseTypes
        /\ StorageWrite.answer \in StorageWrite.accepts
        /\ StorageWrite.accepts \subseteq ResponseTypes
    BY <1>0 DEF ResponseTypes, StorageResponses, StorageRead, StorageWrite
  <2> HIDE DEF Default
  <2>4. c \in {StorageRead, StorageWrite} \/ Good(c)
    <3> HIDE DEF Good
    <3> QED
      BY <2>1, <2>2 DEF Classes
  <2> QED
    BY <2>3, <2>4
<1>2. StorageRead \in Classes /\ StorageWrite \in Classes /\ StorageStat \in Classes
  BY DEF Classes
<1>3. /\ StorageRead.asks = "StorageRead" /\ StorageRead.answer = "StorageRead"
      /\ StorageRead.accepts = {"StorageRead", "StorageStat"} /\ ~StorageRead.oneWay
      /\ StorageWrite.asks = "StorageWrite" /\ StorageWrite.answer = "Empty"
      /\ StorageWrite.accepts = {"StatusPing", "Empty"} /\ ~StorageWrite.oneWay
  BY <1>0 DEF StorageRead, StorageWrite
<1>5. StorageStat.asks = "StorageStat"
  BY <1>0 DEF StorageStat
<1>4. "Unknown" \notin ResponseTypes
  BY DEF ResponseTypes, SystemResponses, StorageResponses
<1> QED
  BY <1>1, <1>2, <1>3, <1>4, <1>5

-----------------------------------------------------------------------------
(* Types                                                                     *)

(* Any part of a sequence, also one that begins behind its end.              *)
LEMMA PartType ==
    ASSUME NEW S, NEW s \in Seq(S), NEW a \in Nat, NEW b \in 0..Len(s)
    PROVE  SubSeq(s, a + 1, b) \in Seq(S)
<1>1. Len(s) \in Nat /\ \A i \in 1..Len(s) : s[i] \in S
  BY LenProperties, ElementOfSeq
<1>2. a + 1 \in Int /\ b \in Int /\ \A i \in a + 1..b : s[i] \in S
  BY <1>1
<1> QED
  BY <1>2, SubSeqProperties

(* The chunks between two pings are a number.                                *)
LEMMA PingCount ==
    ASSUME NEW n \in Nat
    PROVE  ChunksPerPing(n) \in Nat
<1> DEFINE part == ChunkSize * PingsPerFile
<1>1. ChunkSize \in Nat \ {0} /\ PingsPerFile \in Nat \ {0} /\ PingCap \in Nat
  BY SizesAreSizes
<1>2. part \in Nat \ {0}
  BY <1>1
<1>3. ChunksPerPing(n) = IF n >= part THEN AtMost(n \div part, PingCap) ELSE 0
  BY DEF ChunksPerPing
<1> HIDE DEF part
<1>4. n \div part \in Nat
  BY <1>2
<1> QED
  BY <1>1, <1>3, <1>4, AtMostFacts

(* The types of the operation's fields.                                      *)
LEMMA OpTypes ==
    ASSUME TypeOK
    PROVE  /\ op.class \in Classes /\ op.phase \in Phases /\ op.error \in Errors
           /\ op.sub \in {"none", "stat", "read", "ping"}
           /\ op.offset \in Nat /\ op.chunksPerPing \in Nat /\ op.chunksWritten \in Nat /\ op.parts \in Nat
           /\ \A error \in Errors :
                /\ Finished(error) \in Ops
                /\ Finished(error).class = op.class /\ Finished(error).phase = "finished"
                /\ Finished(error).error = error /\ Finished(error).parts = op.parts
BY DEF TypeOK, Ops, Finished, Phases

(* start() keeps the types.                                                  *)
LEMMA StartTypes == ASSUME TypeOK, Start PROVE TypeOK'
<1>1. Len(local) \in Nat
  BY LenProperties DEF TypeOK
<1>2. "Disk" \in Errors /\ ChunksPerPing(Len(local)) \in Nat
  BY <1>1, PingCount DEF Errors
<1> DEFINE count == IF op.class = StorageWrite THEN ChunksPerPing(Len(local)) ELSE 0
<1>3. count \in Nat
  BY <1>2
<1>4. op' = Finished("Disk") \/ op' = [op EXCEPT !.phase = "writing", !.chunksPerPing = count]
  BY DEF Start
<1> HIDE DEF count
<1>5. ASSUME op' = Finished("Disk") PROVE op' \in Ops
  BY <1>2, <1>5, OpTypes
<1>6. ASSUME op' = [op EXCEPT !.phase = "writing", !.chunksPerPing = count] PROVE op' \in Ops
  BY <1>3, <1>6 DEF TypeOK, Ops, Phases
<1>7. op' \in Ops
  BY <1>4, <1>5, <1>6
<1> QED
  BY <1>7 DEF Start, TypeOK

(* Where the next chunk of a write ends.                                     *)
ChunkEnd == AtMost(op.offset + ChunkSize, Len(local))

(* The next message of a write, its types and the rest of the operation.     *)
LEMMA NextOfWriteTypes ==
    ASSUME TypeOK, NextOfWrite
    PROVE  /\ op' \in Ops /\ requests' \in Seq(Requests)
           /\ PingRequest \in Requests
           /\ \A more \in BOOLEAN : WriteRequest(SubSeq(local, op.offset + 1, ChunkEnd), more) \in Requests
           /\ ChunkEnd \in 0..Len(local)
<1>1. Len(local) \in Nat /\ op.offset + ChunkSize \in Nat
  BY LenProperties, SizesAreSizes, OpTypes DEF TypeOK
<1>2. ChunkEnd \in 0..Len(local) /\ ChunkEnd \in Nat
  BY <1>1, AtMostFacts DEF ChunkEnd
<1>3. SubSeq(local, op.offset + 1, ChunkEnd) \in Seq(Nat)
  BY <1>2, OpTypes, PartType DEF TypeOK
<1>4. "StorageWrite" \in Asks /\ "StatusPing" \in Asks /\ <<>> \in Seq(Nat)
  BY ClassFacts, EmptySeq DEF Asks
<1>5. /\ PingRequest \in Requests
      /\ \A more \in BOOLEAN : WriteRequest(SubSeq(local, op.offset + 1, ChunkEnd), more) \in Requests
  BY <1>3, <1>4 DEF PingRequest, WriteRequest, Request, Requests
<1>6. requests' \in Seq(Requests)
  <2>1. CASE op.sub = "ping"
    <3>1. requests' = Append(requests, PingRequest)
      BY <2>1 DEF NextOfWrite
    <3> QED
      BY <1>5, <3>1, Appended DEF TypeOK
  <2>2. CASE op.sub # "ping"
    <3>1. requests' = Append(requests, WriteRequest(SubSeq(local, op.offset + 1, ChunkEnd), ChunkEnd < Len(local)))
      BY <2>2 DEF NextOfWrite, ChunkEnd
    <3>2. (ChunkEnd < Len(local)) \in BOOLEAN
      OBVIOUS
    <3> QED
      BY <1>5, <3>1, <3>2, Appended DEF TypeOK
  <2> QED
    BY <2>1, <2>2
<1>7. op' \in Ops
  <2>1. CASE op.sub = "ping"
    BY <2>1 DEF NextOfWrite, TypeOK, Ops
  <2>2. CASE op.sub # "ping"
    <3>1. op' = [op EXCEPT !.offset = ChunkEnd,
                    !.chunksWritten = IF op.chunksWritten + 1 = op.chunksPerPing THEN 0 ELSE op.chunksWritten + 1,
                    !.sub = IF op.chunksWritten + 1 = op.chunksPerPing THEN "ping" ELSE op.sub,
                    !.phase = IF ChunkEnd < Len(local) THEN op.phase ELSE "started"]
      BY <2>2 DEF NextOfWrite, ChunkEnd
    <3> DEFINE count == IF op.chunksWritten + 1 = op.chunksPerPing THEN 0 ELSE op.chunksWritten + 1
               sub == IF op.chunksWritten + 1 = op.chunksPerPing THEN "ping" ELSE op.sub
               phase == IF ChunkEnd < Len(local) THEN op.phase ELSE "started"
    <3>2. count \in Nat /\ sub \in {"none", "stat", "read", "ping"} /\ phase \in Phases
      BY OpTypes DEF Phases
    <3>3. op' = [op EXCEPT !.offset = ChunkEnd, !.chunksWritten = count, !.sub = sub, !.phase = phase]
      BY <3>1
    <3> HIDE DEF count, sub, phase
    <3> QED
      BY <1>2, <3>2, <3>3 DEF TypeOK, Ops
  <2> QED
    BY <2>1, <2>2
<1> QED
  BY <1>2, <1>5, <1>6, <1>7

(* writeToPort() keeps the types.                                            *)
LEMMA WriteToPortTypes == ASSUME TypeOK, WriteToPort PROVE TypeOK'
<1>1. ASSUME NextOfWrite PROVE op' \in Ops /\ requests' \in Seq(Requests)
  BY <1>1, NextOfWriteTypes
<1>2. ASSUME NextOfRead PROVE op' \in Ops /\ requests' \in Seq(Requests)
  <2>1. \A asks \in {"StorageStat", "StorageRead"} : StorageRequest(asks) \in Requests
    BY ClassFacts, EmptySeq DEF StorageRequest, Request, Requests, Asks
  <2>2. requests' \in Seq(Requests)
    BY <1>2, <2>1, Appended DEF NextOfRead, TypeOK
  <2>3. op' \in Ops
    BY <1>2 DEF NextOfRead, TypeOK, Ops, Phases
  <2> QED
    BY <2>2, <2>3
<1>3. ASSUME NextOfOthers PROVE op' \in Ops /\ requests' \in Seq(Requests)
  <2>1. Request(op.class.asks, <<>>, FALSE) \in Requests
    BY OpTypes, EmptySeq DEF Request, Requests, Asks
  <2>2. requests' \in Seq(Requests)
    BY <1>3, <2>1, Appended DEF NextOfOthers, TypeOK
  <2>3. op' \in Ops
    BY <1>3 DEF NextOfOthers, TypeOK, Ops, Phases
  <2> QED
    BY <2>2, <2>3
<1>4. CASE op' = [op EXCEPT !.phase = "started"] /\ UNCHANGED requests
  BY <1>4 DEF WriteToPort, TypeOK, Ops, Phases
<1> QED
  BY <1>1, <1>2, <1>3, <1>4 DEF WriteToPort, TypeOK

(* An answer is taken: the operation ends when it is the last.               *)
Taking(r) ==
    /\ r.status # "severe" /\ r.type \in op.class.accepts
    /\ op'.sub = op.sub /\ op'.offset = op.offset
    /\ op'.parts = op.parts + (IF r.type = op.class.answer THEN 1 ELSE 0)
    /\ IF IsLast(r) THEN op'.phase = "finished" /\ op'.error = "none"
       ELSE op'.phase = op.phase /\ op'.error = op.error
    /\ local' = IF op.class = StorageRead THEN local \o r.data ELSE local

(* What feedResponse() makes of the operation: it fails, and leaves the file *)
(* alone, or takes the answer.                                               *)
LEMMA FeedResponseTakes ==
    ASSUME TypeOK, NEW r \in Replies, FeedResponse(r)
    PROVE  /\ op' \in Ops /\ local' \in Seq(Nat) /\ op'.class = op.class
           /\ \/ Taking(r)
              \/ op'.phase = "finished" /\ op'.error = "Protocol"
<1>1. CASE op' = Finished("Protocol") /\ UNCHANGED local
  BY <1>1, OpTypes DEF TypeOK, Errors
<1>2. CASE /\ ~IsError(r) /\ r.type \in op.class.accepts
           /\ local' = IF op.class = StorageRead THEN local \o r.data ELSE local
           /\ op' = [(IF IsLast(r) THEN Finished("none") ELSE op)
                       EXCEPT !.parts = @ + (IF r.type = op.class.answer THEN 1 ELSE 0)]
  <2> DEFINE kept == IF IsLast(r) THEN Finished("none") ELSE op
             part == IF r.type = op.class.answer THEN 1 ELSE 0
  <2>1. /\ kept \in Ops /\ kept.class = op.class /\ kept.parts = op.parts
        /\ kept.sub = op.sub /\ kept.offset = op.offset
        /\ IF IsLast(r) THEN kept.phase = "finished" /\ kept.error = "none"
           ELSE kept.phase = op.phase /\ kept.error = op.error
    BY OpTypes DEF Errors, TypeOK, Finished, Ops
  <2>2. part \in {0, 1}
    OBVIOUS
  <2>3. op' = [kept EXCEPT !.parts = kept.parts + part]
    BY <1>2
  <2>4. local' \in Seq(Nat)
    <3>1. r.data \in Seq(Nat) /\ local \in Seq(Nat)
      BY DEF TypeOK, Replies
    <3> QED
      BY <1>2, <3>1, ConcatProperties
  <2>5. r.status # "severe" /\ r.type \in op.class.accepts
    BY <1>2 DEF IsError
  <2> HIDE DEF kept
  <2>6. /\ op' \in Ops /\ op'.class = op.class /\ op'.parts = op.parts + part
        /\ op'.sub = op.sub /\ op'.offset = op.offset
        /\ op'.phase = kept.phase /\ op'.error = kept.error
    BY <2>1, <2>2, <2>3 DEF Ops
  <2>7. Taking(r)
    <3>1. IF IsLast(r) THEN op'.phase = "finished" /\ op'.error = "none"
          ELSE op'.phase = op.phase /\ op'.error = op.error
      BY <2>1, <2>6
    <3> QED
      BY <1>2, <2>5, <2>6, <3>1 DEF Taking
  <2> QED
    BY <2>4, <2>6, <2>7
<1> QED
  BY <1>1, <1>2 DEF FeedResponse

(* onSerialPortReadyRead() keeps the types.                                  *)
LEMMA ReadyReadTypes == ASSUME TypeOK, ReadyRead PROVE TypeOK'
<1>1. Head(replies) \in Replies /\ replies' \in Seq(Replies)
  BY Taken DEF TypeOK, ReadyRead
<1>2. op' \in Ops /\ local' \in Seq(Nat)
  BY <1>1, FeedResponseTakes DEF ReadyRead
<1> QED
  BY <1>1, <1>2 DEF TypeOK, ReadyRead

(* The part of a file that is due.                                           *)
NextPart == SubSeq(remote, device.parts * ChunkSize + 1, Offset(device.parts + 1))

(* What the device sends next of a file.                                     *)
LEMMA DeviceReadsPart ==
    ASSUME TypeOK, DeviceReads
    PROVE  /\ NextPart \in Seq(Nat)
           /\ replies' = Append(replies, Reply("StorageRead", "ok", NextPart, Offset(device.parts + 1) < Len(remote)))
           /\ device' = [did |-> IF Offset(device.parts + 1) < Len(remote) THEN "some" ELSE "all",
                         parts |-> device.parts + 1]
           /\ remote # NoFile /\ UNCHANGED remote
<1>1. device.parts \in Nat /\ remote \in Seq(Nat)
  BY DEF TypeOK, Devices
<1>2. /\ Offset(device.parts + 1) = AtMost(device.parts * ChunkSize + ChunkSize, Len(remote))
      /\ Offset(device.parts + 1) \in 0..Len(remote)
  BY <1>1, Offsets
<1>3. device.parts * ChunkSize \in Nat
  BY <1>1, ChunkMore
<1>4. NextPart \in Seq(Nat)
  BY <1>1, <1>2, <1>3, PartType DEF NextPart
<1> QED
  BY <1>2, <1>4 DEF DeviceReads, NextPart

(* Whatever the device does with a request, it appends at most one answer,   *)
(* and keeps the types.                                                      *)
LEMMA DeviceTypes == ASSUME TypeOK, Device PROVE TypeOK'
<1> DEFINE request == Head(requests)
<1>1. request \in Requests /\ Tail(requests) \in Seq(Requests)
  BY Taken DEF TypeOK, Device
<1>2. requests' \in Seq(Requests) /\ UNCHANGED <<op, local>>
  BY <1>1 DEF Device, TypeOK
<1>3. \/ UNCHANGED <<replies, remote, device>> \/ DeviceWrites(request) \/ DeviceReads
      \/ DeviceAsides(request) \/ DeviceAnswers(request) \/ DeviceRefuses(request) \/ DeviceIsNewer
  BY DEF Device
<1> HIDE DEF request
<1>4. /\ \A status \in {"ok", "refused", "severe"}, more \in BOOLEAN, type \in ResponseTypes \cup {"Unknown"},
             data \in Seq(Nat) :
             Reply(type, status, data, more) \in Replies
      /\ \A type \in {"StatusPing", "Empty", "StorageStat", "StorageRead", op.class.answer} : type \in ResponseTypes
      /\ <<>> \in Seq(Nat)
  BY OpTypes, ClassFacts, EmptySeq DEF Reply, Replies, ResponseTypes, StorageResponses
<1>5. \A reply \in Replies : Append(replies, reply) \in Seq(Replies)
  BY Appended DEF TypeOK
<1>6. device \in Devices /\ remote \in Seq(Nat) /\ replies \in Seq(Replies)
  BY DEF TypeOK
<1>7. replies' \in Seq(Replies) /\ device' \in Devices /\ remote' \in Seq(Nat)
  <2>1. CASE DeviceWrites(request)
    <3>1. request.data \in Seq(Nat) /\ request.hasNext \in BOOLEAN
      BY <1>1 DEF Requests
    <3>2. remote' \in Seq(Nat)
      BY <1>4, <1>6, <2>1, <3>1, ConcatProperties DEF DeviceWrites
    <3>3. device' \in Devices
      BY <1>6, <2>1 DEF DeviceWrites, Devices
    <3>4. replies' \in Seq(Replies)
      BY <1>4, <1>5, <1>6, <2>1 DEF DeviceWrites
    <3> QED
      BY <3>2, <3>3, <3>4
  <2>2. CASE DeviceReads
    <3>1. (Offset(device.parts + 1) < Len(remote)) \in BOOLEAN
      OBVIOUS
    <3>2. replies' \in Seq(Replies)
      BY <1>4, <1>5, <2>2, <3>1, DeviceReadsPart
    <3>3. device' \in Devices /\ remote' \in Seq(Nat)
      BY <1>6, <2>2, DeviceReadsPart DEF Devices
    <3> QED
      BY <3>2, <3>3
  <2>3. CASE DeviceAsides(request)
    BY <1>4, <1>5, <1>6, <2>3 DEF DeviceAsides
  <2>4. CASE DeviceAnswers(request)
    <3>1. PICK more \in BOOLEAN :
             /\ replies' = Append(replies, Reply(op.class.answer, "ok", <<>>, more))
             /\ device' = [did |-> IF more THEN "some" ELSE "all", parts |-> device.parts + 1]
      BY <2>4 DEF DeviceAnswers
    <3>2. device' \in Devices /\ UNCHANGED remote
      BY <1>6, <2>4, <3>1 DEF Devices, DeviceAnswers
    <3> QED
      BY <1>4, <1>5, <1>6, <3>1, <3>2
  <2>5. CASE DeviceRefuses(request)
    BY <1>4, <1>5, <1>6, <2>5 DEF DeviceRefuses, Devices
  <2>6. CASE DeviceIsNewer
    BY <1>4, <1>5, <1>6, <2>6 DEF DeviceIsNewer
  <2> QED
    BY <1>3, <1>6, <2>1, <2>2, <2>3, <2>4, <2>5, <2>6
<1> QED
  BY <1>2, <1>7 DEF TypeOK

-----------------------------------------------------------------------------
(* A file being written                                                      *)

(* One more request in line, which continues where the operation had got to. *)
LEMMA LineGrows ==
    ASSUME TypeOK, NEW from \in [1..Len(requests) + 1 -> 0..Len(local)], InLine(from),
           NEW r \in Requests, requests' = Append(requests, r), UNCHANGED <<local, remote, device>>,
           NEW offset \in op.offset..Len(local), op'.offset = offset,
           \/ r.asks = "StatusPing" /\ offset = op.offset
           \/ /\ r.asks = "StorageWrite"
              /\ r.data = SubSeq(local, op.offset + 1, offset)
              /\ r.hasNext <=> offset < Len(local)
    PROVE  \E next \in [1..Len(requests') + 1 -> 0..Len(local')] : InLine(next)'
<1> DEFINE n == Len(requests)
<1>1. /\ n \in Nat /\ Len(local) \in Nat /\ DOMAIN requests = 1..n
      /\ Len(requests') = n + 1 /\ DOMAIN requests' = 1..n + 1
      /\ \A i \in 1..n : requests'[i] = requests[i]
      /\ requests'[n + 1] = r
  BY Appended, LenProperties DEF TypeOK
<1>2. PICK next : next = [i \in 1..n + 2 |-> IF i <= n + 1 THEN from[i] ELSE offset]
  OBVIOUS
<1>3. op.offset \in Nat /\ from[1] = Written /\ from[n + 1] = op.offset
  BY OpTypes DEF InLine
<1>4. next \in [1..Len(requests') + 1 -> 0..Len(local')]
  BY <1>1, <1>2, <1>3
<1>5. next[1] = Written' /\ next[Len(requests') + 1] = op'.offset
  BY <1>1, <1>2, <1>3 DEF Written
<1>6. ASSUME NEW i \in 1..n + 1 PROVE Ping(i, next)' \/ Chunk(i, next)'
  <2>1. CASE i <= n
    <3>1. /\ i \in DOMAIN requests /\ requests'[i] = requests[i]
          /\ next[i] = from[i] /\ next[i + 1] = from[i + 1]
      BY <1>1, <1>2, <2>1
    <3>2. Ping(i, from) \/ Chunk(i, from)
      BY <3>1 DEF InLine
    <3> QED
      BY <3>1, <3>2 DEF Ping, Chunk
  <2>2. CASE i = n + 1
    <3>1. requests'[i] = r /\ next[i] = op.offset /\ next[i + 1] = offset
      BY <1>1, <1>2, <1>3, <2>2
    <3> QED
      BY <1>3, <3>1 DEF Ping, Chunk
  <2> QED
    BY <1>1, <2>1, <2>2
<1> HIDE DEF n
<1>7. InLine(next)'
  BY <1>1, <1>5, <1>6 DEF InLine
<1> QED
  BY <1>4, <1>7

(* The first request has been dealt with.                                    *)
LEMMA LineShrinks ==
    ASSUME TypeOK, NEW from \in [1..Len(requests) + 1 -> 0..Len(local)], InLine(from),
           requests # <<>>, requests' = Tail(requests), UNCHANGED <<local, op>>,
           Written' = from[2]
    PROVE  \E next \in [1..Len(requests') + 1 -> 0..Len(local')] : InLine(next)'
<1> DEFINE n == Len(requests)
<1>1. /\ n \in Nat \ {0} /\ Len(local) \in Nat /\ DOMAIN requests = 1..n
      /\ Len(requests') = n - 1 /\ DOMAIN requests' = 1..n - 1
      /\ \A i \in 1..n - 1 : requests'[i] = requests[i + 1]
  BY Taken, LenProperties DEF TypeOK
<1>2. PICK next : next = [i \in 1..n |-> from[i + 1]]
  OBVIOUS
<1>3. from[n + 1] = op.offset
  BY DEF InLine
<1>4. next \in [1..Len(requests') + 1 -> 0..Len(local')]
  BY <1>1, <1>2
<1>5. next[1] = Written' /\ next[Len(requests') + 1] = op'.offset
  BY <1>1, <1>2, <1>3
<1>6. ASSUME NEW i \in 1..n - 1 PROVE Ping(i, next)' \/ Chunk(i, next)'
  <2>1. /\ i + 1 \in DOMAIN requests /\ requests'[i] = requests[i + 1]
        /\ next[i] = from[i + 1] /\ next[i + 1] = from[i + 1 + 1]
    BY <1>1, <1>2
  <2>2. Ping(i + 1, from) \/ Chunk(i + 1, from)
    BY <2>1 DEF InLine
  <2> QED
    BY <2>1, <2>2 DEF Ping, Chunk
<1> HIDE DEF n
<1>7. InLine(next)'
  BY <1>1, <1>5, <1>6 DEF InLine
<1> QED
  BY <1>4, <1>7

(* Nothing moves.                                                            *)
LEMMA LineStays ==
    ASSUME WriteInv, UNCHANGED <<local, remote, device, requests>>, op'.offset = op.offset
    PROVE  \E next \in [1..Len(requests') + 1 -> 0..Len(local')] : InLine(next)'
<1>1. PICK from \in [1..Len(requests) + 1 -> 0..Len(local)] : InLine(from)
  BY DEF WriteInv
<1>2. InLine(from)'
  BY <1>1 DEF InLine, Ping, Chunk, Written
<1> QED
  BY <1>1, <1>2

(* What is sent of a file, a chunk or a ping, keeps it in line.              *)
LEMMA WriteSends ==
    ASSUME TypeOK, op.phase = "writing", WriteInv, NextOfWrite, UNCHANGED <<local, replies, remote, device>>
    PROVE  WriteInv'
<1>1. PICK from \in [1..Len(requests) + 1 -> 0..Len(local)] : InLine(from)
  BY DEF WriteInv
<1>2. /\ Len(requests) \in Nat /\ Len(local) \in Nat /\ op.offset \in Nat /\ op.offset <= Len(local)
      /\ DOMAIN requests = 1..Len(requests)
  BY SMTT(20), ZenonT(30), <1>1, OpTypes, LenProperties DEF InLine, TypeOK
<1>3. \A i \in DOMAIN requests : ~(requests[i].asks = "StorageWrite" /\ ~requests[i].hasNext)
  BY DEF WriteInv, LastIsLast
<1>4. device.did # "all"
  BY DEF WriteInv
<1>5. /\ PingRequest \in Requests /\ ChunkEnd \in 0..Len(local)
      /\ \A more \in BOOLEAN : WriteRequest(SubSeq(local, op.offset + 1, ChunkEnd), more) \in Requests
  BY NextOfWriteTypes
<1>6. CASE op.sub = "ping"
  <2>1. /\ requests' = Append(requests, PingRequest)
        /\ op'.offset = op.offset /\ op'.sub = "none" /\ op'.phase = op.phase
    BY <1>6 DEF NextOfWrite, TypeOK, Ops
  <2>2. PingRequest.asks = "StatusPing"
    BY DEF PingRequest, Request
  <2>3. \E next \in [1..Len(requests') + 1 -> 0..Len(local')] : InLine(next)'
    BY <1>1, <1>2, <1>5, <2>1, <2>2, LineGrows
  <2>4. LastIsLast'
    BY <1>2, <1>3, <1>5, <2>1, <2>2, Appended DEF LastIsLast, TypeOK
  <2> QED
    BY <1>4, <2>1, <2>3, <2>4 DEF WriteInv
<1>7. CASE op.sub # "ping"
  <2> DEFINE more == ChunkEnd < Len(local)
             r == WriteRequest(SubSeq(local, op.offset + 1, ChunkEnd), more)
  <2>1. /\ requests' = Append(requests, r) /\ op'.offset = ChunkEnd /\ op'.sub \in {"none", "ping"}
        /\ op'.phase = IF more THEN op.phase ELSE "started"
    BY <1>7 DEF NextOfWrite, TypeOK, Ops, ChunkEnd, WriteInv
  <2>2. /\ r \in Requests /\ r.asks = "StorageWrite" /\ r.data = SubSeq(local, op.offset + 1, ChunkEnd)
        /\ r.hasNext = more
    <3>1. more \in BOOLEAN
      OBVIOUS
    <3> QED
      BY <1>5, <3>1 DEF WriteRequest, Request
  <2>3. ChunkEnd \in op.offset..Len(local)
    <3>1. op.offset + ChunkSize \in Nat /\ ChunkSize \in Nat
      BY <1>2, SizesAreSizes
    <3> QED
      BY <1>2, <3>1 DEF ChunkEnd, AtMost
  <2> HIDE DEF r
  <2>4. \E next \in [1..Len(requests') + 1 -> 0..Len(local')] : InLine(next)'
    BY <1>1, <1>2, <2>1, <2>2, <2>3, LineGrows
  <2>5. LastIsLast'
    <3>1. /\ DOMAIN requests' = 1..Len(requests) + 1 /\ Len(requests') = Len(requests) + 1
          /\ \A i \in DOMAIN requests : requests'[i] = requests[i]
          /\ requests'[Len(requests) + 1] = r
      BY <2>1, <2>2, Appended DEF TypeOK
    <3>2. ~r.hasNext => op'.phase = "started"
      BY <2>1, <2>2
    <3>3. ASSUME NEW i \in DOMAIN requests', requests'[i].asks = "StorageWrite", ~requests'[i].hasNext
          PROVE  i = Len(requests) + 1
      BY <1>2, <1>3, <3>1, <3>3
    <3> QED
      BY <3>1, <3>2, <3>3 DEF LastIsLast
  <2> QED
    BY <1>4, <2>1, <2>4, <2>5 DEF WriteInv
<1> QED
  BY <1>6, <1>7

(* The device takes a chunk, or answers a ping.                              *)
LEMMA WriteDevice ==
    ASSUME TypeOK, op.class = StorageWrite, WriteInv, Device, device'.did # "refused", device.did # "refused"
    PROVE  WriteInv'
<1> DEFINE request == Head(requests)
<1>1. PICK from \in [1..Len(requests) + 1 -> 0..Len(local)] : InLine(from)
  BY DEF WriteInv
<1>2. /\ Len(requests) \in Nat \ {0} /\ Len(local) \in Nat /\ requests # <<>>
      /\ request \in Requests /\ Tail(requests) \in Seq(Requests)
      /\ DOMAIN requests = 1..Len(requests) /\ request = requests[1] /\ 1 \in DOMAIN requests
      /\ Len(Tail(requests)) = Len(requests) - 1 /\ DOMAIN Tail(requests) = 1..Len(requests) - 1
      /\ \A i \in DOMAIN Tail(requests) : Tail(requests)[i] = requests[i + 1]
      /\ Len(requests) = 1 => Tail(requests) = <<>>
  BY Taken, LenProperties DEF TypeOK, Device
<1>3. device.did \in {"nothing", "some"} /\ device \in Devices
  BY <1>2 DEF WriteInv, TypeOK, Devices
<1>4. Ping(1, from) \/ Chunk(1, from)
  BY <1>1, <1>2 DEF InLine
<1>5. from[1] = Written /\ from[1] \in 0..Len(local) /\ from[2] \in 0..Len(local)
  BY <1>1, <1>2 DEF InLine
<1>6. request.asks \in {"StatusPing", "StorageWrite"}
  BY <1>2, <1>4 DEF Ping, Chunk
<1>7. requests' = Tail(requests) /\ UNCHANGED <<op, local>>
  BY <1>6 DEF Device, InParts
<1>8. LastIsLast'
  BY <1>2, <1>7 DEF WriteInv, LastIsLast
<1>9. op.class.answer = "Empty" /\ op.class # StorageRead
  BY ClassFacts
<1>10. replies \in Seq(Replies) /\ Len(replies) \in Nat /\ DOMAIN replies = 1..Len(replies)
  BY LenProperties DEF TypeOK
<1>11. \A i \in DOMAIN replies : replies[i].status = "ok" /\ replies[i].type = "StatusPing"
  BY <1>3 DEF WriteInv
<1>12. \A type \in {"StatusPing", "Empty"} : Reply(type, "ok", <<>>, FALSE) \in Replies
  BY EmptySeq DEF Reply, Replies, ResponseTypes
<1>13. op.sub \in {"none", "ping"}
  BY DEF WriteInv
<1>14. CASE request.asks = "StatusPing"
  <2>1. /\ UNCHANGED <<remote, device>>
        /\ replies' = Append(replies, Reply("StatusPing", "ok", <<>>, FALSE))
    BY <1>9, <1>14 DEF Device, DeviceAsides, Aside
  <2>2. from[2] = from[1]
    BY <1>2, <1>4, <1>14 DEF Ping, Chunk
  <2>3. \E next \in [1..Len(requests') + 1 -> 0..Len(local')] : InLine(next)'
    BY <1>1, <1>2, <1>5, <1>7, <2>1, <2>2, LineShrinks DEF Written
  <2>4. \A i \in DOMAIN replies' : replies'[i].status = "ok" /\ replies'[i].type = "StatusPing"
    BY <1>10, <1>11, <1>12, <2>1, Appended DEF Reply
  <2> QED
    BY <1>3, <1>7, <1>8, <1>13, <2>1, <2>3, <2>4 DEF WriteInv
<1>15. CASE request.asks = "StorageWrite"
  <2>1. DeviceWrites(request)
    <3>1. device'.did = "refused" \/ DeviceWrites(request)
      BY <1>3, <1>9, <1>15 DEF Device, Aside, DeviceRefuses, DeviceIsNewer, Devices
    <3> QED
      BY <3>1
  <2>2. /\ request.hasNext \in BOOLEAN
        /\ from[1] <= from[2] /\ request.data = SubSeq(local, from[1] + 1, from[2])
        /\ request.hasNext <=> from[2] < Len(local)
    BY <1>2, <1>4, <1>15 DEF Chunk, Ping, Requests
  <2>3. /\ device'.did = IF request.hasNext THEN "some" ELSE "all"
        /\ replies' = IF request.hasNext THEN replies ELSE Append(replies, Reply("Empty", "ok", <<>>, FALSE))
    BY <1>3, <2>1 DEF DeviceWrites, Devices
  <2>4. remote' = SubSeq(local, 1, from[2])
    <3>1. (IF device.did = "nothing" THEN <<>> ELSE remote) = SubSeq(local, 1, from[1])
      <4>1. CASE device.did = "nothing"
        <5>1. from[1] = 0
          BY <1>5, <4>1 DEF Written
        <5> QED
          BY <4>1, <5>1, SubSeqEmpty
      <4>2. CASE device.did = "some"
        BY <1>5, <4>2 DEF WriteInv, Written
      <4> QED
        BY <1>3, <4>1, <4>2
    <3>2. SubSeq(local, 1, from[1]) \o SubSeq(local, from[1] + 1, from[2]) = SubSeq(local, 1, from[2])
      <4>1. local \in Seq(Nat)
        BY DEF TypeOK
      <4>2. \A a, b \in 0..Len(local) :
               a <= b => SubSeq(local, 1, a) \o SubSeq(local, a + 1, b) = SubSeq(local, 1, b)
        BY <4>1, Parts
      <4> QED
        BY <1>5, <2>2, <4>2
    <3> QED
      BY <2>1, <2>2, <3>1, <3>2 DEF DeviceWrites
  <2>5. Len(remote') = from[2]
    <3>1. 0 \in 0..Len(local) /\ 0 <= from[2] /\ from[2] - 0 = from[2] /\ 0 + 1 = 1
      BY <1>2, <1>5
    <3>2. Len(SubSeq(local, 0 + 1, from[2])) = from[2] - 0
      BY <1>5, <3>1, Parts DEF TypeOK
    <3> QED
      BY <2>4, <3>1, <3>2
  <2>6. Written' = from[2]
    BY <2>3, <2>5 DEF Written
  <2>7. \E next \in [1..Len(requests') + 1 -> 0..Len(local')] : InLine(next)'
    BY <1>1, <1>2, <1>7, <2>6, LineShrinks
  <2>8. CASE request.hasNext
    BY <1>3, <1>7, <1>8, <1>11, <1>13, <2>3, <2>4, <2>5, <2>7, <2>8 DEF WriteInv
  <2>9. CASE ~request.hasNext
    <3>1. Len(requests) = 1 /\ op.phase = "started" /\ requests' = <<>>
      BY <1>2, <1>7, <1>15, <2>9 DEF WriteInv, LastIsLast
    <3>2. from[2] = Len(local)
      BY <1>2, <1>5, <2>2, <2>9
    <3>3. remote' = local'
      BY <1>7, <2>4, <3>2, Parts DEF TypeOK
    <3>4. device'.did = "all"
      BY <2>3, <2>9
    <3>5. \A i \in DOMAIN replies' :
             /\ replies'[i].status = "ok" /\ replies'[i].type \in {"StatusPing", "Empty"}
             /\ replies'[i].type = "Empty" => i = Len(replies')
      <4>1. replies' = Append(replies, Reply("Empty", "ok", <<>>, FALSE))
        BY <2>3, <2>9
      <4> QED
        BY <1>10, <1>11, <1>12, <4>1, Appended DEF Reply
    <3> QED
      BY <1>7, <1>8, <1>13, <2>7, <3>1, <3>3, <3>4, <3>5 DEF WriteInv
  <2> QED
    BY <2>2, <2>8, <2>9
<1> QED
  BY <1>6, <1>14, <1>15

(* The answer that ends a write is the last, to a file that is there whole.  *)
LEMMA WriteReads ==
    ASSUME TypeOK, op.class = StorageWrite, WriteInv, ReadyRead, op'.phase # "finished" \/ op'.error = "none"
    PROVE  IF op'.phase = "finished" THEN SuccessMeansDone' ELSE WriteInv'
<1> DEFINE r == Head(replies)
<1>1. /\ r \in Replies /\ replies' = Tail(replies) /\ r = replies[1] /\ 1 \in DOMAIN replies
      /\ Len(replies) \in Nat \ {0} /\ Len(replies') = Len(replies) - 1 /\ DOMAIN replies' = 1..Len(replies) - 1
      /\ \A i \in DOMAIN replies' : replies'[i] = replies[i + 1] /\ i + 1 \in DOMAIN replies
      /\ Len(replies) = 1 => replies' = <<>>
  BY Taken DEF TypeOK, ReadyRead
<1>2. FeedResponse(r) /\ UNCHANGED <<requests, remote, device>>
  BY DEF ReadyRead
<1>3. op'.class = op.class /\ op' \in Ops /\ Taking(r)
  BY <1>1, <1>2, FeedResponseTakes
<1>4. local' = local /\ op'.offset = op.offset /\ op'.sub = op.sub
  BY <1>3, ClassFacts DEF Taking
<1>5. IsLast(r) <=> r.type # "StatusPing"
  BY ClassFacts DEF IsLast
<1>6. r.type \in {"StatusPing", "Empty"} /\ (r.type = "Empty" => Len(replies) = 1 /\ device.did = "all")
  BY <1>1 DEF WriteInv
<1>7. CASE IsLast(r)
  <2>1. /\ replies' = <<>> /\ device'.did = "all" /\ requests' = <<>> /\ local' = remote'
        /\ op'.phase = "finished"
    BY <1>1, <1>2, <1>3, <1>4, <1>5, <1>6, <1>7 DEF WriteInv, Taking
  <2> QED
    BY <1>3, <2>1 DEF SuccessMeansDone
<1>8. CASE ~IsLast(r)
  <2>1. op'.phase = op.phase /\ op.phase = "started"
    BY <1>3, <1>8 DEF Taking, ReadyRead
  <2>2. \E next \in [1..Len(requests') + 1 -> 0..Len(local')] : InLine(next)'
    BY <1>2, <1>4, LineStays
  <2>3. LastIsLast'
    BY <1>2, <2>1 DEF WriteInv, LastIsLast
  <2>4. \A i \in DOMAIN replies' :
           /\ replies'[i].status = "ok" /\ replies'[i].type \in {"StatusPing", "Empty"}
           /\ replies'[i].type = "Empty" => i = Len(replies') /\ device.did = "all"
    BY <1>1 DEF WriteInv
  <2> QED
    BY <1>2, <1>4, <2>1, <2>2, <2>3, <2>4 DEF WriteInv
<1> QED
  BY <1>7, <1>8

-----------------------------------------------------------------------------
(* Answers in order                                                          *)

(* The counts behind AnswersInOrder.                                         *)
LEMMA AnswerTypes ==
    ASSUME TypeOK
    PROVE  /\ op.parts \in Nat /\ device.parts \in Nat /\ device \in Devices
           /\ device.did \in {"nothing", "some", "all", "refused"}
           /\ Len(replies) \in Nat /\ DOMAIN replies = 1..Len(replies) /\ replies \in Seq(Replies)
           /\ Others \in Int /\ Others = Len(replies) - (device.parts - op.parts)
<1>1. op.parts \in Nat /\ device.parts \in Nat /\ Len(replies) \in Nat
  BY OpTypes, LenProperties DEF TypeOK, Devices
<1> QED
  BY <1>1, LenProperties DEF TypeOK, Devices, Others

(* The first answer is one to another request, or the next part.             *)
AsideTaken(r) ==
    /\ op.class = StorageRead /\ r.type = "StorageStat" /\ r.data = <<>>
    /\ op'.parts = op.parts /\ Others' = Others - 1 /\ Others > 0
PartTaken(r) ==
    /\ r.type = op.class.answer /\ op'.parts = op.parts + 1 /\ Others = 0 /\ Others' = 0
    /\ r.hasNext <=> ~(Len(replies) = 1 /\ device.did = "all")
    /\ Len(replies) = device.parts - op.parts

(* An operation takes the first answer: one to another request, or the next  *)
(* part, behind which there are only parts.                                  *)
LEMMA AnswerTaken ==
    ASSUME TypeOK, AnswersInOrder, ReadyRead, Taking(Head(replies)), op'.class = op.class
    PROVE  /\ AnswersInOrder'
           /\ AsideTaken(Head(replies)) \/ PartTaken(Head(replies))
<1> DEFINE r == Head(replies)
           n == Len(replies)
<1>1. /\ r \in Replies /\ replies' = Tail(replies) /\ r = replies[1] /\ 1 \in DOMAIN replies
      /\ n \in Nat \ {0} /\ Len(replies') = n - 1 /\ DOMAIN replies' = 1..n - 1
      /\ \A i \in 1..n - 1 : replies'[i] = replies[i + 1] /\ i + 1 \in DOMAIN replies
  BY Taken DEF TypeOK, ReadyRead
<1>2. UNCHANGED device /\ r.type # "Unknown"
  BY ClassFacts DEF ReadyRead, Decodes
<1>3. /\ op.parts \in Nat /\ device.parts \in Nat /\ op.parts <= device.parts
      /\ Others = n - (device.parts - op.parts) /\ Others >= 0 /\ Others \in Int
      /\ device.parts = 0 <=> device.did = "nothing"
  BY AnswerTypes DEF AnswersInOrder
<1>4. \A i \in DOMAIN replies :
          /\ replies[i].status = "ok"
          /\ i > Others =>
                /\ replies[i].type = op.class.answer
                /\ replies[i].hasNext <=> ~(i = n /\ device.did = "all")
          /\ i <= Others =>
                \/ replies[i].type = "Unknown"
                \/ op.class = StorageRead /\ replies[i].type = "StorageStat" /\ replies[i].data = <<>>
  BY DEF AnswersInOrder
<1>5. op'.parts = op.parts + (IF r.type = op.class.answer THEN 1 ELSE 0)
  BY DEF Taking
<1> HIDE DEF r, n
<1>6. CASE Others > 0
  <2>1. op.class = StorageRead /\ r.type = "StorageStat" /\ r.data = <<>>
    BY <1>1, <1>2, <1>3, <1>4, <1>6
  <2>2. op'.parts = op.parts
    BY <1>3, <1>5, <2>1, ClassFacts
  <2>3. Others' = Others - 1
    BY <1>1, <1>2, <1>3, <2>2 DEF Others
  <2>4. \A i \in 1..n - 1 :
            /\ replies'[i].status = "ok"
            /\ i > Others' =>
                  /\ replies'[i].type = op.class.answer
                  /\ replies'[i].hasNext <=> ~(i = n - 1 /\ device.did = "all")
            /\ i <= Others' =>
                  \/ replies'[i].type = "Unknown"
                  \/ op.class = StorageRead /\ replies'[i].type = "StorageStat" /\ replies'[i].data = <<>>
    <3> SUFFICES ASSUME NEW i \in 1..n - 1
                 PROVE  /\ replies'[i].status = "ok"
                        /\ i > Others' =>
                              /\ replies'[i].type = op.class.answer
                              /\ replies'[i].hasNext <=> ~(i = n - 1 /\ device.did = "all")
                        /\ i <= Others' =>
                              \/ replies'[i].type = "Unknown"
                              \/ op.class = StorageRead /\ replies'[i].type = "StorageStat" /\ replies'[i].data = <<>>
      OBVIOUS
    <3>1. /\ i + 1 \in DOMAIN replies /\ replies'[i] = replies[i + 1]
          /\ i > Others' <=> i + 1 > Others
          /\ i <= Others' <=> i + 1 <= Others
          /\ i = n - 1 <=> i + 1 = n
      BY <1>1, <1>3, <2>3
    <3> QED
      BY <1>4, <3>1
  <2>5. AnswersInOrder'
    <3>1. op'.parts <= device'.parts /\ Others' >= 0 /\ (device'.parts = 0 <=> device'.did = "nothing")
      BY <1>2, <1>3, <1>6, <2>2, <2>3
    <3>2. UNCHANGED device /\ op'.class = op.class /\ Len(replies') = n - 1 /\ DOMAIN replies' = 1..n - 1
      BY <1>1, <1>2
    <3> QED
      BY <2>4, <3>1, <3>2 DEF AnswersInOrder
  <2> QED
    BY <1>6, <2>1, <2>2, <2>3, <2>5 DEF AsideTaken, r
<1>7. CASE Others = 0
  <2>1. r.type = op.class.answer /\ (r.hasNext <=> ~(n = 1 /\ device.did = "all"))
    BY <1>1, <1>4, <1>7
  <2>2. op'.parts = op.parts + 1
    BY <1>5, <2>1
  <2>3. Others' = 0 /\ n = device.parts - op.parts
    BY <1>1, <1>2, <1>3, <1>7, <2>2 DEF Others
  <2>4. \A i \in 1..n - 1 :
            /\ replies'[i].status = "ok" /\ replies'[i].type = op.class.answer
            /\ replies'[i].hasNext <=> ~(i = n - 1 /\ device.did = "all")
    <3> SUFFICES ASSUME NEW i \in 1..n - 1
                 PROVE  /\ replies'[i].status = "ok" /\ replies'[i].type = op.class.answer
                        /\ replies'[i].hasNext <=> ~(i = n - 1 /\ device.did = "all")
      OBVIOUS
    <3>1. i + 1 \in DOMAIN replies /\ replies'[i] = replies[i + 1] /\ i + 1 > Others /\ (i = n - 1 <=> i + 1 = n)
      BY <1>1, <1>7
    <3> QED
      BY <1>4, <3>1
  <2>5. AnswersInOrder'
    <3>1. op'.parts <= device'.parts /\ Others' >= 0 /\ (device'.parts = 0 <=> device'.did = "nothing")
      BY <1>1, <1>2, <1>3, <2>2, <2>3
    <3>2. \A i \in DOMAIN replies' : i \in 1..n - 1 /\ i > Others' /\ ~(i <= Others')
      BY <1>1, <2>3
    <3> QED
      BY <1>1, <1>2, <2>4, <3>1, <3>2 DEF AnswersInOrder
  <2> QED
    BY <1>7, <2>1, <2>2, <2>3, <2>5 DEF PartTaken, r, n
<1> QED
  BY <1>3, <1>6, <1>7

(* The device appends an answer: a part, or, while it has not sent any, one  *)
(* to another request.                                                       *)
LEMMA AnswerSent ==
    ASSUME TypeOK, AnswersInOrder, UNCHANGED op, NEW r \in Replies, replies' = Append(replies, r), r.status = "ok",
           device.did # "all", device' \in Devices,
           \/ /\ device'.parts = device.parts + 1 /\ device'.did \in {"some", "all"}
              /\ r.type = op.class.answer
              /\ r.hasNext <=> device'.did # "all"
           \/ /\ UNCHANGED device /\ device.did = "nothing"
              /\ \/ r.type = "Unknown"
                 \/ op.class = StorageRead /\ r.type = "StorageStat" /\ r.data = <<>>
    PROVE  /\ AnswersInOrder'
           /\ Others' = IF device' = device THEN Others + 1 ELSE Others
           /\ device' # device <=> device'.parts = device.parts + 1
<1> DEFINE n == Len(replies)
<1>1. /\ n \in Nat /\ Len(replies') = n + 1 /\ DOMAIN replies' = 1..n + 1 /\ DOMAIN replies = 1..n
      /\ \A i \in 1..n : replies'[i] = replies[i]
      /\ replies'[n + 1] = r
  BY Appended DEF TypeOK
<1>2. /\ op.parts \in Nat /\ device.parts \in Nat /\ op.parts <= device.parts /\ UNCHANGED op
      /\ Others = n - (device.parts - op.parts) /\ Others >= 0 /\ Others \in Int
      /\ device.parts = 0 <=> device.did = "nothing"
  BY AnswerTypes DEF AnswersInOrder
<1>3. \A i \in 1..n :
          /\ replies[i].status = "ok"
          /\ i > Others => replies[i].type = op.class.answer /\ replies[i].hasNext
          /\ i <= Others =>
                \/ replies[i].type = "Unknown"
                \/ op.class = StorageRead /\ replies[i].type = "StorageStat" /\ replies[i].data = <<>>
  BY <1>1 DEF AnswersInOrder
<1> HIDE DEF n
<1>4. CASE /\ device'.parts = device.parts + 1 /\ device'.did \in {"some", "all"}
           /\ r.type = op.class.answer
           /\ r.hasNext <=> device'.did # "all"
  <2>1. Others' = Others /\ device' # device
    BY <1>1, <1>2, <1>4 DEF Others
  <2>2. Others <= n
    BY <1>1, <1>2
  <2>3. ASSUME NEW i \in 1..n + 1
        PROVE  /\ replies'[i].status = "ok"
               /\ i > Others =>
                     /\ replies'[i].type = op.class.answer
                     /\ replies'[i].hasNext <=> ~(i = n + 1 /\ device'.did = "all")
               /\ i <= Others =>
                     \/ replies'[i].type = "Unknown"
                     \/ op.class = StorageRead /\ replies'[i].type = "StorageStat" /\ replies'[i].data = <<>>
    <3>1. CASE i \in 1..n
      <4>1. replies'[i] = replies[i] /\ i # n + 1
        BY <1>1, <3>1
      <4> QED
        BY <1>3, <3>1, <4>1
    <3>2. CASE i = n + 1
      <4>1. replies'[i] = r /\ i > Others /\ ~(i <= Others)
        BY <1>1, <1>2, <2>2, <3>2
      <4> QED
        BY <1>4, <3>2, <4>1
    <3> QED
      BY <1>1, <3>1, <3>2
  <2>4. op'.parts <= device'.parts /\ Others' >= 0 /\ (device'.parts = 0 <=> device'.did = "nothing")
    BY <1>2, <1>4, <2>1
  <2>5. AnswersInOrder'
    BY <1>1, <1>2, <2>1, <2>3, <2>4 DEF AnswersInOrder
  <2> QED
    BY <1>4, <2>1, <2>5
<1>5. CASE /\ UNCHANGED device /\ device.did = "nothing"
           /\ \/ r.type = "Unknown"
              \/ op.class = StorageRead /\ r.type = "StorageStat" /\ r.data = <<>>
  <2>1. Others' = Others + 1 /\ Others = n
    BY <1>1, <1>2, <1>5 DEF Others
  <2>2. ASSUME NEW i \in 1..n + 1
        PROVE  /\ replies'[i].status = "ok" /\ i <= Others' /\ ~(i > Others')
               /\ \/ replies'[i].type = "Unknown"
                  \/ op.class = StorageRead /\ replies'[i].type = "StorageStat" /\ replies'[i].data = <<>>
    <3>1. i <= Others' /\ ~(i > Others')
      BY <1>1, <2>1
    <3>2. CASE i \in 1..n
      <4>1. replies'[i] = replies[i] /\ i <= Others
        BY <1>1, <2>1, <3>2
      <4> QED
        BY <1>3, <3>1, <3>2, <4>1
    <3>3. CASE i = n + 1
      BY <1>1, <1>5, <3>1, <3>3
    <3> QED
      BY <1>1, <3>2, <3>3
  <2>3. op'.parts <= device'.parts /\ Others' >= 0 /\ (device'.parts = 0 <=> device'.did = "nothing")
    BY <1>2, <1>5, <2>1
  <2>4. AnswersInOrder'
    BY <1>1, <1>2, <2>2, <2>3 DEF AnswersInOrder
  <2> QED
    BY <1>2, <1>5, <2>1, <2>4
<1> QED
  BY <1>4, <1>5

-----------------------------------------------------------------------------
(* A file being read                                                         *)

(* A read sends its stat, and then its read, once.                           *)
LEMMA ReadSends ==
    ASSUME TypeOK, op.class = StorageRead, op.phase = "writing", ReadInv, AnswersInOrder,
           NextOfRead, UNCHANGED <<local, replies, remote, device>>
    PROVE  ReadInv' /\ AnswersInOrder'
<1> DEFINE n == Len(requests)
           r == StorageRequest(IF op.sub = "none" THEN "StorageStat" ELSE "StorageRead")
<1>1. /\ op'.class = op.class /\ op'.parts = op.parts
      /\ op'.sub = IF op.sub = "none" THEN "stat" ELSE "read"
      /\ op'.phase = IF op.sub = "stat" THEN "started" ELSE op.phase
  BY DEF NextOfRead, TypeOK, Ops
<1>2. op.sub \in {"none", "stat"} /\ device.did \notin {"some", "all"}
  BY DEF ReadInv
<1>3. r \in Requests /\ requests' = Append(requests, r)
  <2>1. \A asks \in {"StorageStat", "StorageRead"} : StorageRequest(asks) \in Requests
    BY ClassFacts, EmptySeq DEF StorageRequest, Request, Requests, Asks
  <2> QED
    BY <2>1 DEF NextOfRead
<1>4. r.asks = IF op.sub = "none" THEN "StorageStat" ELSE "StorageRead"
  BY DEF StorageRequest, Request
<1> HIDE DEF r
<1>5. /\ n \in Nat /\ Len(requests') = n + 1 /\ DOMAIN requests' = 1..n + 1 /\ DOMAIN requests = 1..n
      /\ \A i \in 1..n : requests'[i] = requests[i]
      /\ requests'[n + 1] = r
  BY <1>3, Appended DEF TypeOK
<1>6. \A i \in 1..n : requests[i].asks = "StorageStat"
  BY <1>2, <1>5 DEF ReadInv
<1>7. UNCHANGED <<Others, replies, remote, local, device>> /\ \A k \in Nat : Offset(k)' = Offset(k)
  BY <1>1 DEF Others, Offset
<1>8. AnswersInOrder'
  BY <1>1, <1>7 DEF AnswersInOrder
<1>9. PartsOfFile'
  BY <1>1, <1>7 DEF ReadInv, PartsOfFile, Offset
<1>10. ASSUME NEW i \in DOMAIN requests'
       PROVE  /\ requests'[i].asks \in {"StorageStat", "StorageRead"}
              /\ requests'[i].asks = "StorageRead" => i = Len(requests') /\ op'.sub = "read"
  BY <1>1, <1>2, <1>4, <1>5, <1>6
<1> QED
  BY <1>1, <1>2, <1>7, <1>8, <1>9, <1>10 DEF ReadInv

(* Parts of a file whose count is moved neither by the device nor by the     *)
(* operation.                                                                *)
LEMMA ReadStays ==
    ASSUME ReadInv, AnswersInOrder, UNCHANGED <<local, replies, remote, device, requests>>,
           op'.class = op.class, op'.parts = op.parts, op'.sub = op.sub,
           op'.phase \in {"ready", "writing"} => op.phase \in {"ready", "writing"}
    PROVE  ReadInv' /\ AnswersInOrder'
<1>1. UNCHANGED Others /\ \A k : Offset(k)' = Offset(k)
  BY DEF Others, Offset
<1>2. AnswersInOrder'
  BY <1>1 DEF AnswersInOrder
<1>3. PartsOfFile'
  BY <1>1 DEF ReadInv, PartsOfFile, Offset
<1> QED
  BY <1>2, <1>3 DEF ReadInv

(* The device reads the next part of the file, or answers the stat.          *)
LEMMA ReadDevice ==
    ASSUME TypeOK, op.class = StorageRead, ReadInv, AnswersInOrder, Device, device.did # "refused",
           device'.did # "refused", TypeOK'
    PROVE  ReadInv' /\ AnswersInOrder'
<1> DEFINE request == Head(requests)
           n == Len(requests)
           m == Len(replies)
<1>1. /\ n \in Nat \ {0} /\ request = requests[1] /\ 1 \in DOMAIN requests /\ requests # <<>>
      /\ DOMAIN requests = 1..n
      /\ Len(Tail(requests)) = n - 1 /\ DOMAIN Tail(requests) = 1..n - 1
      /\ \A i \in 1..n - 1 : Tail(requests)[i] = requests[i + 1] /\ i + 1 \in DOMAIN requests
      /\ n = 1 => Tail(requests) = <<>>
  BY Taken DEF TypeOK, Device
<1>2. /\ device.did \in {"nothing", "some"} /\ device \in Devices /\ device' \in Devices
      /\ device.parts \in Nat /\ op.parts \in Nat /\ m \in Nat /\ DOMAIN replies = 1..m
      /\ Others = m - (device.parts - op.parts) /\ Others >= 0 /\ Others \in Int /\ op.parts <= device.parts
      /\ device.parts = 0 <=> device.did = "nothing"
  BY <1>1, AnswerTypes DEF ReadInv, TypeOK, AnswersInOrder
<1>3. UNCHANGED <<op, local>> /\ op.class.answer = "StorageRead"
  BY ClassFacts DEF Device
<1>4. /\ request.asks \in {"StorageStat", "StorageRead"} /\ op.sub # "none"
      /\ request.asks = "StorageRead" => n = 1 /\ op.sub = "read"
      /\ device.did = "some" => request.asks = "StorageRead"
  BY <1>1 DEF ReadInv
<1>5. remote \in Seq(Nat) /\ \A type \in {"Unknown", "StorageStat", "StorageRead"}, more \in BOOLEAN, data \in Seq(Nat) :
         LET reply == Reply(type, "ok", data, more) IN
         /\ reply \in Replies /\ reply.status = "ok" /\ reply.type = type
         /\ reply.data = data /\ reply.hasNext = more
  BY DEF Reply, Replies, ResponseTypes, StorageResponses, TypeOK
<1>6. /\ op.sub \in {"none", "stat", "read"}
      /\ op.phase \in {"ready", "writing"} => op.sub # "read"
      /\ \A i \in 1..n : requests[i].asks \in {"StorageStat", "StorageRead"}
      /\ \A i \in 1..n : requests[i].asks = "StorageRead" => i = n /\ op.sub = "read"
      /\ PartsOfFile
  BY <1>1 DEF ReadInv
<1>7. ASSUME UNCHANGED device, UNCHANGED remote, requests' = Tail(requests), device.did = "nothing",
             NEW r \in Replies, replies' = Append(replies, r), r.status = "ok",
             \/ r.type = "Unknown"
             \/ r.type = "StorageStat" /\ r.data = <<>>
      PROVE  ReadInv' /\ AnswersInOrder'
  <2>1. AnswersInOrder' /\ Others' = Others + 1
    BY <1>2, <1>3, <1>7, AnswerSent
  <2>2. /\ Len(replies') = m + 1 /\ DOMAIN replies' = 1..m + 1
    BY <1>7, Appended DEF TypeOK
  <2>3. \A i \in DOMAIN replies' : ~(i > Others')
    BY <1>2, <1>7, <2>1, <2>2
  <2>4. PartsOfFile'
    <3>1. local = SubSeq(remote, 1, Offset(op.parts))
      BY <1>6 DEF PartsOfFile
    <3> QED
      BY <1>3, <1>7, <2>3, <3>1 DEF PartsOfFile, Offset
  <2>5. ASSUME NEW i \in DOMAIN requests'
        PROVE  /\ requests'[i].asks \in {"StorageStat", "StorageRead"}
               /\ requests'[i].asks = "StorageRead" => i = Len(requests') /\ op'.sub = "read"
    <3>1. i \in 1..n - 1 /\ requests'[i] = requests[i + 1] /\ i + 1 \in 1..n /\ Len(requests') = n - 1
      BY <1>1, <1>7
    <3>2. /\ requests[i + 1].asks \in {"StorageStat", "StorageRead"}
          /\ requests[i + 1].asks = "StorageRead" => i + 1 = n /\ op.sub = "read"
      BY <1>6, <3>1
    <3> HIDE DEF n
    <3> QED
      BY <1>1, <1>3, <3>1, <3>2
  <2> QED
    BY <1>3, <1>4, <1>6, <1>7, <2>1, <2>4, <2>5 DEF ReadInv
<1>8. CASE request.asks = "StorageStat"
  <2>1. /\ device.did = "nothing" /\ UNCHANGED <<remote, device>>
        /\ replies' = Append(replies, Reply("StorageStat", "ok", <<>>, FALSE))
    BY <1>2, <1>4, <1>8 DEF Device, Aside, DeviceAsides, DeviceRefuses, Devices
  <2>2. requests' = Tail(requests)
    BY <1>8 DEF Device, InParts
  <2>3. <<>> \in Seq(Nat)
    BY EmptySeq
  <2> QED
    BY SMTT(20), ZenonT(30), <1>5, <1>7, <2>1, <2>2, <2>3
<1>9. CASE request.asks = "StorageRead"
  <2>1. DeviceReads \/ (DeviceIsNewer /\ device.did = "nothing")
    <3>1. DeviceReads \/ DeviceIsNewer \/ device'.did = "refused"
      BY <1>2, <1>9 DEF Device, Aside, DeviceRefuses, Devices
    <3> QED
      BY <3>1 DEF DeviceIsNewer
  <2>2. Tail(requests) = <<>> /\ n = 1 /\ op.sub = "read"
    BY <1>1, <1>4, <1>9
  <2>3. CASE DeviceIsNewer /\ device.did = "nothing"
    <3>1. /\ UNCHANGED <<remote, device>> /\ replies' = Append(replies, Reply("Unknown", "ok", <<>>, FALSE))
          /\ requests' = Tail(requests)
      BY <2>3 DEF DeviceIsNewer, Device
    <3>2. <<>> \in Seq(Nat)
      BY EmptySeq
    <3>3. LET reply == Reply("Unknown", "ok", <<>>, FALSE) IN
          reply \in Replies /\ reply.status = "ok" /\ reply.type = "Unknown"
      BY <3>2 DEF Reply, Replies
    <3> QED
      BY <1>7, <2>3, <3>1, <3>3
  <2>4. CASE DeviceReads
    <3> DEFINE p == device.parts
               end == Offset(p + 1)
               more == end < Len(remote)
               r == Reply("StorageRead", "ok", NextPart, more)
    <3>1. /\ NextPart \in Seq(Nat) /\ replies' = Append(replies, r) /\ UNCHANGED remote
          /\ device'.did = (IF more THEN "some" ELSE "all") /\ device'.parts = p + 1
      BY <2>4, DeviceReadsPart
    <3>2. more \in BOOLEAN
      OBVIOUS
    <3> HIDE DEF more
    <3>3. /\ r \in Replies /\ r.status = "ok" /\ r.type = "StorageRead" /\ r.data = NextPart /\ r.hasNext = more
      BY <1>5, <3>1, <3>2
    <3> USE DEF more
    <3>4. /\ Offset(p) \in 0..Len(remote) /\ end \in 0..Len(remote) /\ Offset(p) <= end /\ Offset(0) = 0
          /\ Len(remote) \in Nat
      BY <1>2, <1>5, Offsets, LenProperties
    <3>5. Offset(p) = p * ChunkSize
      <4>1. CASE p = 0
        BY <3>4, <4>1, ChunkMore
      <4>2. CASE p # 0
        <5>1. Offset(p) < Len(remote)
          BY <1>2, <1>6, <4>2 DEF PartsOfFile
        <5> DEFINE begins == p * ChunkSize
        <5>2. begins \in Nat
          BY <1>2, ChunkMore
        <5>3. Offset(p) = AtMost(begins, Len(remote))
          BY DEF Offset
        <5> HIDE DEF begins
        <5>4. Offset(p) = begins
          BY <3>4, <5>1, <5>2, <5>3 DEF AtMost
        <5> QED
          BY <5>4 DEF begins
      <4> QED
        BY <4>1, <4>2
    <3>6. NextPart = SubSeq(remote, Offset(p) + 1, end)
      BY <3>5 DEF NextPart
    <3>7. \A k : Offset(k)' = Offset(k)
      BY <3>1 DEF Offset
    <3> HIDE DEF r, end
    <3>8. r.hasNext <=> device'.did # "all"
      BY <3>1, <3>3
    <3>9. AnswersInOrder' /\ Others' = Others
      <4>1. device'.did \in {"some", "all"} /\ device' # device /\ device.did # "all"
        BY <1>2, <3>1
      <4> QED
        BY <1>2, <1>3, <3>1, <3>3, <3>8, <4>1, AnswerSent
    <3>10. /\ Len(replies') = m + 1 /\ DOMAIN replies' = 1..m + 1 /\ replies'[m + 1] = r
           /\ \A i \in 1..m : replies'[i] = replies[i]
      BY <1>2, <3>1, <3>3, Appended DEF TypeOK
    <3>11. ASSUME NEW i \in 1..m + 1, i > Others
           PROVE  LET k == device'.parts - (Len(replies') - i) IN
                  replies'[i].data = SubSeq(remote, Offset(k - 1) + 1, Offset(k))
      <4>1. CASE i \in 1..m
        <5>1. device'.parts - (Len(replies') - i) = p - (m - i)
          BY <1>2, <3>1, <3>10
        <5>2. replies'[i] = replies[i] /\ i \in DOMAIN replies
          BY <1>2, <3>10, <4>1
        <5>3. replies[i].data = SubSeq(remote, Offset((p - (m - i)) - 1) + 1, Offset(p - (m - i)))
          BY <1>6, <3>11, <5>2 DEF PartsOfFile
        <5> QED
          BY <5>1, <5>2, <5>3
      <4>2. CASE i = m + 1
        <5>1. device'.parts = p + 1 /\ p \in Nat /\ Len(replies') = i /\ i \in Nat
          BY <1>2, <3>1, <3>10, <4>2
        <5>2. device'.parts - (Len(replies') - i) = p + 1 /\ (p + 1) - 1 = p
          BY <5>1
        <5> QED
          <6>1. replies'[i].data = SubSeq(remote, Offset(p) + 1, Offset(p + 1))
            BY <3>3, <3>6, <3>10, <4>2 DEF end
          <6> QED
            BY <5>2, <6>1
      <4> QED
        BY <1>2, <4>1, <4>2
    <3>12. PartsOfFile'
      <4>1. device'.did = "some" => end < Len(remote)
        BY <3>1
      <4>2. device'.did = "all" => end = Len(remote)
        BY <3>1, <3>4
      <4>3. local' = SubSeq(remote', 1, Offset(op'.parts))
        BY <1>3, <1>6, <3>1 DEF PartsOfFile
      <4> QED
        BY <1>3, <3>1, <3>7, <3>9, <3>10, <3>11, <4>1, <4>2, <4>3 DEF PartsOfFile, end
    <3>13. requests' = IF device'.did = "some" THEN requests ELSE <<>>
      BY <1>9, <2>2 DEF Device, InParts
    <3>14. CASE device'.did = "some"
      BY <1>1, <1>3, <1>6, <1>9, <2>2, <3>9, <3>12, <3>13, <3>14 DEF ReadInv
    <3>15. CASE device'.did = "all"
      BY <1>3, <1>6, <2>2, <3>9, <3>12, <3>13, <3>15 DEF ReadInv
    <3> QED
      BY <3>1, <3>14, <3>15
  <2> QED
    BY <2>1, <2>3, <2>4
<1> QED
  BY <1>4, <1>8, <1>9

(* The answer that ends a read brings its last part.                         *)
LEMMA ReadReads ==
    ASSUME TypeOK, op.class = StorageRead, ReadInv, AnswersInOrder, ReadyRead,
           op'.phase # "finished" \/ op'.error = "none"
    PROVE  IF op'.phase = "finished" THEN SuccessMeansDone' ELSE ReadInv' /\ AnswersInOrder'
<1> DEFINE r == Head(replies)
           m == Len(replies)
<1>1. /\ r \in Replies /\ replies' = Tail(replies) /\ r = replies[1] /\ 1 \in DOMAIN replies
      /\ m \in Nat \ {0} /\ Len(replies') = m - 1 /\ DOMAIN replies' = 1..m - 1
      /\ \A i \in DOMAIN replies' : replies'[i] = replies[i + 1] /\ i + 1 \in DOMAIN replies
      /\ m = 1 => replies' = <<>>
  BY Taken DEF TypeOK, ReadyRead
<1>2. FeedResponse(r) /\ UNCHANGED <<requests, remote, device>> /\ op.phase = "started"
  BY DEF ReadyRead
<1>3. op'.class = op.class /\ op' \in Ops /\ Taking(r)
  BY <1>1, <1>2, FeedResponseTakes
<1>4. AnswersInOrder' /\ (AsideTaken(r) \/ PartTaken(r))
  BY <1>3, AnswerTaken
<1>5. IsLast(r) <=> r.type = "StorageRead" /\ ~r.hasNext
  BY DEF IsLast
<1>6. local' = local \o r.data /\ op'.sub = op.sub
  BY <1>3 DEF Taking
<1>7. /\ op.parts \in Nat /\ device.parts \in Nat /\ Others = m - (device.parts - op.parts) /\ Others \in Int
  BY AnswerTypes
<1>8. PartsOfFile /\ local \in Seq(Nat) /\ remote \in Seq(Nat) /\ \A k : Offset(k)' = Offset(k)
  BY <1>2 DEF ReadInv, TypeOK, Offset
<1> HIDE DEF r, m
<1>9. \A i \in DOMAIN replies : i > Others =>
        LET k == device.parts - (m - i) IN replies[i].data = SubSeq(remote, Offset(k - 1) + 1, Offset(k))
  BY <1>8 DEF PartsOfFile, m
<1>10. ASSUME NEW i \in 1..m - 1, i > Others', Others' = Others - 1 \/ (Others = 0 /\ Others' = 0)
       PROVE  LET k == device.parts - ((m - 1) - i) IN
              replies'[i].data = SubSeq(remote, Offset(k - 1) + 1, Offset(k))
  <2>1. /\ i + 1 \in DOMAIN replies /\ i + 1 > Others /\ replies'[i] = replies[i + 1]
        /\ device.parts - ((m - 1) - i) = device.parts - (m - (i + 1))
    BY <1>1, <1>7, <1>10
  <2>2. LET k == device.parts - (m - (i + 1)) IN replies[i + 1].data = SubSeq(remote, Offset(k - 1) + 1, Offset(k))
    BY <1>9, <2>1
  <2> QED
    BY <2>1, <2>2
<1>11. ASSUME Others' = Others - 1 \/ (Others = 0 /\ Others' = 0), local' = SubSeq(remote, 1, Offset(op'.parts)), ~IsLast(r)
       PROVE  ReadInv'
  <2>1. PartsOfFile'
    <3>1. /\ device.did = "some" => Offset(device.parts) < Len(remote)
          /\ device.did = "all" => Offset(device.parts) = Len(remote)
      BY <1>8 DEF PartsOfFile
    <3>2. DOMAIN replies' = 1..m - 1 /\ Len(replies') = m - 1
      BY <1>1 DEF m
    <3> QED
      BY <1>2, <1>8, <1>10, <1>11, <3>1, <3>2 DEF PartsOfFile
  <2>2. op'.phase = op.phase
    BY <1>3, <1>11 DEF Taking
  <2> QED
    BY <1>2, <1>6, <2>1, <2>2 DEF ReadInv
<1>12. CASE AsideTaken(r)
  <2>1. r.type = "StorageStat" /\ r.data = <<>> /\ op'.parts = op.parts /\ Others' = Others - 1
    BY <1>12 DEF AsideTaken
  <2>2. local' = local
    BY <1>6, <1>8, <2>1, ConcatEmptySeq
  <2>3. local' = SubSeq(remote, 1, Offset(op'.parts))
    BY <1>8, <2>1, <2>2 DEF PartsOfFile
  <2>4. ~IsLast(r) /\ op'.phase = op.phase
    BY <1>3, <1>5, <2>1 DEF Taking
  <2> QED
    BY <1>2, <1>4, <1>11, <2>1, <2>3, <2>4
<1>13. CASE PartTaken(r)
  <2>1. /\ r.type = "StorageRead" /\ op'.parts = op.parts + 1 /\ Others = 0 /\ Others' = 0
        /\ r.hasNext <=> ~(m = 1 /\ device.did = "all")
        /\ m = device.parts - op.parts
    BY <1>13, ClassFacts DEF PartTaken, m
  <2>2. r.data = SubSeq(remote, Offset(op.parts) + 1, Offset(op.parts + 1))
    <3>0. m \in Nat
      BY <1>1
    <3>1. device.parts - (m - 1) = op.parts + 1 /\ (op.parts + 1) - 1 = op.parts
      BY <1>7, <2>1, <3>0
    <3>2. LET k == device.parts - (m - 1) IN replies[1].data = SubSeq(remote, Offset(k - 1) + 1, Offset(k))
      BY <1>1, <1>9, <2>1
    <3> QED
      BY <1>1, <3>1, <3>2
  <2>3. local' = SubSeq(remote, 1, Offset(op'.parts))
    <3>1. local = SubSeq(remote, 1, Offset(op.parts))
      BY <1>8 DEF PartsOfFile
    <3>2. /\ Offset(op.parts) \in 0..Len(remote) /\ Offset(op.parts + 1) \in 0..Len(remote)
          /\ Offset(op.parts) <= Offset(op.parts + 1)
      BY <1>7, <1>8, Offsets
    <3>3. \A a, b \in 0..Len(remote) :
             a <= b => SubSeq(remote, 1, a) \o SubSeq(remote, a + 1, b) = SubSeq(remote, 1, b)
      BY <1>8, Parts
    <3> DEFINE a == Offset(op.parts)  b == Offset(op.parts + 1)
    <3> HIDE DEF a, b
    <3>4. SubSeq(remote, 1, a) \o SubSeq(remote, a + 1, b) = SubSeq(remote, 1, b)
      BY <3>2, <3>3 DEF a, b
    <3> QED
      BY <1>6, <2>1, <2>2, <3>1, <3>4 DEF a, b
  <2>4. CASE ~IsLast(r)
    <3>1. op'.phase = op.phase
      BY <1>3, <2>4 DEF Taking
    <3> QED
      BY <1>2, <1>4, <1>11, <2>1, <2>3, <2>4, <3>1
  <2>5. CASE IsLast(r)
    <3>1. m = 1 /\ device.did = "all" /\ op'.phase = "finished"
      BY <1>3, <1>5, <2>1, <2>5 DEF Taking
    <3>2. replies' = <<>> /\ requests' = <<>> /\ device'.did = "all"
      BY <1>1, <1>2, <3>1 DEF ReadInv, m
    <3>3. op'.parts = device.parts
      BY <1>7, <2>1, <3>1
    <3>4. local' = remote'
      <4>1. Offset(device.parts) = Len(remote)
        BY <1>8, <3>1 DEF PartsOfFile
      <4> QED
        BY <1>2, <1>8, <2>3, <3>3, <4>1, SubSeqFull
    <3> QED
      BY <1>2, <1>3, <3>1, <3>2, <3>3, <3>4 DEF SuccessMeansDone
  <2> QED
    BY <2>4, <2>5
<1> QED
  BY <1>4, <1>12, <1>13

-----------------------------------------------------------------------------
(* Any other operation                                                       *)

(* It sends its request.                                                     *)
LEMMA OtherSends ==
    ASSUME TypeOK, op.class \notin {StorageRead, StorageWrite}, op.phase = "writing", OtherInv, AnswersInOrder,
           NextOfOthers, UNCHANGED <<local, replies, remote, device>>
    PROVE  OtherInv' /\ AnswersInOrder'
<1> DEFINE r == Request(op.class.asks, <<>>, FALSE)
<1>1. op'.class = op.class /\ op'.parts = op.parts /\ op'.phase = "started" /\ UNCHANGED device
  BY DEF NextOfOthers, TypeOK, Ops
<1>2. requests = <<>> /\ device.did = "nothing"
  BY DEF OtherInv
<1>3. r \in Requests /\ r.asks = op.class.asks
  BY OpTypes, EmptySeq DEF Request, Requests, Asks
<1>4. requests' = Append(requests, r) /\ Len(requests) = 0 /\ requests \in Seq(Requests)
  BY <1>2, EmptySeq DEF NextOfOthers, TypeOK
<1> HIDE DEF r
<1>5. Len(requests') = 1 /\ DOMAIN requests' = 1..1 /\ requests'[1] = r
  BY <1>3, <1>4, Appended
<1>6. AnswersInOrder'
  BY <1>1 DEF AnswersInOrder, Others
<1> QED
  BY <1>1, <1>2, <1>3, <1>5, <1>6 DEF OtherInv

(* The device answers it, in one part or in more.                            *)
LEMMA OtherDevice ==
    ASSUME TypeOK, op.class \notin {StorageRead, StorageWrite}, OtherInv, AnswersInOrder, Device,
           device.did # "refused", device'.did # "refused", TypeOK'
    PROVE  OtherInv' /\ AnswersInOrder'
<1> DEFINE request == Head(requests)
<1>1. /\ Len(requests) \in Nat \ {0} /\ request = requests[1] /\ 1 \in DOMAIN requests
      /\ requests # <<>> /\ (Len(requests) = 1 => Tail(requests) = <<>>)
  BY Taken DEF TypeOK, Device
<1>2. Len(requests) = 1 /\ request.asks = op.class.asks /\ Tail(requests) = <<>>
  <2>1. Len(requests) <= 1 /\ requests[1].asks = op.class.asks
    BY <1>1 DEF OtherInv
  <2>2. Len(requests) \in Nat \ {0}
    BY <1>1
  <2>3. Len(requests) = 1
    <3> DEFINE n == Len(requests)
    <3>1. n <= 1 /\ n \in Nat \ {0}
      BY <2>1, <2>2
    <3> HIDE DEF n
    <3>2. n = 1
      BY <3>1
    <3> QED
      BY <3>2 DEF n
  <2> QED
    BY <1>1, <2>1, <2>3
<1>3. /\ device.did \in {"nothing", "some"} /\ device \in Devices /\ device' \in Devices
      /\ op.phase \notin {"ready", "writing"} /\ device.parts \in Nat
      /\ device.parts = 0 <=> device.did = "nothing"
  BY <1>1, AnswerTypes DEF OtherInv, TypeOK, AnswersInOrder, Devices
<1>4. request.asks \notin {"StorageRead", "StorageWrite", "StatusPing"} /\ op.class.answer \in ResponseTypes
  BY <1>2, OpTypes, ClassFacts
<1>5. DeviceAnswers(request) \/ (DeviceIsNewer /\ device.did = "nothing")
  <2>1. DeviceAnswers(request) \/ DeviceIsNewer \/ device'.did = "refused"
    BY <1>3, <1>4 DEF Device, Aside, DeviceRefuses, Devices
  <2> QED
    BY <2>1 DEF DeviceIsNewer
<1>6. UNCHANGED <<op, local>>
  BY DEF Device
<1>7. <<>> \in Seq(Nat)
  BY EmptySeq
<1>8. CASE DeviceIsNewer /\ device.did = "nothing"
  <2>1. /\ UNCHANGED <<remote, device>> /\ replies' = Append(replies, Reply("Unknown", "ok", <<>>, FALSE))
        /\ requests' = <<>>
    BY <1>2, <1>8 DEF DeviceIsNewer, Device
  <2>2. LET reply == Reply("Unknown", "ok", <<>>, FALSE) IN
        reply \in Replies /\ reply.status = "ok" /\ reply.type = "Unknown"
    BY <1>7 DEF Reply, Replies
  <2>3. AnswersInOrder'
    BY <1>3, <1>6, <1>8, <2>1, <2>2, AnswerSent
  <2> QED
    BY <1>3, <1>6, <1>8, <2>1, <2>3 DEF OtherInv
<1>9. CASE DeviceAnswers(request)
  <2>1. PICK more \in BOOLEAN :
           /\ more => request.asks \in InParts
           /\ replies' = Append(replies, Reply(op.class.answer, "ok", <<>>, more))
           /\ device' = [did |-> IF more THEN "some" ELSE "all", parts |-> device.parts + 1]
    BY <1>9 DEF DeviceAnswers
  <2> DEFINE r == Reply(op.class.answer, "ok", <<>>, more)
  <2>2. r \in Replies /\ r.status = "ok" /\ r.type = op.class.answer /\ r.hasNext = more
    BY <1>4, <1>7 DEF Reply, Replies
  <2> HIDE DEF r
  <2>3. /\ device'.did = (IF more THEN "some" ELSE "all") /\ device'.parts = device.parts + 1
        /\ replies' = Append(replies, r)
    BY <2>1 DEF r
  <2>4. device'.did \in {"some", "all"} /\ (r.hasNext <=> device'.did # "all")
    BY <2>2, <2>3
  <2>5. AnswersInOrder'
    BY <1>3, <1>6, <2>2, <2>3, <2>4, AnswerSent
  <2>6. requests' = IF device'.did = "some" THEN requests ELSE <<>>
    BY <1>2, <2>1, <2>3 DEF Device
  <2>7. CASE device'.did = "some"
    BY <1>3, <1>6, <2>5, <2>6, <2>7 DEF OtherInv
  <2>8. CASE device'.did = "all"
    BY <1>3, <1>6, <2>5, <2>6, <2>8 DEF OtherInv
  <2> QED
    BY <2>4, <2>7, <2>8
<1> QED
  BY <1>5, <1>8, <1>9

(* The answer without another behind it is the last.                         *)
LEMMA OtherReads ==
    ASSUME TypeOK, op.class \notin {StorageRead, StorageWrite}, OtherInv, AnswersInOrder, ReadyRead,
           op'.phase # "finished" \/ op'.error = "none"
    PROVE  IF op'.phase = "finished" THEN SuccessMeansDone' ELSE OtherInv' /\ AnswersInOrder'
<1> DEFINE r == Head(replies)
<1>1. /\ r \in Replies /\ replies' = Tail(replies)
      /\ Len(replies) = 1 => replies' = <<>>
  BY Taken DEF TypeOK, ReadyRead
<1>2. FeedResponse(r) /\ UNCHANGED <<requests, remote, device>> /\ op.phase = "started"
  BY DEF ReadyRead
<1>3. op'.class = op.class /\ Taking(r)
  BY <1>1, <1>2, FeedResponseTakes
<1>4. AnswersInOrder' /\ (AsideTaken(r) \/ PartTaken(r))
  BY <1>3, AnswerTaken
<1>5. IsLast(r) <=> ~r.hasNext
  BY DEF IsLast
<1> HIDE DEF r
<1>6. PartTaken(r)
  BY <1>4 DEF AsideTaken
<1>7. CASE ~IsLast(r)
  <2>1. op'.phase = "started"
    BY <1>2, <1>3, <1>7 DEF Taking
  <2> QED
    BY <1>2, <1>3, <1>4, <2>1 DEF OtherInv
<1>8. CASE IsLast(r)
  <2>1. Len(replies) = 1 /\ device.did = "all" /\ op'.phase = "finished"
    BY <1>3, <1>5, <1>6, <1>8 DEF PartTaken, Taking
  <2>2. replies' = <<>> /\ requests' = <<>> /\ device'.did = "all"
    BY <1>1, <1>2, <2>1 DEF OtherInv
  <2>3. op'.parts = device.parts
    <3>1. /\ op'.parts = op.parts + 1 /\ Len(replies) = device.parts - op.parts
          /\ op.parts \in Nat /\ device.parts \in Nat
      BY <1>6, AnswerTypes DEF PartTaken
    <3>2. 1 = device.parts - op.parts
      BY <2>1, <3>1
    <3> QED
      BY <3>1, <3>2
  <2> QED
    BY <1>2, <1>3, <2>1, <2>2, <2>3 DEF SuccessMeansDone
<1> QED
  BY <1>7, <1>8

-----------------------------------------------------------------------------
(* The operation, step by step                                               *)

(* At first nothing is on its way and the device has done nothing.           *)
LEMMA RpcInit == ASSUME Init PROVE RpcInv
<1>1. PICK class \in Classes, n \in Sizes :
         /\ op = NewOperation(class)
         /\ requests = <<>> /\ replies = <<>>
         /\ device = [did |-> "nothing", parts |-> 0]
         /\ \/ class = StorageWrite /\ local = Bytes(n) /\ remote \in {NoFile, <<>>}
            \/ class = StorageRead /\ local = <<>> /\ remote \in {NoFile, Bytes(n)}
            \/ class \notin {StorageRead, StorageWrite} /\ n = 0 /\ local = <<>> /\ remote = NoFile
  BY DEF Init
<1>2. op \in Ops /\ op.class = class /\ op.phase = "ready" /\ op.sub = "none" /\ op.parts = 0 /\ op.offset = 0
  BY <1>1 DEF NewOperation, Ops, Phases, Errors
<1>3. n \in Nat /\ Bytes(n) \in Seq(Nat) /\ NoFile \in Seq(Nat) /\ <<>> \in Seq(Nat) /\ Len(<<>>) = 0
  BY SizesAreSizes, EmptySeq DEF Sizes, Bytes, NoFile
<1>4. TypeOK
  <2>1. requests \in Seq(Requests) /\ replies \in Seq(Replies)
    BY <1>1, EmptySeq
  <2>2. device \in Devices
    BY <1>1 DEF Devices
  <2>3. local \in Seq(Nat) /\ remote \in Seq(Nat)
    BY <1>1, <1>3
  <2> QED
    BY <1>2, <2>1, <2>2, <2>3 DEF TypeOK
<1>5. DOMAIN requests = {} /\ DOMAIN replies = {} /\ Len(requests) = 0 /\ Len(replies) = 0
  BY <1>1, <1>3
<1>6. Len(local) \in Nat /\ Len(remote) \in Nat /\ local \in Seq(Nat) /\ remote \in Seq(Nat)
  BY <1>4, LenProperties DEF TypeOK
<1>7. AnswersInOrder
  BY <1>1, <1>2, <1>5 DEF AnswersInOrder, Others
<1>8. CASE op.class = StorageWrite
  <2> DEFINE from == [i \in 1..1 |-> 0]
  <2>1. from \in [1..Len(requests) + 1 -> 0..Len(local)] /\ from[1] = 0 /\ from[Len(requests) + 1] = 0
    BY <1>5, <1>6
  <2> HIDE DEF from
  <2>2. InLine(from)
    BY <1>1, <1>2, <1>5, <2>1 DEF InLine, Written
  <2> QED
    BY <1>1, <1>2, <1>4, <1>5, <1>8, <2>1, <2>2, ClassFacts DEF RpcInv, Underway, WriteInv, LastIsLast, SuccessMeansDone
<1>9. CASE op.class = StorageRead
  <2>1. 0 * ChunkSize = 0 /\ ChunkSize \in Nat
    BY SizesAreSizes
  <2>2. Offset(0) = 0
    BY <1>6, <2>1 DEF Offset, AtMost
  <2>3. local = SubSeq(remote, 1, 0)
    BY <1>1, <1>2, <1>6, <1>9, ClassFacts, SubSeqEmpty
  <2>4. PartsOfFile
    BY <1>1, <1>2, <1>5, <2>2, <2>3 DEF PartsOfFile
  <2> QED
    BY <1>1, <1>2, <1>4, <1>5, <1>7, <1>9, <2>4, ClassFacts DEF RpcInv, Underway, ReadInv, SuccessMeansDone
<1>10. CASE op.class \notin {StorageRead, StorageWrite}
  BY <1>1, <1>2, <1>4, <1>5, <1>7, <1>10 DEF RpcInv, Underway, OtherInv, SuccessMeansDone
<1> QED
  BY <1>8, <1>9, <1>10

(* A step of the operation that sends and takes nothing leaves it underway.  *)
LEMMA UnderwayStays ==
    ASSUME Underway, UNCHANGED <<local, replies, remote, device, requests>>,
           op'.class = op.class, op'.parts = op.parts, op'.sub = op.sub, op'.offset = op.offset,
           op'.phase \in {"ready", "writing"} => op.phase \in {"ready", "writing"},
           op.phase = "started" => op'.phase = "started"
    PROVE  Underway'
<1>1. CASE op.class = StorageWrite
  <2>1. WriteInv
    BY <1>1, ClassFacts DEF Underway
  <2>2. \E next \in [1..Len(requests') + 1 -> 0..Len(local')] : InLine(next)'
    BY <2>1, LineStays
  <2>3. LastIsLast'
    BY <2>1 DEF WriteInv, LastIsLast
  <2>4. WriteInv'
    BY <2>1, <2>2, <2>3 DEF WriteInv
  <2> QED
    BY <1>1, <2>4, ClassFacts DEF Underway
<1>2. CASE op.class = StorageRead
  <2>1. ReadInv /\ AnswersInOrder
    BY <1>2, ClassFacts DEF Underway
  <2>2. ReadInv' /\ AnswersInOrder'
    BY <2>1, ReadStays
  <2> QED
    BY <1>2, <2>2, ClassFacts DEF Underway
<1>3. CASE op.class \notin {StorageRead, StorageWrite}
  <2>1. OtherInv /\ AnswersInOrder
    BY <1>3 DEF Underway
  <2>2. OtherInv' /\ AnswersInOrder'
    BY <2>1 DEF OtherInv, AnswersInOrder, Others
  <2> QED
    BY <1>3, <2>2 DEF Underway
<1> QED
  BY <1>1, <1>2, <1>3

(* Every step keeps the types.                                               *)
LEMMA StepTypes == ASSUME TypeOK, Next PROVE TypeOK'
<1>1. CASE Start
  BY <1>1, StartTypes
<1>2. CASE WriteToPort
  BY <1>2, WriteToPortTypes
<1>3. CASE ReadyRead
  BY <1>3, ReadyReadTypes
<1>4. CASE FinishLater
  BY <1>4, OpTypes DEF FinishLater, TypeOK, Errors
<1>5. CASE TimeoutOrAbort
  BY <1>5, OpTypes DEF TimeoutOrAbort, TypeOK, Errors
<1>6. CASE Device
  BY <1>6, DeviceTypes
<1> QED
  BY <1>1, <1>2, <1>3, <1>4, <1>5, <1>6 DEF Next

(* start(): the file is open, or the operation has ended with an error.      *)
LEMMA StartKeeps == ASSUME RpcInv, Start PROVE RpcInv'
<1>1. TypeOK /\ TypeOK' /\ UNCHANGED <<local, requests, replies, remote, device>> /\ op.phase = "ready"
  BY StartTypes DEF RpcInv, Start
<1>2. CASE op' = Finished("Disk")
  <2>1. op'.phase = "finished" /\ op'.error = "Disk"
    BY <1>1, <1>2, OpTypes DEF Errors
  <2> QED
    BY <1>1, <2>1 DEF RpcInv, SuccessMeansDone
<1>3. ASSUME NEW count, op' = [op EXCEPT !.phase = "writing", !.chunksPerPing = count] PROVE RpcInv'
  <2>1. /\ op'.class = op.class /\ op'.parts = op.parts /\ op'.sub = op.sub /\ op'.offset = op.offset
        /\ op'.phase = "writing"
    BY <1>1, <1>3 DEF TypeOK, Ops
  <2>2. device'.did # "refused" => Underway'
    BY <1>1, <2>1, UnderwayStays DEF RpcInv
  <2> QED
    BY <1>1, <2>1, <2>2 DEF RpcInv, SuccessMeansDone
<1> QED
  BY <1>2, <1>3 DEF Start

(* writeToPort(): one message more, or the buffer of the port is full.       *)
LEMMA WriteToPortKeeps == ASSUME RpcInv, WriteToPort PROVE RpcInv'
<1>1. TypeOK /\ TypeOK' /\ UNCHANGED <<local, replies, remote, device>> /\ op.phase = "writing"
  BY WriteToPortTypes DEF RpcInv, WriteToPort
<1>2. CASE op' = [op EXCEPT !.phase = "started"] /\ UNCHANGED requests
  <2>1. /\ op'.class = op.class /\ op'.parts = op.parts /\ op'.sub = op.sub /\ op'.offset = op.offset
        /\ op'.phase = "started"
    BY <1>1, <1>2 DEF TypeOK, Ops
  <2>2. device'.did # "refused" => Underway'
    BY <1>1, <1>2, <2>1, UnderwayStays DEF RpcInv
  <2> QED
    BY <1>1, <2>1, <2>2 DEF RpcInv, SuccessMeansDone
<1>3. ASSUME op'.class = op.class, op'.phase \in {"writing", "started"},
             device.did # "refused" => Underway'
      PROVE  RpcInv'
  BY <1>1, <1>3 DEF RpcInv, SuccessMeansDone
<1>4. CASE op.class = StorageWrite /\ NextOfWrite
  <2>1. op'.class = op.class /\ op'.phase \in {"writing", "started"}
    <3> DEFINE end == AtMost(op.offset + ChunkSize, Len(local))
               ping == op.chunksWritten + 1 = op.chunksPerPing
               written == IF ping THEN 0 ELSE op.chunksWritten + 1
               sub == IF ping THEN "ping" ELSE op.sub
               phase == IF end < Len(local) THEN op.phase ELSE "started"
    <3>1. \/ op' = [op EXCEPT !.sub = "none"]
          \/ op' = [op EXCEPT !.offset = end, !.chunksWritten = written, !.sub = sub, !.phase = phase]
      BY <1>4 DEF NextOfWrite
    <3>2. phase \in {"writing", "started"}
      BY <1>1
    <3> HIDE DEF end, written, sub, phase
    <3> QED
      BY <1>1, <3>1, <3>2 DEF TypeOK, Ops
  <2>2. ASSUME device.did # "refused" PROVE Underway'
    <3>1. WriteInv
      BY <1>1, <1>4, <2>2, ClassFacts DEF RpcInv, Underway
    <3>2. WriteInv'
      BY <1>1, <1>4, <3>1, WriteSends
    <3> QED
      BY <1>4, <2>1, <3>2, ClassFacts DEF Underway
  <2> QED
    BY <1>3, <2>1, <2>2
<1>5. CASE op.class = StorageRead /\ NextOfRead
  <2>1. op'.class = op.class /\ op'.phase \in {"writing", "started"}
    BY <1>1, <1>5 DEF NextOfRead, TypeOK, Ops
  <2>2. ASSUME device.did # "refused" PROVE Underway'
    <3>1. ReadInv /\ AnswersInOrder
      BY <1>1, <1>5, <2>2, ClassFacts DEF RpcInv, Underway
    <3>2. ReadInv' /\ AnswersInOrder'
      BY <1>1, <1>5, <3>1, ReadSends
    <3> QED
      BY <1>5, <2>1, <3>2, ClassFacts DEF Underway
  <2> QED
    BY <1>3, <2>1, <2>2
<1>6. CASE op.class \notin {StorageRead, StorageWrite} /\ NextOfOthers
  <2>1. op'.class = op.class /\ op'.phase \in {"writing", "started"}
    BY <1>1, <1>6 DEF NextOfOthers, TypeOK, Ops
  <2>2. ASSUME device.did # "refused" PROVE Underway'
    <3>1. OtherInv /\ AnswersInOrder
      BY <1>1, <1>6, <2>2 DEF RpcInv, Underway
    <3>2. OtherInv' /\ AnswersInOrder'
      BY <1>1, <1>6, <3>1, OtherSends
    <3> QED
      BY <1>6, <2>1, <3>2 DEF Underway
  <2> QED
    BY <1>3, <2>1, <2>2
<1> QED
  BY <1>2, <1>4, <1>5, <1>6 DEF WriteToPort

(* onSerialPortReadyRead(): the last answer ends the operation, with all of  *)
(* it done, and any other leaves it underway.                                *)
LEMMA ReadyReadKeeps == ASSUME RpcInv, ReadyRead PROVE RpcInv'
<1>1. TypeOK /\ TypeOK' /\ UNCHANGED <<requests, remote, device>> /\ op.phase = "started"
  BY ReadyReadTypes DEF RpcInv, ReadyRead
<1>2. op'.class = op.class
  <2>1. Head(replies) \in Replies /\ FeedResponse(Head(replies))
    BY <1>1, Taken DEF TypeOK, ReadyRead
  <2> QED
    BY <1>1, <2>1, FeedResponseTakes
<1>3. CASE device.did = "refused"
  BY <1>1, <1>3 DEF RpcInv, SuccessMeansDone
<1>4. CASE op'.phase = "finished" /\ op'.error # "none"
  BY <1>1, <1>4 DEF RpcInv, SuccessMeansDone
<1>5. CASE device.did # "refused" /\ (op'.phase # "finished" \/ op'.error = "none")
  <2>1. Underway
    BY <1>1, <1>5 DEF RpcInv
  <2>2. IF op'.phase = "finished" THEN SuccessMeansDone' ELSE Underway'
    <3>1. CASE op.class = StorageWrite
      BY <1>1, <1>2, <1>5, <2>1, <3>1, WriteReads, ClassFacts DEF Underway
    <3>2. CASE op.class = StorageRead
      BY <1>1, <1>2, <1>5, <2>1, <3>2, ReadReads, ClassFacts DEF Underway
    <3>3. CASE op.class \notin {StorageRead, StorageWrite}
      BY <1>1, <1>2, <1>5, <2>1, <3>3, OtherReads DEF Underway
    <3> QED
      BY <3>1, <3>2, <3>3
  <2>3. CASE op'.phase = "finished"
    BY <1>1, <2>2, <2>3 DEF RpcInv
  <2>4. CASE op'.phase # "finished"
    BY <1>1, <2>2, <2>4 DEF RpcInv, SuccessMeansDone
  <2> QED
    BY <2>3, <2>4
<1> QED
  BY <1>3, <1>4, <1>5

(* The device: what is refused stays refused.                                *)
LEMMA DeviceKeeps == ASSUME RpcInv, Device PROVE RpcInv'
<1>1. TypeOK /\ TypeOK' /\ UNCHANGED <<op, local>> /\ op.phase # "finished"
  BY DeviceTypes DEF RpcInv, Device
<1>2. device.did = "refused" => device'.did = "refused"
  BY <1>1 DEF Device, DeviceAsides, DeviceRefuses, TypeOK, Devices
<1>3. ASSUME device'.did # "refused" PROVE Underway'
  <2>1. Underway /\ device.did # "refused"
    BY <1>1, <1>2, <1>3 DEF RpcInv
  <2>2. CASE op.class = StorageWrite
    BY <1>1, <1>3, <2>1, <2>2, WriteDevice, ClassFacts DEF Underway
  <2>3. CASE op.class = StorageRead
    BY <1>1, <1>3, <2>1, <2>3, ReadDevice, ClassFacts DEF Underway
  <2>4. CASE op.class \notin {StorageRead, StorageWrite}
    BY <1>1, <1>3, <2>1, <2>4, OtherDevice DEF Underway
  <2> QED
    BY <2>2, <2>3, <2>4
<1> QED
  BY <1>1, <1>3 DEF RpcInv, SuccessMeansDone

(* Whatever its class, its file and the sizes of files and chunks, an        *)
(* operation underway has lost nothing and confused nothing.                 *)
THEOREM RpcIsSound == Spec => []RpcInv
<1>1. Init => RpcInv
  BY RpcInit
<1>2. RpcInv /\ [Next]_vars => RpcInv'
  <2> SUFFICES ASSUME RpcInv, [Next]_vars PROVE RpcInv'
    OBVIOUS
  <2>1. CASE Start
    BY <2>1, StartKeeps
  <2>2. CASE WriteToPort
    BY <2>2, WriteToPortKeeps
  <2>3. CASE ReadyRead
    BY <2>3, ReadyReadKeeps
  <2>4. CASE FinishLater
    <3>1. TypeOK' /\ op'.phase = "finished" /\ op'.class = op.class /\ op.class.oneWay
      BY <2>4, StepTypes, OpTypes DEF RpcInv, Next, FinishLater, Errors
    <3> QED
      BY <3>1 DEF RpcInv, SuccessMeansDone
  <2>5. CASE TimeoutOrAbort
    <3>1. TypeOK' /\ op'.phase = "finished" /\ op'.error \in {"Timeout", "Unknown"}
      BY <2>5, StepTypes, OpTypes DEF RpcInv, Next, TimeoutOrAbort, Errors
    <3> QED
      BY <3>1 DEF RpcInv, SuccessMeansDone
  <2>6. CASE Device
    BY <2>6, DeviceKeeps
  <2>7. CASE UNCHANGED vars
    <3>1. UNCHANGED <<TypeOK, SuccessMeansDone>>
      BY <2>7 DEF vars, TypeOK, SuccessMeansDone
    <3>2. Underway => Underway'
      BY <2>7, UnderwayStays DEF vars
    <3> QED
      BY <2>7, <3>1, <3>2 DEF RpcInv, vars
  <2> QED
    BY <2>1, <2>2, <2>3, <2>4, <2>5, <2>6, <2>7 DEF Next
<1> QED
  BY <1>1, <1>2, PTL DEF Spec

(* An operation that ends well has moved the whole file, has taken every     *)
(* part of its answer and has left nothing on the line.                      *)
THEOREM RpcSuccess == Spec => []SuccessMeansDone
<1>1. RpcInv => SuccessMeansDone
  BY DEF RpcInv
<1> QED
  BY <1>1, RpcIsSound, PTL

-----------------------------------------------------------------------------
(* UtilityOperation                                                          *)

-----------------------------------------------------------------------------
(* Paths                                                                     *)

(* The beginning of a path, of any length but none, is a path.               *)
LEMMA PathType ==
    ASSUME NEW p \in Path
    PROVE  /\ p \in Seq(STRING) /\ Len(p) \in Nat /\ Len(p) >= 1
           /\ SubSeq(p, 1, Len(p)) = p
BY PathsAreClosed, SubSeqFull, EmptySeq DEF Root

(* So it has the length that is asked for, and is a path unless it is the    *)
(* root.                                                                     *)
LEMMA Beginnings ==
    ASSUME NEW p \in Path, NEW n \in 0..Len(p)
    PROVE  /\ SubSeq(p, 1, n) \in Seq(STRING)
           /\ Len(SubSeq(p, 1, n)) = n
           /\ \A i \in 1..n : SubSeq(p, 1, n)[i] = p[i]
           /\ n >= 1 => SubSeq(p, 1, n) \in Path
           /\ n = 0 => SubSeq(p, 1, n) = Root
<1>1. p \in Seq(STRING) /\ Len(p) \in Nat
  BY PathType
<1>2. n \in Int /\ \A i \in 1..n : p[i] \in STRING
  BY <1>1, ElementOfSeq
<1>3. /\ SubSeq(p, 1, n) \in Seq(STRING)
      /\ Len(SubSeq(p, 1, n)) = n
      /\ \A i \in 1..n : SubSeq(p, 1, n)[i] = p[i]
  BY <1>1, <1>2, SubSeqProperties, 1 \in Int
<1>4. n >= 1 => SubSeq(p, 1, n) \in Path
  BY <1>1, PathsAreClosed
<1>5. n = 0 => SubSeq(p, 1, n) = Root
  BY SubSeqEmpty DEF Root
<1> QED
  BY <1>3, <1>4, <1>5

(* A beginning of a beginning is a beginning.                                *)
LEMMA BeginningOfBeginning ==
    ASSUME NEW p \in Path, NEW n \in 1..Len(p), NEW m \in 0..n
    PROVE  SubSeq(SubSeq(p, 1, n), 1, m) = SubSeq(p, 1, m)
<1> DEFINE q == SubSeq(p, 1, n)
<1>0. n \in 0..Len(p) /\ m \in 0..Len(p) /\ Len(p) \in Nat
  BY PathType
<1>1. q \in Path /\ Len(q) = n /\ \A i \in 1..n : q[i] = p[i]
  BY <1>0, Beginnings
<1>2. /\ SubSeq(q, 1, m) \in Seq(STRING) /\ Len(SubSeq(q, 1, m)) = m
      /\ \A i \in 1..m : SubSeq(q, 1, m)[i] = q[i]
  BY <1>1, Beginnings
<1>3. /\ SubSeq(p, 1, m) \in Seq(STRING) /\ Len(SubSeq(p, 1, m)) = m
      /\ \A i \in 1..m : SubSeq(p, 1, m)[i] = p[i]
  BY <1>0, Beginnings
<1> QED
  BY <1>1, <1>2, <1>3, SeqEqual

(* What is above a path is a beginning of it.                                *)
LEMMA AboveIsBeginning ==
    ASSUME NEW p \in Path, NEW q
    PROVE  q \in Above(p) <=> \E n \in 1..Len(p) : q = SubSeq(p, 1, n)
<1>1. ASSUME q \in Above(p)
      PROVE  \E n \in 1..Len(p) : q = SubSeq(p, 1, n)
  <2>1. q \in Path /\ Len(q) <= Len(p) /\ SubSeq(q, 1, Len(q)) = SubSeq(p, 1, Len(q))
    BY <1>1 DEF Above, IsPrefix
  <2> QED
    BY <2>1, PathType
<1>2. ASSUME NEW n \in 1..Len(p), q = SubSeq(p, 1, n)
      PROVE  q \in Above(p)
  <2>1. q \in Path /\ Len(q) = n
    BY <1>2, Beginnings, PathType
  <2>2. SubSeq(q, 1, n) = SubSeq(p, 1, n)
    BY <2>1, <1>2, PathType
  <2> QED
    BY <2>1, <2>2, PathType DEF Above, IsPrefix
<1> QED
  BY <1>1, <1>2

(* The parent of a path is one element shorter: the root, or a directory     *)
(* above it.                                                                 *)
LEMMA ParentOfPath ==
    ASSUME NEW p \in Path
    PROVE  /\ Parent(p) = SubSeq(p, 1, Len(p) - 1)
           /\ Len(p) - 1 \in 0..Len(p)
           /\ Len(Parent(p)) = Len(p) - 1
           /\ Parent(p) # p
           /\ Parent(p) = Root \/ Parent(p) \in Above(p)
           /\ Parent(p) = Root <=> Len(p) = 1
<1>1. Len(p) \in Nat /\ Len(p) >= 1 /\ Len(p) - 1 \in 0..Len(p)
  BY PathType
<1>2. Len(Parent(p)) = Len(p) - 1
  BY <1>1, Beginnings DEF Parent
<1>3. Parent(p) = Root \/ Parent(p) \in Above(p)
  <2>1. CASE Len(p) - 1 = 0
    BY <1>1, <2>1, Beginnings DEF Parent
  <2>2. CASE Len(p) - 1 # 0
    <3>1. Len(p) - 1 \in 1..Len(p)
      <4> DEFINE n == Len(p)
      <4>1. n \in Nat /\ n - 1 # 0 /\ n >= 1
        BY <1>1, <2>2
      <4> HIDE DEF n
      <4>2. n - 1 \in 1..n
        BY <4>1
      <4> QED
        BY <4>2 DEF n
    <3> QED
      BY <3>1, AboveIsBeginning DEF Parent
  <2> QED
    BY <2>1, <2>2
<1>4. Len(Root) = 0
  BY EmptySeq DEF Root
<1>5. Parent(p) = Root <=> Len(p) = 1
  <2>1. Len(p) = 1 => Parent(p) = Root
    BY <1>1, Beginnings, 1 - 1 = 0 DEF Parent
  <2>2. Parent(p) = Root => Len(p) = 1
    BY <1>1, <1>2, <1>4
  <2> QED
    BY <2>1, <2>2
<1>6. Parent(p) # p
  BY <1>1, <1>2
<1> QED
  BY <1>1, <1>2, <1>3, <1>5, <1>6 DEF Parent

(* The directories above a path are itself and those above its parent.       *)
LEMMA AboveItself ==
    ASSUME NEW p \in Path
    PROVE  p \in Above(p)
BY PathType, AboveIsBeginning, Len(p) \in 1..Len(p)

(* What is above a path, but for the path itself, is above its parent.       *)
LEMMA AboveParent ==
    ASSUME NEW p \in Path, NEW q \in Above(p), q # p
    PROVE  /\ Parent(p) \in Path
           /\ Parent(p) \in Above(p)
           /\ q \in Above(Parent(p))
<1>1. PICK n \in 1..Len(p) : q = SubSeq(p, 1, n)
  BY AboveIsBeginning
<1>2. Len(p) \in Nat /\ n # Len(p) /\ Len(p) # 1
  BY <1>1, PathType
<1>3. Len(p) - 1 \in 1..Len(p) /\ n \in 1..(Len(p) - 1) /\ n \in 0..(Len(p) - 1)
  BY <1>1, <1>2
<1>4. Parent(p) \in Path /\ Len(Parent(p)) = Len(p) - 1 /\ Parent(p) \in Above(p)
  <2>1. Parent(p) # Root
    BY <1>2, ParentOfPath
  <2> QED
    BY <2>1, ParentOfPath DEF Above
<1>5. SubSeq(Parent(p), 1, n) = q
  BY <1>1, <1>3, ParentOfPath, BeginningOfBeginning
<1> QED
  BY <1>3, <1>4, <1>5, AboveIsBeginning

(* To be above is transitive.                                                *)
LEMMA AboveAbove ==
    ASSUME NEW p \in Path, NEW q \in Above(p), NEW r \in Above(q)
    PROVE  r \in Above(p)
<1>1. PICK n \in 1..Len(p) : q = SubSeq(p, 1, n)
  BY AboveIsBeginning
<1>2. q \in Path /\ Len(q) = n /\ Len(p) \in Nat
  BY <1>1, PathType, Beginnings
<1>3. PICK m \in 1..Len(q) : r = SubSeq(q, 1, m)
  BY <1>2, AboveIsBeginning
<1>4. r = SubSeq(p, 1, m) /\ m \in 1..Len(p)
  BY <1>1, <1>2, <1>3, BeginningOfBeginning
<1> QED
  BY <1>4, AboveIsBeginning

(* And antisymmetric.                                                        *)
LEMMA AboveBothWays ==
    ASSUME NEW p \in Path, NEW q \in Above(p), p \in Above(q)
    PROVE  p = q
<1>1. q \in Path /\ Len(q) <= Len(p) /\ Len(p) <= Len(q)
  BY DEF Above, IsPrefix
<1>2. Len(p) = Len(q)
  BY <1>1, PathType
<1>3. SubSeq(q, 1, Len(q)) = SubSeq(p, 1, Len(q))
  BY DEF Above, IsPrefix
<1> QED
  BY <1>1, <1>2, <1>3, PathType

(* On the way from a directory, or the root, to what is in it there is one   *)
(* of its children.                                                          *)
LEMMA ChildOnTheWay ==
    ASSUME NEW p \in Path, NEW q, q = Root \/ (q \in Above(p) /\ q # p)
    PROVE  \E c \in Children(q) : c \in Above(p) /\ c # q
<1> DEFINE k == Len(q)
<1>1. Len(p) \in Nat /\ k \in 0..(Len(p) - 1) /\ SubSeq(p, 1, k) = q
  <2>1. CASE q = Root
    BY <2>1, EmptySeq, PathType, SubSeqEmpty DEF Root
  <2>2. CASE q \in Above(p) /\ q # p
    <3>1. PICK n \in 1..Len(p) : q = SubSeq(p, 1, n)
      BY <2>2, AboveIsBeginning
    <3>2. Len(p) \in Nat /\ n # Len(p) /\ Len(q) = n
      BY <2>2, <3>1, PathType, Beginnings
    <3> QED
      BY <3>1, <3>2
  <2> QED
    BY <2>1, <2>2
<1> DEFINE c == SubSeq(p, 1, k + 1)
<1>2. k + 1 \in 1..Len(p) /\ k + 1 \in 0..Len(p) /\ k \in 0..(k + 1)
  BY <1>1
<1> HIDE DEF k
<1>3. c \in Path /\ Len(c) = k + 1 /\ c \in Above(p)
  <2>1. k + 1 >= 1
    BY <1>2
  <2>2. c \in Path /\ Len(c) = k + 1
    BY <1>2, <2>1, Beginnings
  <2> QED
    BY <1>2, <2>2, AboveIsBeginning
<1>4. SubSeq(c, 1, k) = q
  BY <1>1, <1>2, BeginningOfBeginning
<1>5. Parent(c) = q
  BY <1>1, <1>3, <1>4, (k + 1) - 1 = k DEF Parent
<1>6. c # q
  BY <1>3, <1>5, ParentOfPath
<1> QED
  BY <1>3, <1>5, <1>6 DEF Children

(* The Manifest file is in the root, and is none of the paths of the         *)
(* resources, nor above one.                                                 *)
LEMMA ManifestPathIsApart ==
    /\ ManifestPath \notin Path /\ Root \notin Path /\ ManifestPath # Root
    /\ Parent(ManifestPath) = Root
    /\ \A p \in Path : Parent(p) # ManifestPath
<1>1. ManifestPath \notin Path /\ Root \notin Path
  BY PathsAreClosed
<1>2. Len(ManifestPath) = 1 /\ Len(Root) = 0
  BY DEF ManifestPath, Root
<1>3. Parent(ManifestPath) = Root
  BY <1>2, SubSeqEmpty DEF Parent, Root
<1>4. \A p \in Path : Parent(p) # ManifestPath
  BY <1>1, <1>2, ParentOfPath DEF Above
<1> QED
  BY <1>1, <1>2, <1>3, <1>4

-----------------------------------------------------------------------------
(* Trees                                                                     *)

Values == {"none", "dir"} \cup Contents
Tables == [Path -> Values]

(* What a tree is, without its definition as a set.                          *)
LEMMA TreeType ==
    ASSUME NEW t
    PROVE  t \in Trees <=>
             /\ t \in Tables
             /\ \A p \in Path : \A q \in Above(p) : t[p] # "none" /\ q # p => t[q] = "dir"
BY DEF Trees, Tables, Values, There, IsDir

(* The empty tree.                                                           *)
LEMMA EmptyIsTree == Empty \in Trees /\ There(Empty) = {} /\ \A p \in Path : Empty[p] = "none"
<1>1. Empty \in Tables /\ \A p \in Path : Empty[p] = "none"
  BY DEF Empty, Tables, Values
<1> QED
  BY <1>1, TreeType DEF There, Tables

(* A tree stays one when something is put where there is no directory and    *)
(* its parent is one.                                                        *)
LEMMA PutIsTree ==
    ASSUME NEW t \in Trees, NEW p \in Path, NEW v \in Values,
           t[p] # "dir" \/ v = "dir", Parent(p) = Root \/ IsDir(t, Parent(p))
    PROVE  [t EXCEPT ![p] = v] \in Trees
<1> DEFINE u == [t EXCEPT ![p] = v]
<1>1. t \in Tables /\ u \in Tables
  BY TreeType DEF Tables
<1>2. ASSUME NEW x \in Path, NEW q \in Above(x), u[x] # "none", q # x
      PROVE  u[q] = "dir"
  <2>0. q \in Path
    BY DEF Above
  <2>1. CASE x = p
    <3>1. Parent(p) \in Path /\ q \in Above(Parent(p))
      BY <1>2, <2>1, AboveParent
    <3>2. t[Parent(p)] = "dir"
      BY <3>1, ManifestPathIsApart DEF IsDir
    <3>3. t[q] = "dir"
      BY <3>1, <3>2, TreeType
    <3> QED
      BY <1>1, <1>2, <2>0, <2>1, <3>3 DEF Tables
  <2>2. CASE x # p
    <3>1. t[q] = "dir"
      BY <1>1, <1>2, <2>2, TreeType DEF Tables
    <3> QED
      BY <1>1, <2>0, <3>1 DEF Tables
  <2> QED
    BY <2>1, <2>2
<1> QED
  BY <1>1, <1>2, TreeType

(* Or when something is removed that has nothing in it.                      *)
LEMMA RemovedIsTree ==
    ASSUME NEW t \in Trees, NEW p \in Path, \A c \in Children(p) : t[c] = "none"
    PROVE  [t EXCEPT ![p] = "none"] \in Trees
<1> DEFINE u == [t EXCEPT ![p] = "none"]
<1>1. t \in Tables /\ u \in Tables
  BY TreeType DEF Tables, Values
<1>2. ASSUME NEW x \in Path, NEW q \in Above(x), u[x] # "none", q # x
      PROVE  u[q] = "dir"
  <2>1. x # p /\ t[x] # "none" /\ q \in Path
    BY <1>1, <1>2 DEF Tables, Above
  <2>2. t[q] = "dir"
    BY <2>1, <1>2, TreeType
  <2>3. q # p
    <3> SUFFICES ASSUME q = p PROVE FALSE
      OBVIOUS
    <3>1. PICK c \in Children(q) : c \in Above(x)
      BY <1>2, ChildOnTheWay
    <3>2. t[c] = "none" /\ c \in Path
      BY <3>1 DEF Children
    <3>3. c = x \/ t[c] = "dir"
      BY <2>1, <3>1, TreeType
    <3> QED
      BY <2>1, <3>2, <3>3
  <2> QED
    BY <1>1, <2>1, <2>2, <2>3 DEF Tables
<1> QED
  BY <1>1, <1>2, TreeType

(* What the device does, it does to one place, and the tree stays a tree.    *)
LEMMA CarriedType ==
    ASSUME storage \in Trees, host \in Tables, NEW r, r.path \in Path
    PROVE  /\ Carried(r) \in Trees
           /\ Carried(r) # storage /\ r.do = "write" => [storage EXCEPT ![r.path] = "torn"] \in Trees
<1> DEFINE p == r.path
           parentThere == Parent(p) = Root \/ IsDir(storage, Parent(p))
<1>0. storage \in Tables /\ host[p] \in Values
  BY TreeType DEF Tables
<1>1. CASE r.do = "remove"
  BY <1>1, RemovedIsTree DEF Carried
<1>2. CASE r.do = "write"
  <2>1. CASE ~IsDir(storage, p) /\ parentThere
    <3>1. storage[p] # "dir" /\ "torn" \in Values
      BY <2>1 DEF IsDir, Values, Contents
    <3>2. /\ [storage EXCEPT ![p] = host[p]] \in Trees
          /\ [storage EXCEPT ![p] = "torn"] \in Trees
      BY <1>0, <2>1, <3>1, PutIsTree
    <3> QED
      BY <1>2, <2>1, <3>2 DEF Carried
  <2>2. CASE ~(~IsDir(storage, p) /\ parentThere)
    BY <1>2, <2>2 DEF Carried
  <2> QED
    BY <2>1, <2>2
<1>3. CASE r.do = "mkdir"
  <2>1. CASE storage[p] = "none" /\ parentThere
    <3>1. "dir" \in Values
      BY DEF Values
    <3>2. [storage EXCEPT ![p] = "dir"] \in Trees
      BY <2>1, <3>1, PutIsTree
    <3> QED
      BY <1>3, <2>1, <3>2 DEF Carried
  <2>2. CASE ~(storage[p] = "none" /\ parentThere)
    BY <1>3, <2>2 DEF Carried
  <2> QED
    BY <2>1, <2>2
<1>4. CASE r.do \notin {"remove", "write", "mkdir"}
  BY <1>4 DEF Carried
<1> QED
  BY <1>1, <1>2, <1>3, <1>4

-----------------------------------------------------------------------------
(* Listings                                                                  *)

(* A list that names each of a set of paths once.                            *)
Enumerates(paths, S) ==
    /\ paths \in Seq(S)
    /\ \A p \in S : \E i \in 1..Len(paths) : paths[i] = p
    /\ \A i, j \in 1..Len(paths) : i < j => paths[i] # paths[j]
(* Directories come before what is in them.                                  *)
DirectoriesFirst(paths) == \A i, j \in 1..Len(paths) : i < j => Parent(paths[i]) # paths[j]

(* A listing names each of its paths once, directories first.                *)
LEMMA ListingFacts ==
    ASSUME NEW S, S \subseteq Path, NEW paths \in Listings(S)
    PROVE  Enumerates(paths, S) /\ DirectoriesFirst(paths)
<1>1. IsFiniteSet(S)
  BY PathsAreClosed, FS_Subset
<1>2. Cardinality(S) \in Nat
  BY <1>1, FS_CardinalityType
<1>3. paths \in [1..Cardinality(S) -> S]
  BY DEF Listings
<1>4. paths \in Seq(S) /\ Len(paths) = Cardinality(S) /\ DOMAIN paths = 1..Len(paths)
  BY <1>2, <1>3, SeqDef, LenProperties
<1> QED
  BY <1>4 DEF Listings, Enumerates, DirectoriesFirst

(* Two lists of different paths, one after the other.                        *)
LEMMA ConcatEnumerates ==
    ASSUME NEW S, NEW T, S \cap T = {}, NEW s, NEW t, Enumerates(s, S), Enumerates(t, T)
    PROVE  /\ Enumerates(s \o t, S \cup T)
           /\ Len(s \o t) = Len(s) + Len(t)
           /\ \A i \in 1..Len(s \o t) : (s \o t)[i] = IF i <= Len(s) THEN s[i] ELSE t[i - Len(s)]
           /\ \A i \in 1..Len(s \o t) : IF i <= Len(s) THEN (s \o t)[i] \in S
                                        ELSE (s \o t)[i] \in T /\ i - Len(s) \in 1..Len(t)
           /\ Len(s) \in Nat /\ Len(t) \in Nat
<1>1. /\ s \in Seq(S) /\ t \in Seq(T) /\ Len(s) \in Nat /\ Len(t) \in Nat
      /\ s \in Seq(S \cup T) /\ t \in Seq(S \cup T)
  BY SeqMonotonic, LenProperties DEF Enumerates
<1>2. /\ s \o t \in Seq(S \cup T)
      /\ Len(s \o t) = Len(s) + Len(t)
      /\ \A i \in 1..Len(s \o t) : (s \o t)[i] = IF i <= Len(s) THEN s[i] ELSE t[i - Len(s)]
  BY <1>1, ConcatProperties
<1>3. /\ \A i \in 1..Len(s) : s[i] \in S
      /\ \A i \in 1..Len(t) : t[i] \in T
  BY <1>1, ElementOfSeq
<1>4. \A i \in 1..Len(s \o t) : IF i <= Len(s) THEN i \in 1..Len(s) ELSE i - Len(s) \in 1..Len(t)
  BY <1>1, <1>2
<1>5. \A i \in 1..Len(s \o t) : IF i <= Len(s) THEN (s \o t)[i] \in S
                                ELSE (s \o t)[i] \in T /\ i - Len(s) \in 1..Len(t)
  BY <1>2, <1>3, <1>4
<1>6. \A p \in S \cup T : \E i \in 1..Len(s \o t) : (s \o t)[i] = p
  <2>1. ASSUME NEW p \in S
        PROVE  \E i \in 1..Len(s \o t) : (s \o t)[i] = p
    <3>1. PICK i \in 1..Len(s) : s[i] = p
      BY DEF Enumerates
    <3>2. i \in 1..Len(s \o t) /\ i <= Len(s)
      BY <1>1, <1>2
    <3> QED
      BY <3>1, <3>2, <1>2
  <2>2. ASSUME NEW p \in T
        PROVE  \E i \in 1..Len(s \o t) : (s \o t)[i] = p
    <3>1. PICK i \in 1..Len(t) : t[i] = p
      BY DEF Enumerates
    <3>2. i + Len(s) \in 1..Len(s \o t) /\ ~(i + Len(s) <= Len(s)) /\ (i + Len(s)) - Len(s) = i
      BY <1>1, <1>2
    <3> QED
      BY <3>1, <3>2, <1>2
  <2> QED
    BY <2>1, <2>2
<1>7. ASSUME NEW i \in 1..Len(s \o t), NEW j \in 1..Len(s \o t), i < j
      PROVE  (s \o t)[i] # (s \o t)[j]
  <2>1. CASE j <= Len(s)
    <3>1. i <= Len(s) /\ i \in 1..Len(s) /\ j \in 1..Len(s)
      BY <1>1, <1>7, <2>1, <1>2
    <3>2. (s \o t)[i] = s[i] /\ (s \o t)[j] = s[j]
      BY <1>2, <2>1, <3>1
    <3>3. s[i] # s[j]
      BY <1>7, <3>1 DEF Enumerates
    <3> QED
      BY <3>2, <3>3
  <2>2. CASE ~(i <= Len(s))
    <3>1. /\ ~(j <= Len(s)) /\ i - Len(s) \in 1..Len(t) /\ j - Len(s) \in 1..Len(t)
          /\ i - Len(s) < j - Len(s)
      BY <1>1, <1>7, <2>2, <1>2
    <3>2. t[i - Len(s)] # t[j - Len(s)]
      BY <3>1 DEF Enumerates
    <3> QED
      BY <1>2, <2>2, <3>1, <3>2
  <2>3. CASE i <= Len(s) /\ ~(j <= Len(s))
    BY <1>5, <2>3
  <2> QED
    BY <2>1, <2>2, <2>3, <1>1, <1>2, <1>7
<1> QED
  BY <1>1, <1>2, <1>5, <1>6, <1>7 DEF Enumerates

(* A list in the order in which things are deleted.                          *)
LEMMA ReverseEnumerates ==
    ASSUME NEW S, NEW s, Enumerates(s, S)
    PROVE  /\ Enumerates(Reverse(s), S)
           /\ Len(Reverse(s)) = Len(s) /\ Len(s) \in Nat
           /\ \A i \in 1..Len(s) : (Len(s) - i) + 1 \in 1..Len(s) /\ Reverse(s)[i] = s[(Len(s) - i) + 1]
<1>1. s \in Seq(S) /\ Len(s) \in Nat /\ \A i \in 1..Len(s) : s[i] \in S
  BY LenProperties, ElementOfSeq DEF Enumerates
<1> DEFINE n == Len(s)
           rev == Reverse(s)
<1>2. \A i \in 1..n : (n - i) + 1 \in 1..n
  BY <1>1
<1>3. rev \in [1..n -> S] /\ \A i \in 1..n : rev[i] = s[(n - i) + 1]
  BY <1>1, <1>2 DEF Reverse
<1>4. rev \in Seq(S) /\ Len(rev) = n
  BY <1>1, <1>3, SeqDef, LenProperties
<1>5. \A p \in S : \E i \in 1..n : rev[i] = p
  <2> TAKE p \in S
  <2>1. PICK k \in 1..n : s[k] = p
    BY DEF Enumerates
  <2>2. (n - k) + 1 \in 1..n /\ (n - ((n - k) + 1)) + 1 = k
    BY <1>1
  <2> QED
    BY <1>3, <2>1, <2>2
<1>6. ASSUME NEW i \in 1..n, NEW j \in 1..n, i < j
      PROVE  rev[i] # rev[j]
  <2>1. (n - j) + 1 < (n - i) + 1
    BY <1>1, <1>6
  <2> QED
    <3>1. s[(n - j) + 1] # s[(n - i) + 1]
      BY <1>2, <2>1 DEF Enumerates
    <3> QED
      BY <1>3, <3>1
<1> QED
  BY <1>1, <1>2, <1>3, <1>4, <1>5, <1>6 DEF Enumerates

(* A list of one.                                                            *)
LEMMA OneEnumerates ==
    ASSUME NEW p
    PROVE  Enumerates(<<p>>, {p}) /\ Len(<<p>>) = 1 /\ <<p>>[1] = p
BY DEF Enumerates

-----------------------------------------------------------------------------
(* The invariant: types                                                      *)

Manifests == {NoManifest, Corrupt} \cup {Readable(t) : t \in Tables}
JobStates ==
    {"Ready", "CheckingExtStorage", "ExtractingArchive", "ReadingLocalManifest", "CheckingDeviceManifest",
     "ReadingDeviceManifest", "BuildingFileLists", "DeletingFiles", "WritingFiles", "ReadingFileList",
     "VerifyingMd5Sum", "CreatingDirectory", "GettingFileTree", "ReadingFiles", "CreatingArchive",
     "UncompressingArchive", "ReadingBackupDir", "CheckingRootElement", "CheckingRemotePath",
     "CreatingRemotePath", "CheckingSDCard", "CheckingManifest", "Finished"}
StateOfKind(kind, state) ==
    \/ state \in {"Ready", "Finished"}
    \/ kind = "Assets" /\ state \in {"CheckingExtStorage", "ExtractingArchive", "ReadingLocalManifest",
                                     "CheckingDeviceManifest", "ReadingDeviceManifest", "BuildingFileLists",
                                     "DeletingFiles", "WritingFiles"}
    \/ kind = "Verify" /\ state \in {"ReadingFileList", "VerifyingMd5Sum"}
    \/ kind = "Upload" /\ state \in {"ReadingFileList", "WritingFiles"}
    \/ kind = "Download" /\ state \in {"CreatingDirectory", "GettingFileTree", "ReadingFiles"}
    \/ kind = "Backup" /\ state \in {"CreatingDirectory", "GettingFileTree", "ReadingFiles", "CreatingArchive"}
    \/ kind = "Restore" /\ state \in {"UncompressingArchive", "ReadingBackupDir", "DeletingFiles", "WritingFiles"}
    \/ kind = "PathCreate" /\ state \in {"CheckingRootElement", "CheckingRemotePath", "CreatingRemotePath"}
    \/ kind = "Refresh" /\ state \in {"CheckingSDCard", "CheckingManifest"}
Targets == {Chain(p) : p \in Path \cup {Root}}
Jobs == [kind : Kinds, target : Targets, state : JobStates, posted : BOOLEAN, error : BOOLEAN, manifest : Manifests,
         pending : Nat, found : SUBSET (Path \cup {"card", "assets"}), index : Nat]
LineRequests ==
    [do : {"info", "stat", "read", "remove", "write", "mkdir", "md5", "list", "other"},
     path : Places \cup {Root}, last : BOOLEAN, by : {"job", "other"}]
Histories ==
    [device : Trees, manifest : Manifests, refused : BOOLEAN, dropped : BOOLEAN, disk : BOOLEAN, tries : Nat]

LocalKinds == {"Assets", "Verify", "Upload", "Restore"}     \* they have a tree to begin with
UtilityTypeOK ==
    /\ job \in Jobs /\ StateOfKind(job.kind, job.state)
    /\ job.kind # "Refresh" => job.found \subseteq Path
    /\ job.state \in {"CheckingRootElement", "CheckingRemotePath"} => job.index \in DOMAIN job.target
    /\ host \in Tables
    /\ job.kind \in LocalKinds => host \in Trees
    /\ job.kind = "Assets" => There(host) # {}
    /\ storage \in Trees
    /\ manifest \in Manifests
    /\ card \in BOOLEAN
    /\ line \in Seq(LineRequests)
    /\ history \in Histories

(* The invariant: the line                                                   *)

Mine(l) == {i \in 1..Len(l) : l[i].by = "job"}
Left(l) == {l[i].path : i \in Mine(l)}

ToDelete == IF job.kind = "Assets" THEN Deleted \cup Replaced \cup {ManifestPath} ELSE There(host)
ToWrite == IF job.kind = "Assets" THEN Added \cup Replaced \cup {ManifestPath} ELSE There(host)

(* The requests there may be in a state: at most one but in those of Many.   *)
Fits(r) ==
    \/ job.state \in {"CheckingExtStorage", "CheckingSDCard"} /\ r.do = "info" /\ r.path = Root
    \/ job.state \in {"CheckingDeviceManifest", "CheckingManifest"} /\ r.do = "stat" /\ r.path = ManifestPath
    \/ At("ReadingDeviceManifest") /\ r.do = "read" /\ r.path = ManifestPath
    \/ At("DeletingFiles") /\ r.do = "remove" /\ r.path \in ToDelete
    \/ At("WritingFiles") /\ r.path \in ToWrite /\ r.do = WriteOrMkdir[r.path]
    \/ At("VerifyingMd5Sum") /\ r.do = "md5" /\ r.path \in Files(host)
    \/ At("GettingFileTree") /\ r.do = "list" /\ r.path \in Path \cup {Root}
    \/ At("ReadingFiles") /\ r.do = "read" /\ r.path \in job.found
    \/ /\ (At("CheckingRemotePath") /\ r.do = "stat") \/ (At("CreatingRemotePath") /\ r.do = "mkdir")
       /\ job.index \in DOMAIN job.target /\ r.path = job.target[job.index]
Many == {"DeletingFiles", "WritingFiles", "VerifyingMd5Sum", "GettingFileTree", "ReadingFiles"}

(* Each request is for another path, and the last of them takes the operation *)
(* on; a directory is made before what is in it.  The manifest is deleted     *)
(* before the files that are only deleted, and written after the added ones.  *)
Distinct(l) == \A i, j \in Mine(l) : i < j => ~l[i].last /\ l[i].path # l[j].path
WritesInOrder(l) ==
    \A i, j \in Mine(l) : i < j =>
      /\ l[j].path # Parent(l[i].path)
      /\ job.kind = "Assets" => ~(l[i].path = ManifestPath /\ l[j].path \in Added)
DeletesInOrder(l) ==
    \A i, j \in Mine(l) : i < j => ~(l[j].path = ManifestPath /\ l[i].path \in Deleted)
Lawful(l) ==
    /\ \A i \in Mine(l) : Fits(l[i])
    /\ ~At("GettingFileTree") => Distinct(l)
    /\ job.state \notin Many => \A i, j \in Mine(l) : i = j
    /\ At("WritingFiles") => WritesInOrder(l)
    /\ At("DeletingFiles") /\ job.kind = "Assets" => DeletesInOrder(l)

OtherClients(l) == {i \in 1..Len(l) : l[i].by = "other"}
OneOther(l) == \A i, j \in OtherClients(l) : i = j
LineInv ==
    /\ OneOther(line)
    /\ job.posted => job.state # "Finished" /\ Mine(line) = {}
    /\ history.dropped => line = <<>> /\ ~job.posted
    /\ NothingLeftInLine
    /\ job.state # "Finished" => Lawful(line)
    /\ At("GettingFileTree") => Len(line) <= job.pending + (IF OtherClients(line) = {} THEN 0 ELSE 1)

UtilityBase == UtilityTypeOK /\ LineInv

-----------------------------------------------------------------------------
(* Lines                                                                     *)

(* What is left of the line when its first request has ended.                *)
LEMMA TailLine ==
    ASSUME NEW l \in Seq(LineRequests), l # <<>>
    PROVE  /\ Tail(l) \in Seq(LineRequests) /\ Len(Tail(l)) = Len(l) - 1 /\ Len(l) \in Nat /\ Len(l) >= 1
           /\ Head(l) \in LineRequests /\ Head(l) = l[1]
           /\ \A i \in Mine(Tail(l)) : i + 1 \in Mine(l) /\ Tail(l)[i] = l[i + 1]
           /\ \A i \in OtherClients(Tail(l)) : i + 1 \in OtherClients(l)
           /\ Left(l) = Left(Tail(l)) \cup (IF Head(l).by = "job" THEN {Head(l).path} ELSE {})
           /\ OneOther(l) => OneOther(Tail(l)) /\ (Head(l).by = "other" => OtherClients(Tail(l)) = {})
           /\ Head(l).by = "job" => (OtherClients(Tail(l)) = {} <=> OtherClients(l) = {})
           /\ Head(l).by = "job" <=> 1 \in Mine(l)
           /\ Head(l).by = "other" <=> 1 \in OtherClients(l)
           /\ Distinct(l) => Distinct(Tail(l))
           /\ Distinct(l) /\ Head(l).by = "job" =>
                 Head(l).path \notin Left(Tail(l)) /\ (Head(l).last => Mine(Tail(l)) = {})
<1>1. /\ Tail(l) \in Seq(LineRequests) /\ Len(Tail(l)) = Len(l) - 1 /\ Len(l) \in Nat /\ Len(l) >= 1
      /\ Head(l) \in LineRequests /\ Head(l) = l[1]
      /\ \A i \in 1..Len(Tail(l)) : Tail(l)[i] = l[i + 1]
  BY HeadTailProperties, EmptySeq, LenProperties
<1>2. \A i \in 1..Len(l) : l[i] \in LineRequests /\ l[i].by \in {"job", "other"}
  <2>1. \A i \in 1..Len(l) : l[i] \in LineRequests
    BY ElementOfSeq
  <2> QED
    BY <2>1 DEF LineRequests
<1>3. \A i \in 1..Len(Tail(l)) : i + 1 \in 1..Len(l) /\ i + 1 # 1
  BY <1>1
<1>4. \A i \in 1..Len(l) : i # 1 => i - 1 \in 1..Len(Tail(l)) /\ (i - 1) + 1 = i
  BY <1>1
<1>5. \A i \in Mine(Tail(l)) : i + 1 \in Mine(l) /\ Tail(l)[i] = l[i + 1]
  BY <1>1, <1>3 DEF Mine
<1>6. \A i \in OtherClients(Tail(l)) : i + 1 \in OtherClients(l)
  BY <1>1, <1>3 DEF OtherClients
<1>7. \A i \in Mine(l) : i # 1 => i - 1 \in Mine(Tail(l)) /\ Tail(l)[i - 1] = l[i]
  BY <1>1, <1>4 DEF Mine
<1>8. \A i \in OtherClients(l) : i # 1 => i - 1 \in OtherClients(Tail(l))
  BY <1>1, <1>4 DEF OtherClients
<1>9. (Head(l).by = "job" <=> 1 \in Mine(l)) /\ (Head(l).by = "other" <=> 1 \in OtherClients(l))
  BY <1>1 DEF Mine, OtherClients
<1>10. Left(l) = Left(Tail(l)) \cup (IF Head(l).by = "job" THEN {Head(l).path} ELSE {})
  <2>1. ASSUME NEW i \in Mine(Tail(l))
        PROVE  Tail(l)[i].path \in Left(l)
    BY <1>5 DEF Left
  <2>2. ASSUME NEW i \in Mine(l), i # 1
        PROVE  l[i].path \in Left(Tail(l))
    <3>1. i - 1 \in Mine(Tail(l)) /\ Tail(l)[i - 1] = l[i]
      BY <1>7, <2>2
    <3>2. Tail(l)[i - 1].path \in Left(Tail(l))
      BY <3>1 DEF Left
    <3> QED
      BY <3>1, <3>2
  <2>3. Left(l) \subseteq Left(Tail(l)) \cup (IF Head(l).by = "job" THEN {Head(l).path} ELSE {})
    BY <1>1, <1>9, <2>2 DEF Left
  <2>4. Head(l).by = "job" => Head(l).path \in Left(l)
    BY <1>1, <1>9 DEF Left
  <2>5. Left(Tail(l)) \subseteq Left(l)
    BY <2>1 DEF Left
  <2> QED
    BY <2>3, <2>4, <2>5
<1>11. OneOther(l) => OneOther(Tail(l)) /\ (Head(l).by = "other" => OtherClients(Tail(l)) = {})
  <2>1. \A i \in OtherClients(Tail(l)) : i \in 1..Len(Tail(l)) /\ i + 1 # 1
    BY <1>3 DEF OtherClients
  <2> QED
    BY <2>1, <1>6, <1>9 DEF OneOther
<1>12. Head(l).by = "job" => (OtherClients(Tail(l)) = {} <=> OtherClients(l) = {})
  BY <1>1, <1>6, <1>8, <1>9 DEF OtherClients
<1>13. \A i, j \in Mine(Tail(l)) : i < j => i + 1 < j + 1 /\ 1 < j + 1 /\ 1 < i + 1
  BY <1>1 DEF Mine
<1>14. Distinct(l) => Distinct(Tail(l))
  <2>1. ASSUME Distinct(l), NEW i \in Mine(Tail(l)), NEW j \in Mine(Tail(l)), i < j
        PROVE  ~Tail(l)[i].last /\ Tail(l)[i].path # Tail(l)[j].path
    <3>1. /\ i + 1 \in Mine(l) /\ j + 1 \in Mine(l) /\ i + 1 < j + 1
          /\ Tail(l)[i] = l[i + 1] /\ Tail(l)[j] = l[j + 1]
      BY <1>5, <1>13, <2>1
    <3>2. ~l[i + 1].last /\ l[i + 1].path # l[j + 1].path
      BY <2>1, <3>1 DEF Distinct
    <3> QED
      BY <3>1, <3>2
  <2> QED
    BY <2>1 DEF Distinct
<1>15. Distinct(l) /\ Head(l).by = "job" =>
          Head(l).path \notin Left(Tail(l)) /\ (Head(l).last => Mine(Tail(l)) = {})
  <2>1. \A i \in Mine(Tail(l)) : 1 < i + 1
    BY <1>1 DEF Mine
  <2> QED
    BY <2>1, <1>1, <1>5, <1>9 DEF Distinct, Left
<1> QED
  BY <1>1, <1>5, <1>6, <1>9, <1>10, <1>11, <1>12, <1>14, <1>15

(* The line after requests have joined it.                                   *)
LEMMA ConcatLine ==
    ASSUME NEW a \in Seq(LineRequests), NEW b \in Seq(LineRequests)
    PROVE  /\ a \o b \in Seq(LineRequests) /\ Len(a \o b) = Len(a) + Len(b)
           /\ Len(a) \in Nat /\ Len(b) \in Nat
           /\ \A i \in 1..Len(a \o b) : (a \o b)[i] = IF i <= Len(a) THEN a[i] ELSE b[i - Len(a)]
           /\ \A i \in Mine(a \o b) : IF i <= Len(a) THEN i \in Mine(a) ELSE i - Len(a) \in Mine(b)
           /\ \A i \in OtherClients(a \o b) : IF i <= Len(a) THEN i \in OtherClients(a) ELSE i - Len(a) \in OtherClients(b)
           /\ Left(a \o b) = Left(a) \cup Left(b)
           /\ OtherClients(b) = {} => OtherClients(a \o b) = OtherClients(a)
<1>1. /\ a \o b \in Seq(LineRequests) /\ Len(a \o b) = Len(a) + Len(b)
      /\ Len(a) \in Nat /\ Len(b) \in Nat
      /\ \A i \in 1..Len(a \o b) : (a \o b)[i] = IF i <= Len(a) THEN a[i] ELSE b[i - Len(a)]
  BY ConcatProperties, LenProperties
<1>2. \A i \in 1..Len(a \o b) : IF i <= Len(a) THEN i \in 1..Len(a) ELSE i - Len(a) \in 1..Len(b)
  BY <1>1
<1>3. \A i \in 1..Len(a) : i \in 1..Len(a \o b) /\ i <= Len(a)
  BY <1>1
<1>4. \A i \in 1..Len(b) : i + Len(a) \in 1..Len(a \o b) /\ ~(i + Len(a) <= Len(a)) /\ (i + Len(a)) - Len(a) = i
  BY <1>1
<1>5. \A i \in Mine(a \o b) : IF i <= Len(a) THEN i \in Mine(a) ELSE i - Len(a) \in Mine(b)
  BY <1>1, <1>2 DEF Mine
<1>6. \A i \in OtherClients(a \o b) : IF i <= Len(a) THEN i \in OtherClients(a) ELSE i - Len(a) \in OtherClients(b)
  BY <1>1, <1>2 DEF OtherClients
<1>7. (\A i \in Mine(a) : i \in Mine(a \o b)) /\ (\A i \in Mine(b) : i + Len(a) \in Mine(a \o b))
  BY <1>1, <1>3, <1>4 DEF Mine
<1>8. Left(a \o b) = Left(a) \cup Left(b)
  <2>1. ASSUME NEW i \in Mine(a \o b)
        PROVE  (a \o b)[i].path \in Left(a) \cup Left(b)
    <3>1. i \in 1..Len(a \o b)
      BY DEF Mine
    <3> QED
      BY <3>1, <1>1, <1>5 DEF Left
  <2>2. ASSUME NEW i \in Mine(a)
        PROVE  a[i].path \in Left(a \o b)
    <3>1. i \in 1..Len(a) /\ i \in Mine(a \o b)
      BY <1>7 DEF Mine
    <3> QED
      BY <3>1, <1>1, <1>3 DEF Left
  <2>3. ASSUME NEW i \in Mine(b)
        PROVE  b[i].path \in Left(a \o b)
    <3>1. i \in 1..Len(b) /\ i + Len(a) \in Mine(a \o b)
      BY <1>7 DEF Mine
    <3>2. (a \o b)[i + Len(a)] = b[i]
      BY <3>1, <1>1, <1>4
    <3> QED
      BY <3>1, <3>2 DEF Left
  <2> QED
    BY <2>1, <2>2, <2>3 DEF Left
<1>9. OtherClients(b) = {} => OtherClients(a \o b) = OtherClients(a)
  <2>1. \A i \in OtherClients(a) : i \in OtherClients(a \o b)
    BY <1>1, <1>3 DEF OtherClients
  <2> QED
    BY <2>1, <1>1, <1>2, <1>6 DEF OtherClients
<1> QED
  BY <1>1, <1>5, <1>6, <1>8, <1>9

(* A line of one request.                                                    *)
LEMMA OneLine ==
    ASSUME NEW r \in LineRequests
    PROVE  /\ <<r>> \in Seq(LineRequests) /\ Len(<<r>>) = 1 /\ <<r>>[1] = r
           /\ r.by = "job" => Mine(<<r>>) = {1} /\ OtherClients(<<r>>) = {} /\ Left(<<r>>) = {r.path}
           /\ r.by = "other" => Mine(<<r>>) = {} /\ OtherClients(<<r>>) = {1} /\ Left(<<r>>) = {}
<1>1. <<r>> \in Seq(LineRequests) /\ Len(<<r>>) = 1 /\ <<r>>[1] = r
  OBVIOUS
<1>2. 1..Len(<<r>>) = {1}
  BY <1>1
<1>3. /\ r.by = "job" => Mine(<<r>>) = {1} /\ OtherClients(<<r>>) = {}
      /\ r.by = "other" => Mine(<<r>>) = {} /\ OtherClients(<<r>>) = {1}
  BY <1>1, <1>2 DEF Mine, OtherClients
<1> HIDE DEF Mine
<1>4. /\ r.by = "job" => Left(<<r>>) = {r.path}
      /\ r.by = "other" => Left(<<r>>) = {}
  BY <1>1, <1>3 DEF Left
<1> QED
  BY <1>1, <1>3, <1>4

(* A line that has been cleared.                                             *)
LEMMA EmptyLine == Mine(<<>>) = {} /\ Left(<<>>) = {} /\ OtherClients(<<>>) = {} /\ <<>> \in Seq(LineRequests)
<1>1. 1..Len(<<>>) = {} /\ <<>> \in Seq(LineRequests)
  BY EmptySeq
<1> QED
  BY <1>1 DEF Mine, Left, OtherClients

(* One request that joins the line.                                          *)
LEMMA AppendLine ==
    ASSUME NEW l \in Seq(LineRequests), NEW r \in LineRequests
    PROVE  Append(l, r) = l \o <<r>>
<1>1. <<r>> \in Seq(LineRequests) /\ Len(<<r>>) = 1 /\ <<r>>[1] = r /\ Len(l) \in Nat
  BY LenProperties
<1>2. /\ l \o <<r>> \in Seq(LineRequests) /\ Len(l \o <<r>>) = Len(l) + 1
      /\ \A i \in 1..Len(l) + 1 : (l \o <<r>>)[i] = IF i <= Len(l) THEN l[i] ELSE <<r>>[i - Len(l)]
  BY <1>1, ConcatProperties
<1>3. /\ Append(l, r) \in Seq(LineRequests) /\ Len(Append(l, r)) = Len(l) + 1
      /\ \A i \in 1..Len(l) + 1 : Append(l, r)[i] = IF i <= Len(l) THEN l[i] ELSE r
  BY <1>1
<1>4. \A i \in 1..Len(l) + 1 : ~(i <= Len(l)) => i - Len(l) = 1
  BY <1>1
<1>5. \A i \in 1..Len(l) + 1 : Append(l, r)[i] = (l \o <<r>>)[i]
  BY <1>1, <1>2, <1>3, <1>4
<1> QED
  BY <1>2, <1>3, <1>5, SeqEqual

(* An operation that has nothing in the line asks behind the requests of     *)
(* others.                                                                   *)
LEMMA RequestsAfterOthers ==
    ASSUME NEW a \in Seq(LineRequests), NEW b \in Seq(LineRequests), Mine(a) = {}
    PROVE  /\ \A i \in Mine(a \o b) : i - Len(a) \in Mine(b) /\ (a \o b)[i] = b[i - Len(a)]
           /\ \A i, j \in Mine(a \o b) : i < j => i - Len(a) < j - Len(a)
           /\ Left(a \o b) = Left(b)
           /\ OneOther(a) /\ OtherClients(b) = {} => OneOther(a \o b)
<1>1. ASSUME NEW i \in Mine(a \o b)
      PROVE  i - Len(a) \in Mine(b) /\ (a \o b)[i] = b[i - Len(a)] /\ i \in Nat
  <2>1. i \in 1..Len(a \o b) /\ i \in Nat
    BY ConcatLine DEF Mine
  <2>2. ~(i <= Len(a))
    BY ConcatLine
  <2> QED
    BY <2>1, <2>2, ConcatLine
<1>2. Len(a) \in Nat
  BY LenProperties
<1>3. \A i, j \in Mine(a \o b) : i < j => i - Len(a) < j - Len(a)
  BY <1>1, <1>2
<1>4. Left(a) = {}
  BY DEF Left
<1>5. Left(a \o b) = Left(b)
  <2>1. Left(a \o b) = Left(a) \cup Left(b)
    BY ConcatLine
  <2> QED
    BY <1>4, <2>1
<1>6. OneOther(a) /\ OtherClients(b) = {} => OneOther(a \o b)
  BY ConcatLine DEF OneOther
<1> QED
  BY <1>1, <1>3, <1>5, <1>6

Doings == {"remove", "write", "mkdir", "md5", "read"}
(* One request for each of a set of places.                                  *)
OneForEach(rs, paths, S, Do) ==
    /\ rs \in Seq(LineRequests)
    /\ Mine(rs) = 1..Len(paths) /\ Len(paths) \in Nat
    /\ OtherClients(rs) = {}
    /\ Left(rs) = S
    /\ Distinct(rs)
    /\ \A i \in 1..Len(paths) : paths[i] \in S /\ rs[i].path = paths[i] /\ rs[i].do = Do[paths[i]]
(* What ForEach makes of a list: one request for each path, in its order,    *)
(* the last one marked.                                                      *)
LEMMA ForEachLine ==
    ASSUME NEW S, S \subseteq Places, NEW paths, Enumerates(paths, S), NEW Do, \A p \in S : Do[p] \in Doings
    PROVE  OneForEach(ForEach(paths, Do), paths, S, Do)
<1> DEFINE rs == ForEach(paths, Do)
           n == Len(paths)
<1>1. paths \in Seq(S) /\ n \in Nat /\ DOMAIN paths = 1..n /\ \A i \in 1..n : paths[i] \in S
  BY LenProperties, ElementOfSeq DEF Enumerates
<1>2. rs = [i \in 1..n |-> Ask(Do[paths[i]], paths[i], i = n)]
  BY <1>1 DEF ForEach
<1>3. \A i \in 1..n : Ask(Do[paths[i]], paths[i], i = n) \in LineRequests
  BY <1>1 DEF Ask, LineRequests, Doings
<1>4. rs \in [1..n -> LineRequests]
  BY <1>2, <1>3
<1>5. rs \in Seq(LineRequests) /\ Len(rs) = n
  BY <1>1, <1>4, SeqDef, LenProperties
<1>6. \A i \in 1..n : /\ rs[i].path = paths[i] /\ rs[i].do = Do[paths[i]]
                      /\ rs[i].by = "job" /\ rs[i].last = (i = n)
  BY <1>2 DEF Ask
<1> HIDE DEF rs
<1>7. Mine(rs) = 1..n /\ OtherClients(rs) = {}
  BY <1>5, <1>6 DEF Mine, OtherClients
<1>8. Left(rs) = S
  <2>1. Left(rs) = {rs[i].path : i \in 1..n}
    BY <1>7 DEF Left
  <2>2. \A p \in S : \E i \in 1..n : paths[i] = p
    BY DEF Enumerates
  <2> QED
    <3>1. ASSUME NEW p \in S
          PROVE  p \in Left(rs)
      <4>1. PICK i \in 1..n : paths[i] = p
        BY <2>2
      <4>2. rs[i].path = p
        BY <4>1, <1>6
      <4> QED
        BY <4>2, <2>1
    <3>2. \A i \in 1..n : rs[i].path \in S
      BY <1>1, <1>6
    <3> QED
      BY <3>1, <3>2, <2>1
<1>9. Distinct(rs)
  <2>1. ASSUME NEW i \in 1..n, NEW j \in 1..n, i < j
        PROVE  ~rs[i].last /\ rs[i].path # rs[j].path
    <3>1. paths[i] # paths[j]
      BY <2>1 DEF Enumerates
    <3>2. i # n
      <4>1. n \in Nat
        BY <1>1
      <4> HIDE DEF n
      <4> QED
        BY <4>1, <2>1
    <3> QED
      BY <3>1, <3>2, <1>6
  <2> QED
    BY <2>1, <1>7 DEF Distinct
<1> QED
  BY <1>1, <1>5, <1>6, <1>7, <1>8, <1>9 DEF rs, OneForEach

-----------------------------------------------------------------------------
(* The lists of an install                                                   *)

(* What the type invariant says of the parts of the state, with the trees as *)
(* tables.                                                                   *)
LEMMA BaseTypes ==
    ASSUME UtilityTypeOK
    PROVE  /\ job.manifest \in Manifests /\ job.manifest.lists \in Tables
           /\ job.kind \in Kinds /\ job.target \in Targets /\ job.posted \in BOOLEAN /\ job.error \in BOOLEAN
           /\ job.pending \in Nat /\ job.index \in Nat
           /\ storage \in Tables /\ history.device \in Tables /\ history.device \in Trees
           /\ history.manifest \in Manifests /\ history.manifest.lists \in Tables
           /\ There(host) = {p \in Path : host[p] # "none"}
           /\ Files(host) = {p \in Path : host[p] \in Contents}
           /\ There(storage) = {p \in Path : storage[p] # "none"}
           /\ There(history.device) = {p \in Path : history.device[p] # "none"}
           /\ OnDevice = job.manifest.lists
           /\ There(OnDevice) = {p \in Path : OnDevice[p] # "none"}
           /\ Files(OnDevice) = {p \in Path : OnDevice[p] \in Contents}
<1>1. /\ job.manifest \in Manifests
      /\ job.kind \in Kinds /\ job.target \in Targets /\ job.posted \in BOOLEAN /\ job.error \in BOOLEAN
      /\ job.pending \in Nat /\ job.index \in Nat
  BY DEF UtilityTypeOK, Jobs
<1>2. history.device \in Trees /\ history.manifest \in Manifests
  BY DEF UtilityTypeOK, Histories
<1>3. ASSUME NEW m \in Manifests
      PROVE  m.lists \in Tables
  <2>1. Empty \in Tables
    BY EmptyIsTree, TreeType
  <2> QED
    BY <1>3, <2>1 DEF Manifests, NoManifest, Corrupt, Readable, Manifest
<1>4. storage \in Tables /\ history.device \in Tables /\ host \in Tables
  BY <1>2, TreeType DEF UtilityTypeOK
<1>5. OnDevice = job.manifest.lists /\ OnDevice \in Tables
  BY <1>1, <1>3 DEF OnDevice
<1>6. \A t \in Tables : There(t) = {p \in Path : t[p] # "none"} /\ Files(t) = {p \in Path : t[p] \in Contents}
  BY DEF Tables, There, Files
<1> QED
  BY <1>1, <1>2, <1>3, <1>4, <1>5, <1>6

NothingToDo == ~FreshInstall /\ Deleted \cup Added \cup Replaced = {}

(* What is added and replaced is to be there; nothing is in two of the lists *)
(* but what changes its type, and only files are replaced.                   *)
LEMMA ListsOfInstall ==
    ASSUME UtilityTypeOK, job.kind = "Assets"
    PROVE  /\ Deleted \subseteq Path /\ Added \subseteq There(host) /\ Replaced \subseteq There(host)
           /\ There(host) \subseteq Path
           /\ Deleted \cap Replaced = {} /\ Added \cap Replaced = {}
           /\ \A p \in Replaced : host[p] \in Contents
           /\ \A p \in Added : Parent(p) \notin Replaced
           /\ \A p \in There(host) : Parent(p) = Root \/ (Parent(p) \in Path /\ host[Parent(p)] = "dir")
<1>0. host \in Trees /\ host \in Tables /\ There(host) = {p \in Path : host[p] # "none"}
  BY BaseTypes DEF UtilityTypeOK, LocalKinds
<1>1. Deleted \subseteq Path /\ Added \subseteq There(host) /\ Replaced \subseteq There(host) /\ There(host) \subseteq Path
  <2>1. Deleted \subseteq Path
    BY BaseTypes DEF Deleted
  <2>2. Added \subseteq There(host)
    BY DEF Added, Difference
  <2>3. Replaced \subseteq There(host)
    BY DEF Replaced, Changed
  <2> QED
    BY <1>0, <2>1, <2>2, <2>3
<1>2. \A p \in Path : p \in Above(p)
  BY AboveItself
<1>3. ASSUME NEW p \in Replaced
      PROVE  /\ ~FreshInstall /\ p \notin Difference(OnDevice, host) /\ OnDevice[p] # host[p] /\ p \in Path
             /\ \A q \in Above(p) : OnDevice[q] # "none" /\ IsDir(OnDevice, q) = IsDir(host, q)
    BY <1>1 DEF Replaced, Changed, Difference
<1>4. \A p \in Replaced : host[p] \in Contents
  <2> TAKE p \in Replaced
  <2>1. IsDir(OnDevice, p) = IsDir(host, p) /\ OnDevice[p] # host[p] /\ p \in Path
    BY <1>2, <1>3
  <2>2. host[p] \in Values /\ host[p] # "none"
    BY <1>0, <1>1, <2>1 DEF Tables
  <2> QED
    BY <2>1, <2>2 DEF Values, IsDir
<1>5. \A p \in Replaced : p \notin Added
  BY <1>3 DEF Added
<1>6. ASSUME NEW p \in Replaced
      PROVE  p \notin Deleted
  <2>1. \A q \in Above(p) : host[q] # "none"
    BY <1>0, <1>1, TreeType
  <2>2. \A q \in Above(p) : IsDir(host, q) = IsDir(OnDevice, q)
    BY <1>3
  <2>3. p \notin Difference(host, OnDevice)
    BY <2>1, <2>2 DEF Difference
  <2> QED
    BY <1>3, <2>3 DEF Deleted
<1>7. \A p \in There(host) : Parent(p) = Root \/ (Parent(p) \in Path /\ host[Parent(p)] = "dir")
  <2> TAKE p \in There(host)
  <2>1. p \in Path /\ host[p] # "none"
    BY <1>0
  <2>2. Parent(p) = Root \/ (Parent(p) \in Above(p) /\ Parent(p) # p /\ Parent(p) \in Path)
    BY <2>1, ParentOfPath DEF Above
  <2> QED
    BY <1>0, <2>1, <2>2, TreeType
<1>8. \A p \in Added : Parent(p) \notin Replaced
  BY <1>1, <1>4, <1>7, ManifestPathIsApart DEF Contents
<1> QED
  BY <1>1, <1>4, <1>5, <1>6, <1>7, <1>8

(* Only nothing has an empty list.                                           *)
LEMMA EmptyEnumerates ==
    ASSUME NEW S
    PROVE  Enumerates(<<>>, S) <=> S = {}
<1>1. 1..Len(<<>>) = {} /\ <<>> \in Seq(S)
  BY EmptySeq
<1> QED
  BY <1>1 DEF Enumerates

(* The manifest goes with what is replaced.                                  *)
Updated == IF NothingToDo THEN {} ELSE {ManifestPath} \cup Replaced
(* The list that deletes and writes share: the manifest and what is          *)
(* replaced, or nothing at all.                                              *)
LEMMA UpdatesFacts ==
    ASSUME UtilityTypeOK, job.kind = "Assets", NEW updates \in Updates
    PROVE  Enumerates(updates, Updated) /\ DirectoriesFirst(updates)
<1>1. CASE NothingToDo
  <2>1. updates = <<>>
    BY <1>1 DEF Updates, NothingToDo
  <2>2. 1..Len(<<>>) = {}
    BY EmptySeq
  <2> QED
    BY <1>1, <2>1, <2>2, EmptyEnumerates DEF Updated, DirectoriesFirst
<1>2. CASE ~NothingToDo
  <2>1. PICK paths \in Listings(Replaced) : updates = <<ManifestPath>> \o paths
    BY <1>2 DEF Updates, NothingToDo
  <2>2. Replaced \subseteq Path
    BY ListsOfInstall
  <2>3. Enumerates(paths, Replaced) /\ DirectoriesFirst(paths)
    BY <2>2, ListingFacts
  <2>4. {ManifestPath} \cap Replaced = {}
    BY <2>2, ManifestPathIsApart
  <2>5. /\ Enumerates(updates, {ManifestPath} \cup Replaced)
        /\ \A i \in 1..Len(updates) : updates[i] = IF i <= 1 THEN ManifestPath ELSE paths[i - 1]
        /\ \A i \in 1..Len(updates) : ~(i <= 1) => i - 1 \in 1..Len(paths) /\ updates[i] \in Replaced
    <3>1. Enumerates(<<ManifestPath>>, {ManifestPath}) /\ Len(<<ManifestPath>>) = 1 /\ <<ManifestPath>>[1] = ManifestPath
      BY OneEnumerates
    <3> DEFINE o == <<ManifestPath>>
    <3> HIDE DEF o
    <3>2. Enumerates(o, {ManifestPath}) /\ Len(o) = 1 /\ o[1] = ManifestPath /\ updates = o \o paths
      BY <2>1, <3>1 DEF o
    <3>3. Enumerates(o \o paths, {ManifestPath} \cup Replaced)
      BY <2>3, <2>4, <3>2, ConcatEnumerates
    <3>4. \A i \in 1..Len(o \o paths) : (o \o paths)[i] = IF i <= Len(o) THEN o[i] ELSE paths[i - Len(o)]
      <4>1. o \in Seq({ManifestPath} \cup Replaced) /\ paths \in Seq({ManifestPath} \cup Replaced)
        BY <2>3, <3>2, SeqMonotonic DEF Enumerates
      <4> QED
        BY <4>1, ConcatProperties
    <3>5. \A i \in 1..Len(o \o paths) : IF i <= Len(o) THEN (o \o paths)[i] \in {ManifestPath}
                                         ELSE (o \o paths)[i] \in Replaced /\ i - Len(o) \in 1..Len(paths)
      BY <2>3, <2>4, <3>2, ConcatEnumerates
    <3>6. \A i \in 1..Len(updates) : i <= 1 => i = 1
      OBVIOUS
    <3> QED
      BY <3>2, <3>3, <3>4, <3>5, <3>6
  <2>6. ASSUME NEW i \in 1..Len(updates), NEW j \in 1..Len(updates), i < j
        PROVE  Parent(updates[i]) # updates[j]
    <3>1. CASE i <= 1
      BY <3>1, <2>2, <2>5, <2>6, ManifestPathIsApart
    <3>2. CASE ~(i <= 1)
      <4>1. i - 1 \in 1..Len(paths) /\ j - 1 \in 1..Len(paths) /\ i - 1 < j - 1 /\ ~(j <= 1)
        BY <3>2, <2>5, <2>6
      <4>2. Parent(paths[i - 1]) # paths[j - 1]
        BY <4>1, <2>3 DEF DirectoriesFirst
      <4> QED
        BY <3>2, <4>1, <4>2, <2>5
    <3> QED
      BY <3>1, <3>2
  <2> QED
    BY <1>2, <2>5, <2>6 DEF Updated, DirectoriesFirst
<1> QED
  BY <1>1, <1>2

(* Whatever the order of the lists: the manifest is deleted before the files *)
(* that are only deleted, and written after those that are added.            *)
LEMMA DeleteListsFacts ==
    ASSUME UtilityTypeOK, job.kind = "Assets", NEW paths \in DeleteLists
    PROVE  /\ Enumerates(paths, IF NothingToDo THEN {} ELSE ToDelete)
           /\ \A i, j \in 1..Len(paths) : i < j => ~(paths[j] = ManifestPath /\ paths[i] \in Deleted)
<1>1. PICK s \in Listings(Deleted), u \in Updates : paths = Reverse(s \o u)
  BY DEF DeleteLists
<1>2. Deleted \subseteq Path /\ Deleted \cap Updated = {}
  BY ListsOfInstall, ManifestPathIsApart DEF Updated
<1>3. Enumerates(s, Deleted) /\ Enumerates(u, Updated)
  BY <1>2, ListingFacts, UpdatesFacts
<1> DEFINE t == s \o u
<1>4. /\ Enumerates(t, Deleted \cup Updated)
      /\ \A i \in 1..Len(t) : IF i <= Len(s) THEN t[i] \in Deleted ELSE t[i] \in Updated
      /\ Len(s) \in Nat
  BY <1>2, <1>3, ConcatEnumerates
<1>5. Deleted \cup Updated = (IF NothingToDo THEN {} ELSE ToDelete)
  BY DEF Updated, ToDelete, NothingToDo
<1> HIDE DEF t
<1>6. /\ Enumerates(paths, Deleted \cup Updated)
      /\ Len(paths) = Len(t) /\ Len(t) \in Nat
      /\ \A i \in 1..Len(t) : (Len(t) - i) + 1 \in 1..Len(t) /\ paths[i] = t[(Len(t) - i) + 1]
  BY <1>1, <1>4, ReverseEnumerates DEF t
<1>7. ASSUME NEW i \in 1..Len(paths), NEW j \in 1..Len(paths), i < j, paths[j] = ManifestPath, paths[i] \in Deleted
      PROVE  FALSE
  <2> DEFINE x == (Len(t) - i) + 1
             y == (Len(t) - j) + 1
  <2>1. x \in 1..Len(t) /\ y \in 1..Len(t) /\ y < x
    BY <1>6, <1>7
  <2>2. t[x] \in Deleted /\ t[y] = ManifestPath
    BY <1>6, <1>7
  <2> HIDE DEF x, y
  <2>3. ~(y <= Len(s)) /\ x <= Len(s)
    BY <2>1, <2>2, <1>2, <1>4, ManifestPathIsApart
  <2> QED
    BY <2>1, <2>3, <1>4, <1>6
<1> QED
  BY <1>5, <1>6, <1>7

(* The same of what is written: directories first, the manifest after what   *)
(* is added.                                                                 *)
LEMMA WriteListsFacts ==
    ASSUME UtilityTypeOK, job.kind = "Assets", NEW paths \in WriteLists
    PROVE  /\ Enumerates(paths, IF NothingToDo THEN {} ELSE ToWrite)
           /\ DirectoriesFirst(paths)
           /\ \A i, j \in 1..Len(paths) : i < j => ~(paths[i] = ManifestPath /\ paths[j] \in Added)
<1>1. PICK s \in Listings(Added), u \in Updates : paths = s \o u
  BY DEF WriteLists
<1>2. Added \subseteq Path /\ Added \cap Updated = {}
  BY ListsOfInstall, ManifestPathIsApart DEF Updated
<1>3. Enumerates(s, Added) /\ Enumerates(u, Updated) /\ DirectoriesFirst(s) /\ DirectoriesFirst(u)
  BY <1>2, ListingFacts, UpdatesFacts
<1>4. /\ Enumerates(paths, Added \cup Updated)
      /\ \A i \in 1..Len(paths) : paths[i] = IF i <= Len(s) THEN s[i] ELSE u[i - Len(s)]
      /\ \A i \in 1..Len(paths) : IF i <= Len(s) THEN paths[i] \in Added
                                  ELSE paths[i] \in Updated /\ i - Len(s) \in 1..Len(u)
      /\ Len(s) \in Nat /\ Len(u) \in Nat
  <2>1. Enumerates(s \o u, Added \cup Updated) /\ Len(s) \in Nat /\ Len(u) \in Nat
    BY <1>2, <1>3, ConcatEnumerates
  <2>2. \A i \in 1..Len(s \o u) : (s \o u)[i] = IF i <= Len(s) THEN s[i] ELSE u[i - Len(s)]
    BY <1>2, <1>3, ConcatEnumerates
  <2>3. \A i \in 1..Len(s \o u) : IF i <= Len(s) THEN (s \o u)[i] \in Added
                                   ELSE (s \o u)[i] \in Updated /\ i - Len(s) \in 1..Len(u)
    BY <1>2, <1>3, ConcatEnumerates
  <2> QED
    BY <1>1, <2>1, <2>2, <2>3
<1>5. Added \cup Updated = (IF NothingToDo THEN {} ELSE ToWrite)
  BY DEF Updated, ToWrite, NothingToDo
<1>6. ASSUME NEW i \in 1..Len(paths), NEW j \in 1..Len(paths), i < j
      PROVE  /\ Parent(paths[i]) # paths[j]
             /\ ~(paths[i] = ManifestPath /\ paths[j] \in Added)
  <2>1. CASE j <= Len(s)
    <3>1. i \in 1..Len(s) /\ j \in 1..Len(s) /\ i <= Len(s)
      BY <2>1, <1>4, <1>6
    <3>2. Parent(s[i]) # s[j]
      BY <3>1, <1>3, <1>6 DEF DirectoriesFirst
    <3> QED
      BY <2>1, <3>1, <3>2, <1>2, <1>4, ManifestPathIsApart
  <2>2. CASE ~(j <= Len(s)) /\ i <= Len(s)
    <3>1. paths[i] \in Added /\ paths[j] \in {ManifestPath} \cup Replaced /\ paths[j] \notin Added
      BY <2>2, <1>2, <1>4 DEF Updated
    <3>2. Parent(paths[i]) \notin Replaced /\ Parent(paths[i]) # ManifestPath
      BY <3>1, <1>2, ListsOfInstall, ManifestPathIsApart
    <3> QED
      BY <3>1, <3>2
  <2>3. CASE ~(i <= Len(s))
    <3>1. /\ i - Len(s) \in 1..Len(u) /\ j - Len(s) \in 1..Len(u) /\ i - Len(s) < j - Len(s)
          /\ ~(j <= Len(s)) /\ paths[j] \notin Added
      BY <2>3, <1>2, <1>4, <1>6
    <3>2. Parent(u[i - Len(s)]) # u[j - Len(s)]
      BY <3>1, <1>3 DEF DirectoriesFirst
    <3> QED
      BY <2>3, <3>1, <3>2, <1>4
  <2> QED
    BY <2>1, <2>2, <2>3
<1> QED
  BY <1>4, <1>5, <1>6 DEF DirectoriesFirst

-----------------------------------------------------------------------------
(* The base of the invariant: steps of the operation                         *)

(* The lists depend on the files here and on the manifest that was read, and *)
(* change with nothing else.                                                 *)
LEMMA SameLists ==
    ASSUME job'.kind = job.kind, job'.manifest = job.manifest, host' = host
    PROVE  /\ Deleted' = Deleted /\ Added' = Added /\ Replaced' = Replaced
           /\ ToDelete' = ToDelete /\ ToWrite' = ToWrite /\ NothingToDo' = NothingToDo
           /\ WriteOrMkdir' = WriteOrMkdir /\ FreshInstall' = FreshInstall /\ OnDevice' = OnDevice
<1>1. FreshInstall' = FreshInstall /\ OnDevice' = OnDevice
  BY DEF FreshInstall, OnDevice
<1>2. Deleted' = Deleted /\ Added' = Added /\ Replaced' = Replaced
  BY <1>1 DEF Deleted, Added, Replaced
<1> QED
  BY <1>1, <1>2 DEF ToDelete, ToWrite, NothingToDo, WriteOrMkdir

(* An operation with nothing in the line.                                    *)
LEMMA NothingInLine ==
    ASSUME UtilityTypeOK', OneOther(line'), Mine(line') = {},
           job'.posted => job'.state # "Finished",
           history'.dropped => line' = <<>> /\ ~job'.posted,
           job'.state = "GettingFileTree" => Len(line') <= job'.pending + (IF OtherClients(line') = {} THEN 0 ELSE 1)
    PROVE  UtilityBase'
<1>1. NothingLeftInLine'
  BY DEF NothingLeftInLine, Mine, UtilityTypeOK
<1>2. Lawful(line)'
  BY DEF Lawful, Distinct, WritesInOrder, DeletesInOrder
<1> QED
  BY <1>1, <1>2 DEF UtilityBase, LineInv, At

(* A step that only changes the state.                                       *)
LEMMA PassesKeeps ==
    ASSUME UtilityBase, job.posted, NEW s \in JobStates, StateOfKind(job.kind, s),
           s \notin {"Finished", "GettingFileTree", "CheckingRootElement", "CheckingRemotePath"}, Passes(s)
    PROVE  UtilityBase'
<1>1. job' = [job EXCEPT !.state = s] /\ UNCHANGED <<host, storage, manifest, card, line, history>>
  BY DEF Passes
<1>2. UtilityTypeOK'
  BY <1>1 DEF UtilityBase, UtilityTypeOK, Jobs
<1>3. job'.state = s /\ job' \in Jobs
  BY <1>1, <1>2 DEF UtilityBase, UtilityTypeOK, Jobs
<1> QED
  BY <1>1, <1>2, <1>3, NothingInLine DEF UtilityBase, LineInv

(* An operation that is over, and what stays of it.                          *)
LEMMA OverFacts ==
    ASSUME job \in Jobs, NEW error \in BOOLEAN
    PROVE  /\ Over(error) \in Jobs /\ Over(error).state = "Finished" /\ Over(error).posted = FALSE
           /\ Over(error).error = error /\ Over(error).kind = job.kind /\ Over(error).target = job.target
           /\ Over(error).manifest = job.manifest /\ Over(error).found = job.found
           /\ Over(error).index = job.index /\ Over(error).pending = job.pending
BY DEF Over, Jobs, JobStates

(* A step that ends the operation; it has nothing in the line.               *)
LEMMA FinishesKeeps ==
    ASSUME UtilityBase, job.posted, NEW error \in BOOLEAN, Finishes(error)
    PROVE  UtilityBase'
<1>1. job' = Over(error) /\ UNCHANGED <<host, storage, manifest, card, line, history>>
  BY DEF Finishes
<1>2. UtilityTypeOK'
  <2>1. /\ job' \in Jobs /\ job'.state = "Finished" /\ job'.kind = job.kind /\ job'.found = job.found
    BY <1>1, OverFacts DEF UtilityBase, UtilityTypeOK
  <2>2. StateOfKind(job'.kind, job'.state)
    BY <2>1 DEF StateOfKind
  <2> QED
    BY <1>1, <2>1, <2>2 DEF UtilityBase, UtilityTypeOK
<1>3. job'.state = "Finished" /\ ~job'.posted
  BY <1>1, OverFacts DEF UtilityBase, UtilityTypeOK
<1> QED
  BY <1>1, <1>2, <1>3, NothingInLine DEF UtilityBase, LineInv

(* An operation that puts requests in the line, when it has none there.      *)
Grows(rs) == line' = line \o rs
(* It puts in the line what fits its new state.                              *)
LEMMA LineGrowsKeeps ==
    ASSUME UtilityBase, UtilityTypeOK', Mine(line) = {}, ~history.dropped, UNCHANGED history, ~job'.posted,
           job'.state \notin {"Finished", "GettingFileTree"},
           NEW rs \in Seq(LineRequests), OtherClients(rs) = {}, Grows(rs), Lawful(rs)'
    PROVE  UtilityBase' /\ Left(line') = Left(rs)
<1>1. line \in Seq(LineRequests) /\ OneOther(line)
  BY DEF UtilityBase, UtilityTypeOK, LineInv
<1>2. /\ OneOther(line') /\ Left(line') = Left(rs)
      /\ \A i \in Mine(line') : i - Len(line) \in Mine(rs) /\ line'[i] = rs[i - Len(line)]
      /\ \A i, j \in Mine(line') : i < j => i - Len(line) < j - Len(line)
  <2>1. OneOther(line \o rs) /\ Left(line \o rs) = Left(rs)
    BY <1>1, RequestsAfterOthers
  <2>2. \A i \in Mine(line \o rs) : i - Len(line) \in Mine(rs) /\ (line \o rs)[i] = rs[i - Len(line)]
    BY <1>1, RequestsAfterOthers
  <2>3. \A i, j \in Mine(line \o rs) : i < j => i - Len(line) < j - Len(line)
    BY <1>1, RequestsAfterOthers
  <2> QED
    BY <2>1, <2>2, <2>3 DEF Grows
<1>3. Lawful(line)'
  <2>1. (\A i \in Mine(line) : Fits(line[i]))'
    <3>1. \A i \in Mine(rs) : Fits(rs[i])'
      BY DEF Lawful
    <3> QED
      BY <1>2, <3>1 DEF Fits
  <2>2. Distinct(line')
    BY <1>2 DEF Lawful, Distinct, At
  <2>3. job'.state \notin Many => \A i, j \in Mine(line') : i = j
    <3>1. Len(line) \in Nat /\ \A i \in Mine(line') : i \in Int
      BY <1>1, LenProperties DEF Mine
    <3>2. \A i, j \in Mine(line') : i - Len(line) = j - Len(line) => i = j
      BY <3>1
    <3> QED
      BY <3>2, <1>2 DEF Lawful
  <2>4. At("WritingFiles")' => WritesInOrder(line)'
    BY <1>2 DEF Lawful, WritesInOrder
  <2>5. At("DeletingFiles")' /\ job'.kind = "Assets" => DeletesInOrder(line)'
    BY <1>2 DEF Lawful, DeletesInOrder
  <2> QED
    BY <2>1, <2>2, <2>3, <2>4, <2>5 DEF Lawful
<1> QED
  BY <1>2, <1>3 DEF UtilityBase, LineInv, NothingLeftInLine, At

(* The same when it asks for one thing or for many, as AsksFor does.         *)
LEMMA AsksForKeeps ==
    ASSUME UtilityBase, job.posted, NEW s \in JobStates, StateOfKind(job.kind, s),
           s \notin {"Finished", "GettingFileTree", "CheckingRootElement"},
           s = "CheckingRemotePath" => job.index \in DOMAIN job.target,
           NEW rs \in Seq(LineRequests), OtherClients(rs) = {}, AsksFor(s, rs), Lawful(rs)'
    PROVE  UtilityBase' /\ Left(line') = Left(rs)
<1>1. /\ job' = [job EXCEPT !.state = s, !.posted = FALSE] /\ line' = line \o rs
      /\ UNCHANGED <<host, storage, manifest, card, history>>
  BY DEF AsksFor
<1>2. line' \in Seq(LineRequests) /\ Mine(line) = {} /\ ~history.dropped
  BY <1>1, ConcatLine DEF UtilityBase, UtilityTypeOK, LineInv
<1>3. UtilityTypeOK'
  BY <1>1, <1>2 DEF UtilityBase, UtilityTypeOK, Jobs
<1>4. job'.state = s /\ ~job'.posted
  BY <1>1 DEF UtilityBase, UtilityTypeOK, Jobs
<1> QED
  BY <1>1, <1>2, <1>3, <1>4, LineGrowsKeeps DEF Grows

(* It asks for one thing.                                                    *)
LEMMA AsksOneKeeps ==
    ASSUME UtilityBase, job.posted, NEW s \in JobStates, StateOfKind(job.kind, s),
           s \notin Many \cup {"Finished", "CheckingRootElement"},
           s = "CheckingRemotePath" => job.index \in DOMAIN job.target,
           NEW r \in LineRequests, r.by = "job", AsksFor(s, <<r>>), Fits(r)'
    PROVE  UtilityBase' /\ Left(line') = {r.path}
<1>1. job'.state = s
  BY DEF AsksFor, UtilityBase, UtilityTypeOK, Jobs
<1>2. PICK rs : rs = <<r>>
  OBVIOUS
<1>3. rs \in Seq(LineRequests) /\ OtherClients(rs) = {} /\ Mine(rs) = {1} /\ rs[1] = r /\ Left(rs) = {r.path}
  BY <1>2, OneLine
<1>4. Lawful(rs)'
  BY <1>1, <1>3 DEF Lawful, Distinct, At, Many
<1> QED
  BY <1>2, <1>3, <1>4, AsksForKeeps DEF Many

(* It asks for one thing of each of a set of paths, in an order that fits.   *)
LEMMA AsksForEachKeeps ==
    ASSUME UtilityBase, job.posted, NEW s \in JobStates, StateOfKind(job.kind, s),
           s \in {"DeletingFiles", "WritingFiles", "VerifyingMd5Sum", "ReadingFiles"},
           NEW S, S \subseteq Places, NEW paths, Enumerates(paths, S), NEW Do, \A p \in S : Do[p] \in Doings,
           AsksFor(s, ForEach(paths, Do)),
           \A r \in LineRequests : r.path \in S /\ r.do = Do[r.path] => Fits(r)',
           s = "WritingFiles" =>
              /\ DirectoriesFirst(paths)
              /\ job.kind = "Assets" =>
                    \A i, j \in 1..Len(paths) : i < j => ~(paths[i] = ManifestPath /\ paths[j] \in Added),
           s = "DeletingFiles" /\ job.kind = "Assets" =>
              \A i, j \in 1..Len(paths) : i < j => ~(paths[j] = ManifestPath /\ paths[i] \in Deleted)
    PROVE  UtilityBase' /\ Left(line') = S
<1>1. /\ job' = [job EXCEPT !.state = s, !.posted = FALSE] /\ UNCHANGED host
      /\ job'.state = s /\ job'.kind = job.kind /\ job'.manifest = job.manifest
  BY DEF AsksFor, UtilityBase, UtilityTypeOK, Jobs
<1>2. Added' = Added /\ Deleted' = Deleted
  BY <1>1, SameLists
<1>3. PICK rs : rs = ForEach(paths, Do)
  OBVIOUS
<1>4. /\ rs \in Seq(LineRequests) /\ Mine(rs) = 1..Len(paths) /\ Len(paths) \in Nat
      /\ OtherClients(rs) = {} /\ Left(rs) = S /\ Distinct(rs)
      /\ \A i \in 1..Len(paths) : paths[i] \in S /\ rs[i].path = paths[i] /\ rs[i].do = Do[paths[i]]
  <2>1. OneForEach(rs, paths, S, Do)
    BY <1>3, ForEachLine
  <2> QED
    BY <2>1 DEF OneForEach
<1>5. \A i \in Mine(rs) : rs[i] \in LineRequests
  BY <1>4, ElementOfSeq DEF Mine
<1>6. \A i \in Mine(rs) : Fits(rs[i])'
  BY <1>4, <1>5
<1>7. s = "WritingFiles" => WritesInOrder(rs)'
  BY <1>1, <1>2, <1>4 DEF WritesInOrder, DirectoriesFirst
<1>8. s = "DeletingFiles" /\ job.kind = "Assets" => DeletesInOrder(rs)'
  BY <1>1, <1>2, <1>4 DEF DeletesInOrder
<1>9. Lawful(rs)'
  BY <1>1, <1>4, <1>6, <1>7, <1>8 DEF Lawful, At, Many
<1> QED
  BY <1>3, <1>4, <1>9, AsksForKeeps

(* The elements of the path to create.                                       *)
LEMMA TargetFacts ==
    ASSUME UtilityTypeOK
    PROVE  /\ Len(job.target) \in Nat /\ DOMAIN job.target = 1..Len(job.target)
           /\ job.target = <<>> <=> Len(job.target) = 0
           /\ \A n \in 1..Len(job.target) :
                /\ job.target[n] \in Path
                /\ IF n = 1 THEN Parent(job.target[n]) = Root
                   ELSE n - 1 \in 1..Len(job.target) /\ Parent(job.target[n]) = job.target[n - 1]
                /\ \A m \in 1..Len(job.target) : job.target[m] = job.target[n] => m = n
<1>1. PICK p \in Path \cup {Root} : job.target = Chain(p)
  BY BaseTypes DEF Targets
<1>2. CASE p = Root
  <2>1. Len(Root) = 0 /\ 1..0 = {}
    BY DEF Root
  <2>2. job.target = [n \in {} |-> SubSeq(p, 1, n)]
    BY <1>1, <1>2, <2>1 DEF Chain
  <2>3. job.target = <<>>
    BY <2>2, EmptySeq
  <2> QED
    BY <2>3, EmptySeq
<1>3. CASE p \in Path
  <2> DEFINE t == job.target
  <2>1. Len(p) \in Nat /\ Len(p) >= 1
    BY <1>3, PathType
  <2>2. \A n \in 1..Len(p) : SubSeq(p, 1, n) \in Path /\ Len(SubSeq(p, 1, n)) = n
    BY <1>3, Beginnings
  <2>3. t \in [1..Len(p) -> Path]
    BY <1>1, <2>2 DEF Chain
  <2>4. Len(t) = Len(p) /\ DOMAIN t = 1..Len(p) /\ t \in Seq(Path)
    BY <2>1, <2>3, SeqDef, LenProperties
  <2>5. \A n \in 1..Len(p) : t[n] = SubSeq(p, 1, n) /\ t[n] \in Path /\ Len(t[n]) = n
    BY <1>1, <2>2 DEF Chain
  <2>6. ASSUME NEW n \in 1..Len(p)
        PROVE  IF n = 1 THEN Parent(t[n]) = Root
               ELSE n - 1 \in 1..Len(p) /\ Parent(t[n]) = t[n - 1]
    <3>1. CASE n = 1
      <4>1. Len(t[n]) = 1 /\ t[n] \in Path
        BY <2>5, <3>1
      <4> QED
        BY <3>1, <4>1, ParentOfPath
    <3>2. CASE n # 1
      <4>1. n - 1 \in 1..Len(p) /\ n - 1 \in 0..n
        BY <2>1, <3>2
      <4>2. Parent(t[n]) = SubSeq(SubSeq(p, 1, n), 1, n - 1)
        BY <2>5 DEF Parent
      <4>3. SubSeq(SubSeq(p, 1, n), 1, n - 1) = SubSeq(p, 1, n - 1)
        BY <1>3, <4>1, BeginningOfBeginning
      <4> QED
        BY <3>2, <4>1, <4>2, <4>3, <2>5
    <3> QED
      BY <3>1, <3>2
  <2>7. \A n, m \in 1..Len(p) : t[m] = t[n] => m = n
    BY <2>5
  <2>8. t # <<>>
    BY <2>1, <2>4, EmptySeq
  <2> QED
    BY <2>1, <2>4, <2>5, <2>6, <2>7, <2>8
<1> QED
  BY <1>1, <1>2, <1>3

(* In a line with nothing of the operation there is at most the request of   *)
(* another client.                                                           *)
LEMMA QuietLength ==
    ASSUME NEW l \in Seq(LineRequests), Mine(l) = {}, OneOther(l)
    PROVE  Len(l) <= (IF OtherClients(l) = {} THEN 0 ELSE 1)
<1>1. Len(l) \in Nat
  BY LenProperties
<1>2. \A i \in 1..Len(l) : i \in OtherClients(l)
  <2> TAKE i \in 1..Len(l)
  <2>1. l[i] \in LineRequests
    BY ElementOfSeq
  <2> QED
    BY <2>1 DEF LineRequests, Mine, OtherClients
<1>3. CASE Len(l) = 0
  BY <1>3
<1>4. CASE Len(l) # 0
  <2>1. 1 \in 1..Len(l) /\ Len(l) \in 1..Len(l)
    BY <1>1, <1>4
  <2>2. 1 = Len(l) /\ OtherClients(l) # {}
    BY <2>1, <1>2 DEF OneOther
  <2>3. Len(l) = 1 /\ (IF OtherClients(l) = {} THEN 0 ELSE 1) = 1 /\ 1 <= 1
    BY <2>2
  <2> QED
    BY <2>3
<1> QED
  BY <1>3, <1>4

(* Listing the root begins the tree.                                         *)
LEMMA GetFileTreeKeeps ==
    ASSUME UtilityBase, job.posted, job.kind \in {"Download", "Backup"}, GetFileTree
    PROVE  UtilityBase' /\ Left(line') = {Root}
<1>1. /\ job' = [job EXCEPT !.state = "GettingFileTree", !.posted = FALSE, !.pending = 1]
      /\ line' = Append(line, ListDirectory(Root))
      /\ UNCHANGED <<host, storage, manifest, card, history>>
  BY DEF GetFileTree
<1>2. line \in Seq(LineRequests) /\ Mine(line) = {} /\ ~history.dropped /\ OneOther(line)
  BY DEF UtilityBase, UtilityTypeOK, LineInv
<1>3. PICK r : r = ListDirectory(Root)
  OBVIOUS
<1>4. r \in LineRequests /\ r.by = "job" /\ r.do = "list" /\ r.path = Root
  BY <1>3 DEF ListDirectory, Ask, LineRequests
<1>5. PICK rs : rs = <<r>>
  OBVIOUS
<1>6. rs \in Seq(LineRequests) /\ Len(rs) = 1 /\ rs[1] = r /\ OtherClients(rs) = {} /\ Mine(rs) = {1} /\ Left(rs) = {Root}
  BY <1>4, <1>5, OneLine
<1>7. line' = line \o rs
  BY <1>1, <1>2, <1>3, <1>4, <1>5, AppendLine
<1>8. job'.state = "GettingFileTree" /\ ~job'.posted /\ job'.pending = 1 /\ job' \in Jobs /\ job'.kind = job.kind
      /\ job'.found = job.found
  BY <1>1 DEF UtilityBase, UtilityTypeOK, Jobs, JobStates
<1>9. /\ line' \in Seq(LineRequests) /\ Len(line') = Len(line) + 1 /\ Len(line) \in Nat
      /\ OtherClients(line') = OtherClients(line)
  BY <1>2, <1>6, <1>7, ConcatLine
<1>10. OneOther(line') /\ Left(line') = {Root} /\ \A i \in Mine(line') : line'[i] = r
  <2>1. OneOther(line \o rs) /\ Left(line \o rs) = Left(rs)
    BY <1>2, <1>6, RequestsAfterOthers
  <2>2. line \in Seq(LineRequests) /\ rs \in Seq(LineRequests) /\ Mine(line) = {}
    BY <1>2, <1>6
  <2>3. \A i \in Mine(line \o rs) : i - Len(line) \in Mine(rs) /\ (line \o rs)[i] = rs[i - Len(line)]
    BY <2>2, RequestsAfterOthers
  <2> QED
    BY <1>6, <1>7, <2>1, <2>3
<1>11. StateOfKind(job'.kind, job'.state)
  BY <1>8 DEF StateOfKind
<1>12. UtilityTypeOK'
  BY <1>1, <1>8, <1>9, <1>11 DEF UtilityBase, UtilityTypeOK
<1>13. Lawful(line)'
  BY <1>4, <1>8, <1>10 DEF Lawful, Fits, At, Many
<1>14. Len(line') <= job'.pending + (IF OtherClients(line') = {} THEN 0 ELSE 1)
  BY <1>2, <1>8, <1>9, QuietLength
<1> QED
  BY <1>1, <1>2, <1>8, <1>10, <1>12, <1>13, <1>14 DEF UtilityBase, LineInv, NothingLeftInLine

(* Reading the files, or giving up over a directory.                         *)
LEMMA ReadFilesKeeps ==
    ASSUME UtilityBase, job.posted, job.kind \in {"Download", "Backup"}, ReadFiles
    PROVE  /\ UtilityBase'
           /\ job'.state # "Finished" => Left(line') = {p \in job.found : ~IsDir(storage, p)}
<1>1. line \in Seq(LineRequests) /\ Mine(line) = {} /\ ~history.dropped /\ OneOther(line)
  BY DEF UtilityBase, UtilityTypeOK, LineInv
<1>2. job.found \subseteq Path /\ job.kind \notin LocalKinds /\ host \in Tables /\ job \in Jobs /\ job.kind # "Assets"
  BY DEF UtilityBase, UtilityTypeOK, LocalKinds
<1>3. \A p \in Path : Read[p] \in Doings
  BY DEF Read, Doings
<1>4. ASSUME NEW S, S \subseteq job.found, NEW paths \in Listings(S), NEW rs, rs = ForEach(paths, Read)
      PROVE  OneForEach(rs, paths, S, Read) /\ \A i \in Mine(rs) : rs[i].do = "read" /\ rs[i].path \in job.found
  <2>1. S \subseteq Path /\ S \subseteq Places
    BY <1>2, <1>4 DEF Places
  <2>2. Enumerates(paths, S)
    BY <2>1, ListingFacts
  <2>3. \A p \in S : Read[p] \in Doings
    BY <2>1, <1>3
  <2>4. OneForEach(rs, paths, S, Read)
    BY <2>1, <2>2, <2>3, <1>4, ForEachLine
  <2>5. \A p \in Path : Read[p] = "read"
    BY DEF Read
  <2> QED
    BY <2>1, <2>4, <2>5, <1>4 DEF OneForEach
<1>5. CASE /\ host' = [p \in Path |-> IF p \in job.found /\ IsDir(storage, p) THEN "dir" ELSE host[p]]
           /\ \E paths \in Listings({p \in job.found : ~IsDir(storage, p)}) : line' = line \o ForEach(paths, Read)
           /\ job' = [job EXCEPT !.state = "ReadingFiles", !.posted = FALSE]
           /\ UNCHANGED <<storage, manifest, card, history>>
  <2> DEFINE S == {p \in job.found : ~IsDir(storage, p)}
  <2>1. PICK paths \in Listings(S) : line' = line \o ForEach(paths, Read)
    BY <1>5
  <2>2. PICK rs : rs = ForEach(paths, Read)
    OBVIOUS
  <2>3. OneForEach(rs, paths, S, Read) /\ \A i \in Mine(rs) : rs[i].do = "read" /\ rs[i].path \in job.found
    BY <2>2, <1>4
  <2>4. /\ job'.state = "ReadingFiles" /\ ~job'.posted /\ job' \in Jobs /\ job'.kind = job.kind
        /\ job'.found = job.found
    BY <1>2, <1>5 DEF Jobs, JobStates
  <2>5. host' \in Tables
    BY <1>2, <1>5 DEF Tables, Values
  <2>6. line' \in Seq(LineRequests) /\ rs \in Seq(LineRequests) /\ OtherClients(rs) = {} /\ Left(rs) = S /\ Distinct(rs)
    BY <1>1, <2>1, <2>2, <2>3, ConcatLine DEF OneForEach
  <2>7. StateOfKind(job'.kind, job'.state)
    BY <2>4 DEF StateOfKind
  <2>8. UtilityTypeOK'
    BY <1>2, <1>5, <2>4, <2>5, <2>6, <2>7 DEF UtilityBase, UtilityTypeOK
  <2>9. Lawful(rs)'
    BY <2>3, <2>4, <2>6 DEF Lawful, Fits, At, Many
  <2> QED
    BY <1>1, <1>5, <2>1, <2>2, <2>4, <2>6, <2>8, <2>9, LineGrowsKeeps DEF Grows
<1>6. ASSUME NEW d \in job.found,
             NEW paths \in Listings({p \in job.found : ~IsDir(storage, p) /\ d \notin Above(p)}),
             line' = line \o ForEach(paths, Read), job' = Over(TRUE), history' = [history EXCEPT !.disk = TRUE],
             UNCHANGED <<host, storage, manifest, card>>
      PROVE  UtilityBase' /\ job'.state = "Finished"
  <2> DEFINE S == {p \in job.found : ~IsDir(storage, p) /\ d \notin Above(p)}
  <2>1. PICK rs : rs = ForEach(paths, Read)
    OBVIOUS
  <2>2. OneForEach(rs, paths, S, Read)
    BY <2>1, <1>4
  <2>3. rs \in Seq(LineRequests) /\ OtherClients(rs) = {}
    BY <2>2 DEF OneForEach
  <2>4. /\ job'.state = "Finished" /\ ~job'.posted /\ job' \in Jobs /\ job'.kind = job.kind
        /\ job'.found = job.found
    BY <1>2, <1>6, OverFacts
  <2>5. line' \in Seq(LineRequests) /\ OneOther(line')
    BY <1>1, <1>6, <2>1, <2>3, ConcatLine, RequestsAfterOthers
  <2>6. history' \in Histories /\ history'.disk /\ ~history'.dropped
    BY <1>1, <1>6 DEF UtilityBase, UtilityTypeOK, Histories
  <2>7. StateOfKind(job'.kind, job'.state)
    BY <2>4 DEF StateOfKind
  <2>8. UtilityTypeOK'
    BY <1>2, <1>6, <2>4, <2>5, <2>6, <2>7 DEF UtilityBase, UtilityTypeOK
  <2> QED
    BY <2>4, <2>5, <2>6, <2>8 DEF UtilityBase, LineInv, NothingLeftInLine, At
<1> QED
  BY <1>5, <1>6 DEF ReadFiles

(* The steps that ask for many things: what is in the line after them.       *)
LEMMA InstallDeletes ==
    ASSUME UtilityBase, job.posted, job.kind = "Assets", AsksForAny("DeletingFiles", DeleteLists, Delete)
    PROVE  /\ UtilityBase' /\ Left(line') = (IF NothingToDo THEN {} ELSE ToDelete)
           /\ job'.state = "DeletingFiles" /\ job'.kind = job.kind /\ job'.manifest = job.manifest
           /\ UNCHANGED <<host, storage, manifest, card, history>>
<1>0. UtilityTypeOK /\ job \in Jobs
  BY DEF UtilityBase, UtilityTypeOK
<1>1. "DeletingFiles" \in JobStates /\ StateOfKind(job.kind, "DeletingFiles")
  BY DEF JobStates, StateOfKind
<1>2. ToDelete \subseteq Places
  BY <1>0, ListsOfInstall DEF ToDelete, Places
<1>3. CASE <<>> \in DeleteLists
  <2>1. Passes("DeletingFiles")
    BY <1>3 DEF AsksForAny
  <2>2. NothingToDo
    BY <1>0, <1>3, DeleteListsFacts, EmptyEnumerates DEF ToDelete
  <2>3. Left(line') = {}
    BY <2>1 DEF Passes, UtilityBase, LineInv, Left
  <2>4. UtilityBase'
    BY <1>1, <2>1, PassesKeeps
  <2> QED
    BY <1>0, <2>1, <2>2, <2>3, <2>4 DEF Passes, Jobs
<1>4. CASE <<>> \notin DeleteLists
  <2>1. PICK paths \in DeleteLists : AsksFor("DeletingFiles", ForEach(paths, Delete))
    BY <1>4 DEF AsksForAny, AsksForEach
  <2> DEFINE S == IF NothingToDo THEN {} ELSE ToDelete
  <2>2. /\ Enumerates(paths, S) /\ S \subseteq Places /\ S \subseteq ToDelete
        /\ \A i, j \in 1..Len(paths) : i < j => ~(paths[j] = ManifestPath /\ paths[i] \in Deleted)
    BY <1>0, <1>2, DeleteListsFacts
  <2>3. \A p \in S : Delete[p] = "remove" /\ Delete[p] \in Doings
    BY <2>2 DEF Delete, Doings
  <2>4. job'.state = "DeletingFiles" /\ job'.kind = job.kind /\ job'.manifest = job.manifest /\ host' = host
        /\ UNCHANGED <<host, storage, manifest, card, history>>
    BY <1>0, <2>1 DEF AsksFor, Jobs
  <2>5. ToDelete' = ToDelete
    BY <2>4, SameLists
  <2>6. \A r \in LineRequests : r.path \in S /\ r.do = Delete[r.path] => Fits(r)'
    BY <2>2, <2>3, <2>4, <2>5 DEF Fits, At
  <2> HIDE DEF S
  <2>7. UtilityBase' /\ Left(line') = S
    BY <1>1, <2>1, <2>2, <2>3, <2>6, AsksForEachKeeps
  <2> QED
    BY <2>4, <2>7 DEF S
<1> QED
  BY <1>3, <1>4

(* An install asks for what it has to write, in any order its lists may      *)
(* have, or for nothing.                                                     *)
LEMMA InstallWrites ==
    ASSUME UtilityBase, job.posted, job.kind = "Assets", AsksForAny("WritingFiles", WriteLists, WriteOrMkdir)
    PROVE  /\ UtilityBase' /\ Left(line') = (IF NothingToDo THEN {} ELSE ToWrite)
           /\ job'.state = "WritingFiles" /\ job'.kind = job.kind /\ job'.manifest = job.manifest
           /\ UNCHANGED <<host, storage, manifest, card, history>>
<1>0. UtilityTypeOK /\ job \in Jobs
  BY DEF UtilityBase, UtilityTypeOK
<1>1. "WritingFiles" \in JobStates /\ StateOfKind(job.kind, "WritingFiles")
  BY DEF JobStates, StateOfKind
<1>2. ToWrite \subseteq Places
  BY <1>0, ListsOfInstall DEF ToWrite, Places
<1>3. CASE <<>> \in WriteLists
  <2>1. Passes("WritingFiles")
    BY <1>3 DEF AsksForAny
  <2>2. NothingToDo
    BY <1>0, <1>3, WriteListsFacts, EmptyEnumerates DEF ToWrite
  <2>3. Left(line') = {}
    BY <2>1 DEF Passes, UtilityBase, LineInv, Left
  <2>4. UtilityBase'
    BY <1>1, <2>1, PassesKeeps
  <2> QED
    BY <1>0, <2>1, <2>2, <2>3, <2>4 DEF Passes, Jobs
<1>4. CASE <<>> \notin WriteLists
  <2>1. PICK paths \in WriteLists : AsksFor("WritingFiles", ForEach(paths, WriteOrMkdir))
    BY <1>4 DEF AsksForAny, AsksForEach
  <2> DEFINE S == IF NothingToDo THEN {} ELSE ToWrite
  <2>2. /\ Enumerates(paths, S) /\ S \subseteq Places /\ S \subseteq ToWrite /\ DirectoriesFirst(paths)
        /\ \A i, j \in 1..Len(paths) : i < j => ~(paths[i] = ManifestPath /\ paths[j] \in Added)
    BY <1>0, <1>2, WriteListsFacts
  <2>3. \A p \in S : WriteOrMkdir[p] \in Doings
    BY <2>2 DEF WriteOrMkdir, Doings
  <2>4. job'.state = "WritingFiles" /\ job'.kind = job.kind /\ job'.manifest = job.manifest /\ host' = host
        /\ UNCHANGED <<host, storage, manifest, card, history>>
    BY <1>0, <2>1 DEF AsksFor, Jobs
  <2>5. ToWrite' = ToWrite /\ WriteOrMkdir' = WriteOrMkdir
    BY <2>4, SameLists
  <2>6. \A r \in LineRequests : r.path \in S /\ r.do = WriteOrMkdir[r.path] => Fits(r)'
    BY <2>2, <2>4, <2>5 DEF Fits, At
  <2> HIDE DEF S
  <2>7. UtilityBase' /\ Left(line') = S
    BY <1>1, <2>1, <2>2, <2>3, <2>6, AsksForEachKeeps
  <2> QED
    BY <2>4, <2>7 DEF S
<1> QED
  BY <1>3, <1>4

(* The files here are at paths.                                              *)
LEMMA FilesArePaths ==
    ASSUME UtilityBase
    PROVE  There(host) \subseteq Path /\ Files(host) \subseteq Path /\ There(host) \subseteq Places /\ Files(host) \subseteq Places
BY BaseTypes DEF UtilityBase, Places

(* A verification asks for the checksum of each file.                        *)
LEMMA VerifyAsks ==
    ASSUME UtilityBase, job.posted, job.kind = "Verify", AsksForEach("VerifyingMd5Sum", Listings(Files(host)), Md5Sum)
    PROVE  /\ UtilityBase' /\ Left(line') = Files(host)
           /\ job'.state = "VerifyingMd5Sum" /\ job'.kind = job.kind /\ job'.found = job.found
           /\ UNCHANGED <<host, storage, manifest, card, history>>
<1>0. job \in Jobs
  BY DEF UtilityBase, UtilityTypeOK
<1>1. "VerifyingMd5Sum" \in JobStates /\ StateOfKind(job.kind, "VerifyingMd5Sum")
  BY DEF JobStates, StateOfKind
<1>2. PICK paths \in Listings(Files(host)) : AsksFor("VerifyingMd5Sum", ForEach(paths, Md5Sum))
  BY DEF AsksForEach
<1>3. Enumerates(paths, Files(host)) /\ Files(host) \subseteq Places
  BY FilesArePaths, ListingFacts
<1>4. \A p \in Files(host) : Md5Sum[p] = "md5" /\ Md5Sum[p] \in Doings
  BY FilesArePaths DEF Md5Sum, Doings
<1>5. job'.state = "VerifyingMd5Sum" /\ job'.kind = job.kind /\ job'.found = job.found
      /\ UNCHANGED <<host, storage, manifest, card, history>>
  BY <1>0, <1>2 DEF AsksFor, Jobs
<1>6. \A r \in LineRequests : r.path \in Files(host) /\ r.do = Md5Sum[r.path] => Fits(r)'
  BY <1>4, <1>5 DEF Fits, At
<1>7. UtilityBase' /\ Left(line') = Files(host)
  BY <1>1, <1>2, <1>3, <1>4, <1>6, AsksForEachKeeps
<1> QED
  BY <1>5, <1>7

(* An upload, or a restore, asks for all that is here to be written.         *)
LEMMA UploadWrites ==
    ASSUME UtilityBase, job.posted, job.kind \in {"Upload", "Restore"},
           AsksForEach("WritingFiles", Listings(There(host)), WriteOrMkdir)
    PROVE  /\ UtilityBase' /\ Left(line') = There(host)
           /\ job'.state = "WritingFiles" /\ job'.kind = job.kind /\ job'.manifest = job.manifest
           /\ UNCHANGED <<host, storage, manifest, card, history>>
<1>0. job \in Jobs /\ There(host) \subseteq Path
  BY FilesArePaths DEF UtilityBase, UtilityTypeOK
<1>1. "WritingFiles" \in JobStates /\ StateOfKind(job.kind, "WritingFiles")
  BY DEF JobStates, StateOfKind
<1>2. PICK paths \in Listings(There(host)) : AsksFor("WritingFiles", ForEach(paths, WriteOrMkdir))
  BY DEF AsksForEach
<1>3. Enumerates(paths, There(host)) /\ There(host) \subseteq Places /\ DirectoriesFirst(paths)
  BY FilesArePaths, ListingFacts
<1>4. \A p \in There(host) : WriteOrMkdir[p] \in Doings
  BY <1>3 DEF WriteOrMkdir, Doings
<1>5. job'.state = "WritingFiles" /\ job'.kind = job.kind /\ job'.manifest = job.manifest /\ host' = host
      /\ UNCHANGED <<host, storage, manifest, card, history>>
  BY <1>0, <1>2 DEF AsksFor, Jobs
<1>6. ToWrite' = There(host) /\ WriteOrMkdir' = WriteOrMkdir
  BY <1>5, SameLists DEF ToWrite
<1>7. \A r \in LineRequests : r.path \in There(host) /\ r.do = WriteOrMkdir[r.path] => Fits(r)'
  BY <1>5, <1>6 DEF Fits, At
<1>8. UtilityBase' /\ Left(line') = There(host)
  BY <1>1, <1>2, <1>3, <1>4, <1>7, AsksForEachKeeps
<1> QED
  BY <1>5, <1>8

(* A restore asks first for all of it to be deleted.                         *)
LEMMA RestoreDeletes ==
    ASSUME UtilityBase, job.posted, job.kind = "Restore",
           AsksForEach("DeletingFiles", Listings(There(host)), Delete)
    PROVE  /\ UtilityBase' /\ Left(line') = There(host)
           /\ job'.state = "DeletingFiles" /\ job'.kind = job.kind /\ job'.manifest = job.manifest
           /\ UNCHANGED <<host, storage, manifest, card, history>>
<1>0. job \in Jobs /\ There(host) \subseteq Path
  BY FilesArePaths DEF UtilityBase, UtilityTypeOK
<1>1. "DeletingFiles" \in JobStates /\ StateOfKind(job.kind, "DeletingFiles")
  BY DEF JobStates, StateOfKind
<1>2. PICK paths \in Listings(There(host)) : AsksFor("DeletingFiles", ForEach(paths, Delete))
  BY DEF AsksForEach
<1>3. Enumerates(paths, There(host)) /\ There(host) \subseteq Places
  BY FilesArePaths, ListingFacts
<1>4. \A p \in There(host) : Delete[p] = "remove" /\ Delete[p] \in Doings
  BY <1>3 DEF Delete, Doings
<1>5. job'.state = "DeletingFiles" /\ job'.kind = job.kind /\ job'.manifest = job.manifest /\ host' = host
      /\ UNCHANGED <<host, storage, manifest, card, history>>
  BY <1>0, <1>2 DEF AsksFor, Jobs
<1>6. ToDelete' = There(host)
  BY <1>5, SameLists DEF ToDelete
<1>7. \A r \in LineRequests : r.path \in There(host) /\ r.do = Delete[r.path] => Fits(r)'
  BY <1>4, <1>5, <1>6 DEF Fits, At
<1>8. UtilityBase' /\ Left(line') = There(host)
  BY <1>1, <1>2, <1>3, <1>4, <1>7, AsksForEachKeeps
<1> QED
  BY <1>5, <1>8

(* One request.                                                              *)
Single == {"CheckingExtStorage", "CheckingSDCard", "CheckingDeviceManifest", "CheckingManifest",
           "ReadingDeviceManifest", "CheckingRemotePath", "CreatingRemotePath"}
(* An operation asks for one thing that fits the state it enters.            *)
LEMMA AsksOneStep ==
    ASSUME UtilityBase, job.posted, NEW s \in Single, StateOfKind(job.kind, s), NEW do, NEW p,
           AsksOne(s, do, p),
           \/ s \in {"CheckingExtStorage", "CheckingSDCard"} /\ do = "info" /\ p = Root
           \/ s \in {"CheckingDeviceManifest", "CheckingManifest"} /\ do = "stat" /\ p = ManifestPath
           \/ s = "ReadingDeviceManifest" /\ do = "read" /\ p = ManifestPath
           \/ /\ (s = "CheckingRemotePath" /\ do = "stat") \/ (s = "CreatingRemotePath" /\ do = "mkdir")
              /\ job.index \in DOMAIN job.target /\ p = job.target[job.index]
    PROVE  UtilityBase' /\ Left(line') = {p}
<1>0. job \in Jobs
  BY DEF UtilityBase, UtilityTypeOK
<1>1. PICK r : r = Ask(do, p, TRUE)
  OBVIOUS
<1>2. r.do = do /\ r.path = p /\ r.last = TRUE /\ r.by = "job" /\ AsksFor(s, <<r>>)
  BY <1>1 DEF Ask, AsksOne
<1>3. p \in Places \cup {Root} /\ do \in {"info", "stat", "read", "mkdir"}
  BY TargetFacts DEF UtilityBase, Places
<1>4. r \in LineRequests
  BY <1>1, <1>3 DEF Ask, LineRequests
<1>5. job'.state = s /\ job'.index = job.index /\ job'.target = job.target
  BY <1>0, <1>2 DEF AsksFor, Jobs
<1>6. Fits(r)'
  BY <1>2, <1>5 DEF Fits, At
<1>7. s \in JobStates /\ s \notin Many \cup {"Finished", "CheckingRootElement"}
  BY DEF Single, JobStates, Many
<1>8. s = "CheckingRemotePath" => job.index \in DOMAIN job.target
  OBVIOUS
<1> QED
  BY <1>2, <1>4, <1>6, <1>7, <1>8, AsksOneKeeps

(* Work on this side, which may fail.                                        *)
LEMMA WorksKeeps ==
    ASSUME UtilityBase, job.posted, NEW s \in JobStates, StateOfKind(job.kind, s),
           s \notin {"Finished", "GettingFileTree", "CheckingRootElement", "CheckingRemotePath"}, Works(s)
    PROVE  UtilityBase'
BY PassesKeeps, FinishesKeeps DEF Works

(* Every step of AssetsDownloadOperation.                                    *)
LEMMA AssetsKeeps ==
    ASSUME UtilityBase, job.posted, job.kind = "Assets", AssetsDownload
    PROVE  UtilityBase'
<1> USE DEF StateOfKind, JobStates, Single
<1>1. CASE At("Ready") /\ AsksOne("CheckingExtStorage", "info", Root)
  BY <1>1, AsksOneStep
<1>2. CASE At("CheckingExtStorage") /\ Works("ExtractingArchive")
  BY <1>2, WorksKeeps
<1>3. CASE At("ExtractingArchive") /\ Works("ReadingLocalManifest")
  BY <1>3, WorksKeeps
<1>4. CASE At("ReadingLocalManifest") /\ AsksOne("CheckingDeviceManifest", "stat", ManifestPath)
  BY <1>4, AsksOneStep
<1>5. CASE At("CheckingDeviceManifest") /\ AsksOne("ReadingDeviceManifest", "read", ManifestPath)
  BY <1>5, AsksOneStep
<1>6. CASE At("ReadingDeviceManifest") /\ Passes("BuildingFileLists")
  BY <1>6, PassesKeeps
<1>7. CASE At("BuildingFileLists") /\ AsksForAny("DeletingFiles", DeleteLists, Delete)
  BY <1>7, InstallDeletes
<1>8. CASE At("DeletingFiles") /\ AsksForAny("WritingFiles", WriteLists, WriteOrMkdir)
  BY <1>8, InstallWrites
<1>9. CASE At("WritingFiles") /\ Finishes(FALSE)
  BY <1>9, FinishesKeeps
<1> QED
  BY <1>1, <1>2, <1>3, <1>4, <1>5, <1>6, <1>7, <1>8, <1>9 DEF AssetsDownload

(* Every step of ChecksumVerifyOperation, FilesUploadOperation and           *)
(* UserRestoreOperation.                                                     *)
LEMMA MovesKeep ==
    ASSUME UtilityBase, job.posted,
           \/ job.kind = "Verify" /\ ChecksumVerify
           \/ job.kind = "Upload" /\ FilesUpload
           \/ job.kind = "Restore" /\ UserRestore
    PROVE  UtilityBase'
<1> USE DEF StateOfKind, JobStates, Single
<1>1. ASSUME job.kind = "Verify", ChecksumVerify
      PROVE  UtilityBase'
  <2>1. CASE At("Ready") /\ Passes("ReadingFileList")
    BY <1>1, <2>1, PassesKeeps
  <2>2. CASE At("ReadingFileList") /\ AsksForEach("VerifyingMd5Sum", Listings(Files(host)), Md5Sum)
    BY <1>1, <2>2, VerifyAsks
  <2>3. CASE At("VerifyingMd5Sum") /\ Finishes(FALSE)
    BY <2>3, FinishesKeeps
  <2> QED
    BY <1>1, <2>1, <2>2, <2>3 DEF ChecksumVerify
<1>2. ASSUME job.kind = "Upload", FilesUpload
      PROVE  UtilityBase'
  <2>1. CASE At("Ready") /\ Passes("ReadingFileList")
    BY <1>2, <2>1, PassesKeeps
  <2>2. CASE At("ReadingFileList") /\ AsksForEach("WritingFiles", Listings(There(host)), WriteOrMkdir)
    BY <1>2, <2>2, UploadWrites
  <2>3. CASE At("WritingFiles") /\ Finishes(FALSE)
    BY <2>3, FinishesKeeps
  <2> QED
    BY <1>2, <2>1, <2>2, <2>3 DEF FilesUpload
<1>3. ASSUME job.kind = "Restore", UserRestore
      PROVE  UtilityBase'
  <2>1. CASE At("Ready") /\ Works("UncompressingArchive")
    BY <1>3, <2>1, WorksKeeps
  <2>2. CASE At("UncompressingArchive") /\ ReadBackupDir
    BY <1>3, <2>2, PassesKeeps, FinishesKeeps DEF ReadBackupDir
  <2>3. CASE At("ReadingBackupDir") /\ AsksForEach("DeletingFiles", Listings(There(host)), Delete)
    BY <1>3, <2>3, RestoreDeletes
  <2>4. CASE At("DeletingFiles") /\ AsksForEach("WritingFiles", Listings(There(host)), WriteOrMkdir)
    BY <1>3, <2>4, UploadWrites
  <2>5. CASE At("WritingFiles") /\ Finishes(FALSE)
    BY <2>5, FinishesKeeps
  <2> QED
    BY <1>3, <2>1, <2>2, <2>3, <2>4, <2>5 DEF UserRestore
<1> QED
  BY <1>1, <1>2, <1>3

(* A download begins with an empty directory.                                *)
LEMMA CreateLocalDirectoryKeeps ==
    ASSUME UtilityBase, job.posted, job.kind = "Download", CreateLocalDirectory
    PROVE  UtilityBase'
<1>1. CASE /\ host' = Empty
           /\ job' = [job EXCEPT !.state = "CreatingDirectory"]
           /\ UNCHANGED <<storage, manifest, card, line, history>>
  <2>1. job' \in Jobs /\ job'.state = "CreatingDirectory" /\ job'.kind = job.kind /\ job'.found = job.found
    BY <1>1 DEF UtilityBase, UtilityTypeOK, Jobs, JobStates
  <2>2. StateOfKind(job'.kind, job'.state) /\ host' \in Tables
    BY <1>1, <2>1, EmptyIsTree, TreeType DEF StateOfKind
  <2>3. UtilityTypeOK'
    BY <1>1, <2>1, <2>2 DEF UtilityBase, UtilityTypeOK, LocalKinds
  <2> QED
    BY <1>1, <2>1, <2>3, NothingInLine DEF UtilityBase, LineInv
<1>2. CASE Finishes(TRUE)
  BY <1>2, FinishesKeeps
<1> QED
  BY <1>1, <1>2 DEF CreateLocalDirectory

(* Every step of DirectoryDownloadOperation and UserBackupOperation.         *)
LEMMA ReadsKeep ==
    ASSUME UtilityBase, job.posted,
           \/ job.kind = "Download" /\ DirectoryDownload
           \/ job.kind = "Backup" /\ UserBackup
    PROVE  UtilityBase'
<1> USE DEF StateOfKind, JobStates
<1>1. ASSUME job.kind = "Download", DirectoryDownload
      PROVE  UtilityBase'
  <2>1. CASE At("Ready") /\ CreateLocalDirectory
    BY <1>1, <2>1, CreateLocalDirectoryKeeps
  <2>2. CASE At("CreatingDirectory") /\ GetFileTree
    BY <1>1, <2>2, GetFileTreeKeeps
  <2>3. CASE At("GettingFileTree") /\ ReadFiles
    BY <1>1, <2>3, ReadFilesKeeps
  <2>4. CASE At("ReadingFiles") /\ Finishes(FALSE)
    BY <2>4, FinishesKeeps
  <2> QED
    BY <1>1, <2>1, <2>2, <2>3, <2>4 DEF DirectoryDownload
<1>2. ASSUME job.kind = "Backup", UserBackup
      PROVE  UtilityBase'
  <2>1. CASE At("Ready") /\ Works("CreatingDirectory")
    BY <1>2, <2>1, WorksKeeps
  <2>2. CASE At("CreatingDirectory") /\ GetFileTree
    BY <1>2, <2>2, GetFileTreeKeeps
  <2>3. CASE At("GettingFileTree") /\ ReadFiles
    BY <1>2, <2>3, ReadFilesKeeps
  <2>4. CASE At("ReadingFiles") /\ Works("CreatingArchive")
    BY <1>2, <2>4, WorksKeeps
  <2>5. CASE At("CreatingArchive") /\ Finishes(FALSE)
    BY <2>5, FinishesKeeps
  <2> QED
    BY <1>2, <2>1, <2>2, <2>3, <2>4, <2>5 DEF UserBackup
<1> QED
  BY <1>1, <1>2

(* PathCreateOperation begins with the first element, or has nothing to do.  *)
LEMMA CheckRootElementKeeps ==
    ASSUME UtilityBase, job.posted, job.kind = "PathCreate", CheckRootElement
    PROVE  UtilityBase'
<1>1. CASE job.target = <<>>
  BY <1>1, FinishesKeeps DEF CheckRootElement
<1>2. CASE job.target # <<>>
  <2>1. job' = [job EXCEPT !.state = "CheckingRootElement", !.index = 1]
        /\ UNCHANGED <<host, storage, manifest, card, line, history>>
    BY <1>2 DEF CheckRootElement
  <2>2. /\ job' \in Jobs /\ job'.state = "CheckingRootElement" /\ job'.kind = job.kind /\ job'.found = job.found
        /\ job'.index = 1 /\ job'.target = job.target
    BY <2>1 DEF UtilityBase, UtilityTypeOK, Jobs, JobStates
  <2>3. StateOfKind(job'.kind, job'.state)
    BY <2>2 DEF StateOfKind
  <2>4. job'.index \in DOMAIN job'.target
    <3>1. Len(job.target) \in Nat /\ Len(job.target) # 0 /\ DOMAIN job.target = 1..Len(job.target)
      BY <1>2, TargetFacts DEF UtilityBase
    <3>2. 1 \in 1..Len(job.target)
      BY <3>1
    <3> QED
      BY <2>2, <3>1, <3>2
  <2>5. UtilityTypeOK'
    BY <2>1, <2>2, <2>3, <2>4 DEF UtilityBase, UtilityTypeOK
  <2> QED
    BY <2>1, <2>2, <2>5, NothingInLine DEF UtilityBase, LineInv
<1> QED
  BY <1>1, <1>2

(* The element of the path that PathCreate goes to make is one of the path.  *)
LEMMA LooksKeep ==
    ASSUME UtilityBase, job.posted,
           \/ job.kind = "PathCreate" /\ PathCreate
           \/ job.kind = "Refresh" /\ StorageInfoRefresh
    PROVE  UtilityBase'
<1> USE DEF StateOfKind, JobStates, Single
<1>1. ASSUME job.kind = "PathCreate", PathCreate
      PROVE  UtilityBase'
  <2>1. CASE At("Ready") /\ CheckRootElement
    BY <1>1, <2>1, CheckRootElementKeeps
  <2>2. CASE At("CheckingRootElement") /\ AsksOne("CheckingRemotePath", "stat", job.target[job.index])
    <3>1. job.index \in DOMAIN job.target
      BY <2>2 DEF UtilityBase, UtilityTypeOK, At
    <3> QED
      BY <1>1, <2>2, <3>1, AsksOneStep
  <2>3. CASE At("CheckingRemotePath") /\ AsksOne("CreatingRemotePath", "mkdir", job.target[job.index])
    <3>1. job.index \in DOMAIN job.target
      BY <2>3 DEF UtilityBase, UtilityTypeOK, At
    <3> QED
      BY <1>1, <2>3, <3>1, AsksOneStep
  <2>4. CASE At("CreatingRemotePath") /\ Finishes(FALSE)
    BY <2>4, FinishesKeeps
  <2> QED
    BY <1>1, <2>1, <2>2, <2>3, <2>4 DEF PathCreate
<1>2. ASSUME job.kind = "Refresh", StorageInfoRefresh
      PROVE  UtilityBase'
  <2>1. CASE At("Ready") /\ AsksOne("CheckingSDCard", "info", Root)
    BY <1>2, <2>1, AsksOneStep
  <2>2. CASE At("CheckingSDCard") /\ AsksOne("CheckingManifest", "stat", ManifestPath)
    BY <1>2, <2>2, AsksOneStep
  <2>3. CASE At("CheckingManifest") /\ Finishes(FALSE)
    BY <2>3, FinishesKeeps
  <2> QED
    BY <1>2, <2>1, <2>2, <2>3 DEF StorageInfoRefresh
<1> QED
  BY <1>1, <1>2

(* A step of an operation of any kind keeps the line lawful.                 *)
LEMMA NextStateLogicKeeps ==
    ASSUME UtilityBase, NextStateLogic
    PROVE  UtilityBase'
BY AssetsKeeps, MovesKeep, ReadsKeep, LooksKeep DEF NextStateLogic

-----------------------------------------------------------------------------
(* The base of the invariant: the session                                    *)

(* What the manifest may become.                                             *)
LEMMA ManifestTypes ==
    ASSUME host \in Tables, manifest \in Manifests, NEW r
    PROVE  CarriedManifest(r) \in Manifests /\ NoManifest \in Manifests /\ Corrupt \in Manifests
           /\ Readable(Empty) \in Manifests /\ Readable(host) \in Manifests
BY EmptyIsTree, TreeType DEF CarriedManifest, Manifests

(* What the device does, whole or in part, leaves a tree.                    *)
LEMMA CarryOutTypes ==
    ASSUME UtilityTypeOK, NEW r \in LineRequests, CarryOutInPart(r)
    PROVE  storage' \in Trees /\ manifest' \in Manifests
<1>0. /\ storage \in Trees /\ host \in Tables /\ manifest \in Manifests
      /\ r.path \in Path \/ r.path = ManifestPath \/ r.path = Root
  BY DEF UtilityTypeOK, LineRequests, Places
<1>1. CASE CarryOut(r)
  BY <1>0, <1>1, CarriedType, ManifestTypes, ManifestPathIsApart DEF CarryOut
<1>2. CASE UNCHANGED <<storage, manifest>>
  BY <1>0, <1>2
<1>3. CASE /\ r.do = "write"
           /\ IF r.path = ManifestPath
              THEN manifest' = Corrupt /\ UNCHANGED storage
              ELSE /\ storage' = IF Carried(r) = storage THEN storage ELSE [storage EXCEPT ![r.path] = "torn"]
                   /\ UNCHANGED manifest
  <2>1. CASE r.path \in Path
    BY <1>0, <1>3, <2>1, CarriedType, ManifestTypes, ManifestPathIsApart
  <2>2. CASE r.path = ManifestPath
    BY <1>0, <1>3, <2>2, ManifestTypes
  <2>3. CASE r.path = Root
    <3>1. Carried(r) = storage \/ storage' = [storage EXCEPT ![r.path] = "torn"]
      BY <1>3, <2>3, ManifestPathIsApart
    <3>2. Root \notin DOMAIN storage
      BY <1>0, TreeType, ManifestPathIsApart DEF Tables
    <3>3. [storage EXCEPT ![r.path] = "torn"] = storage
      <4> DEFINE torn == [storage EXCEPT ![r.path] = "torn"]
      <4>1. storage \in [Path -> Values] /\ r.path \notin Path
        BY <1>0, <2>3, TreeType, ManifestPathIsApart DEF Tables
      <4>2. torn \in [Path -> Values] /\ \A p \in Path : torn[p] = storage[p]
        BY <4>1
      <4> HIDE DEF torn
      <4>3. torn = storage
        BY <4>1, <4>2
      <4> QED
        BY <4>3 DEF torn
    <3> QED
      BY <1>0, <1>3, <2>3, <3>3, ManifestPathIsApart
  <2> QED
    BY <1>0, <2>1, <2>2, <2>3
<1> QED
  BY <1>1, <1>2, <1>3 DEF CarryOutInPart

(* What the operation knows when a request of its own is the next to end.    *)
LEMMA HeadFacts ==
    ASSUME UtilityBase, line # <<>>, InService(Head(line))
    PROVE  /\ Head(line) \in LineRequests /\ Head(line).by = "job" /\ Fits(Head(line))
           /\ Head(line).last \in BOOLEAN
           /\ job.state # "Finished" /\ ~job.posted /\ ~history.dropped
           /\ Tail(line) \in Seq(LineRequests) /\ Len(Tail(line)) = Len(line) - 1
           /\ Len(line) \in Nat /\ Len(line) >= 1
           /\ OneOther(Tail(line)) /\ (OtherClients(Tail(line)) = {} <=> OtherClients(line) = {})
           /\ Left(line) = Left(Tail(line)) \cup {Head(line).path}
           /\ job.state # "GettingFileTree" =>
                /\ Distinct(Tail(line)) /\ Head(line).path \notin Left(Tail(line))
                /\ Head(line).last => Mine(Tail(line)) = {}
           /\ job.state \notin Many => Mine(Tail(line)) = {}
           /\ \A i \in Mine(Tail(line)) : i + 1 \in Mine(line) /\ Tail(line)[i] = line[i + 1] /\ i \in Nat /\ 1 < i + 1
           /\ 1 \in Mine(line) /\ Head(line) = line[1]
<1>0. line \in Seq(LineRequests) /\ job.state # "Finished" /\ Lawful(line) /\ Head(line).by = "job" /\ OneOther(line)
  BY DEF UtilityBase, UtilityTypeOK, LineInv, InService
<1>1. /\ Tail(line) \in Seq(LineRequests) /\ Len(Tail(line)) = Len(line) - 1 /\ Len(line) \in Nat /\ Len(line) >= 1
      /\ Head(line) \in LineRequests /\ Head(line) = line[1]
  BY <1>0, TailLine
<1>2. \A i \in Mine(Tail(line)) : i + 1 \in Mine(line) /\ Tail(line)[i] = line[i + 1]
  BY <1>0, TailLine
<1>3. 1 \in Mine(line)
  BY <1>0, TailLine
<1>4. OneOther(Tail(line)) /\ (OtherClients(Tail(line)) = {} <=> OtherClients(line) = {})
  BY <1>0, TailLine
<1>5. Left(line) = Left(Tail(line)) \cup {Head(line).path}
  BY <1>0, TailLine
<1>6. Distinct(line) => /\ Distinct(Tail(line)) /\ Head(line).path \notin Left(Tail(line))
                        /\ Head(line).last => Mine(Tail(line)) = {}
  BY <1>0, TailLine
<1>7. \A i \in Mine(Tail(line)) : i \in Nat /\ 1 < i + 1
  BY <1>1 DEF Mine
<1>8. job.state \notin Many => Mine(Tail(line)) = {}
  <2> SUFFICES ASSUME job.state \notin Many, NEW i \in Mine(Tail(line)) PROVE FALSE
    OBVIOUS
  <2>1. i + 1 = 1
    BY <1>0, <1>2, <1>3 DEF Lawful
  <2> QED
    BY <2>1, <1>7
<1>9. Fits(Head(line))
  BY <1>0, <1>1, <1>3 DEF Lawful
<1>10. Head(line).last \in BOOLEAN
  BY <1>1 DEF LineRequests
<1>11. ~job.posted /\ ~history.dropped
  BY <1>3 DEF UtilityBase, LineInv
<1> QED
  BY <1>0, <1>1, <1>2, <1>3, <1>4, <1>5, <1>6, <1>7, <1>8, <1>9, <1>10, <1>11 DEF Lawful, At

(* An operation that still has requests in the line when one has ended: what *)
(* is left fits the state as it did.                                         *)
Shrinks == line' = Tail(line)
(* One of many requests ends: the operation goes on if it was the last of    *)
(* them.                                                                     *)
LEMMA OneOfManyEnds ==
    ASSUME UtilityBase, line # <<>>, InService(Head(line)), Shrinks, UtilityTypeOK',
           job'.state = job.state, job'.kind = job.kind, job.state # "GettingFileTree",
           job'.posted = Head(line).last, UNCHANGED <<history.dropped>>,
           \A r \in LineRequests : Fits(r) => Fits(r)',
           job.state \in {"WritingFiles", "DeletingFiles"} => Added' = Added /\ Deleted' = Deleted
    PROVE  UtilityBase'
<1>1. job.state # "Finished" /\ Lawful(line)
  BY HeadFacts DEF UtilityBase, LineInv
<1> DEFINE t == Tail(line)
<1>2. /\ t \in Seq(LineRequests) /\ OneOther(t) /\ ~history.dropped
      /\ Distinct(t) /\ (Head(line).last => Mine(t) = {}) /\ (job.state \notin Many => Mine(t) = {})
      /\ \A i \in Mine(t) : i + 1 \in Mine(line) /\ t[i] = line[i + 1] /\ i \in Nat
  BY HeadFacts
<1>3. \A i \in Mine(t) : t[i] \in LineRequests
  BY <1>2, ElementOfSeq DEF Mine
<1>4. PICK l : l = t
  OBVIOUS
<1>5. \A i \in Mine(l) : Fits(l[i])'
  <2> TAKE i \in Mine(l)
  <2>1. l[i] \in LineRequests /\ Fits(l[i])
    BY <1>1, <1>2, <1>3, <1>4 DEF Lawful
  <2> QED
    BY <2>1
<1>6. \A i, j \in Mine(l) : i < j => i + 1 < j + 1
  BY <1>2, <1>4
<1>7. job.state = "WritingFiles" => WritesInOrder(l)'
  <2> SUFFICES ASSUME job.state = "WritingFiles", NEW i \in Mine(l), NEW j \in Mine(l), i < j
               PROVE  /\ l[j].path # Parent(l[i].path)
                      /\ job.kind = "Assets" => ~(l[i].path = ManifestPath /\ l[j].path \in Added)
    BY DEF WritesInOrder
  <2>1. WritesInOrder(line)
    BY <1>1 DEF Lawful, At
  <2>2. i + 1 \in Mine(line) /\ j + 1 \in Mine(line) /\ i + 1 < j + 1 /\ l[i] = line[i + 1] /\ l[j] = line[j + 1]
    BY <1>2, <1>4, <1>6
  <2> QED
    BY <2>1, <2>2 DEF WritesInOrder
<1>8. job.state = "DeletingFiles" /\ job.kind = "Assets" => DeletesInOrder(l)'
  BY <1>1, <1>2, <1>4, <1>6 DEF Lawful, DeletesInOrder, At
<1>9. Lawful(l)'
  BY <1>2, <1>4, <1>5, <1>7, <1>8 DEF Lawful, At
<1>10. line' = l
  BY <1>4 DEF Shrinks
<1>11. Lawful(line)'
  <2>1. (\A i \in Mine(line) : Fits(line[i]))'
    BY <1>5, <1>10 DEF Fits
  <2> QED
    BY <1>9, <1>10, <2>1 DEF Lawful, WritesInOrder, DeletesInOrder
<1> QED
  BY <1>1, <1>2, <1>4, <1>10, <1>11 DEF UtilityBase, LineInv, NothingLeftInLine, At

(* One with a single request, which goes on, or is over.                     *)
LEMMA OnlyOneEnds ==
    ASSUME UtilityBase, line # <<>>, InService(Head(line)), job.state \notin Many, Shrinks, UtilityTypeOK',
           job'.posted => job'.state # "Finished", job'.state # "GettingFileTree", UNCHANGED <<history.dropped>>
    PROVE  UtilityBase'
<1>1. OneOther(Tail(line)) /\ Mine(Tail(line)) = {} /\ ~history.dropped
  BY HeadFacts
<1> QED
  BY <1>1, NothingInLine DEF Shrinks

(* What is asked tells where the operation is.                               *)
LEMMA PlacesToMove ==
    ASSUME UtilityTypeOK
    PROVE  /\ ToDelete \subseteq Places /\ ToWrite \subseteq Places
           /\ job.kind # "Assets" => ToDelete \subseteq Path /\ ToWrite \subseteq Path
           /\ \A p \in Places : WriteOrMkdir[p] = IF p \in Path /\ IsDir(host, p) THEN "mkdir" ELSE "write"
<1>1. \A p \in Places : WriteOrMkdir[p] = IF p \in Path /\ IsDir(host, p) THEN "mkdir" ELSE "write"
  BY DEF WriteOrMkdir
<1>2. There(host) \subseteq Path
  BY BaseTypes
<1>3. CASE job.kind = "Assets"
  BY <1>1, <1>2, <1>3, ListsOfInstall DEF ToDelete, ToWrite, Places
<1>4. CASE job.kind # "Assets"
  BY <1>1, <1>2, <1>4 DEF ToDelete, ToWrite, Places
<1> QED
  BY <1>1, <1>3, <1>4

(* An info: an install or a refresh looks for the card.                      *)
LEMMA InfoTells ==
    ASSUME UtilityTypeOK, NEW r, Fits(r), r.do = "info"
    PROVE  \/ job.state = "CheckingExtStorage" /\ job.kind = "Assets"
           \/ job.state = "CheckingSDCard" /\ job.kind = "Refresh"
<1>1. r.path \in ToWrite => r.do # WriteOrMkdir[r.path]
  BY PlacesToMove
<1> QED
  BY <1>1 DEF Fits, At, UtilityTypeOK, StateOfKind
(* A stat: the manifest, or an element of a path.                            *)
LEMMA StatTells ==
    ASSUME UtilityTypeOK, NEW r, Fits(r), r.do = "stat"
    PROVE  \/ job.state = "CheckingDeviceManifest" /\ job.kind = "Assets" /\ r.path = ManifestPath
           \/ job.state = "CheckingManifest" /\ job.kind = "Refresh" /\ r.path = ManifestPath
           \/ /\ job.state = "CheckingRemotePath" /\ job.kind = "PathCreate"
              /\ job.index \in DOMAIN job.target /\ r.path = job.target[job.index]
<1>1. r.path \in ToWrite => r.do # WriteOrMkdir[r.path]
  BY PlacesToMove
<1> QED
  BY <1>1 DEF Fits, At, UtilityTypeOK, StateOfKind
(* PathCreateOperation has one request, about the element it is at.          *)
LEMMA ElementTells ==
    ASSUME UtilityTypeOK, NEW r, Fits(r), job.kind = "PathCreate"
    PROVE  /\ \/ job.state = "CheckingRemotePath" /\ r.do = "stat"
              \/ job.state = "CreatingRemotePath" /\ r.do = "mkdir"
           /\ job.index \in DOMAIN job.target /\ r.path = job.target[job.index]
BY DEF Fits, At, UtilityTypeOK, StateOfKind
(* A list: the tree is being got.                                            *)
LEMMA ListTells ==
    ASSUME UtilityTypeOK, NEW r, Fits(r), r.do = "list"
    PROVE  job.state = "GettingFileTree" /\ job.kind \in {"Download", "Backup"} /\ r.path \in Path \cup {Root}
<1>1. r.path \in ToWrite => r.do # WriteOrMkdir[r.path]
  BY PlacesToMove
<1> QED
  BY <1>1 DEF Fits, At, UtilityTypeOK, StateOfKind
(* A read: of the manifest, or of a file that was found.                     *)
LEMMA ReadTells ==
    ASSUME UtilityTypeOK, NEW r, Fits(r), r.do = "read"
    PROVE  \/ job.state = "ReadingDeviceManifest" /\ job.kind = "Assets" /\ r.path = ManifestPath
           \/ /\ job.state = "ReadingFiles" /\ job.kind \in {"Download", "Backup"}
              /\ r.path \in job.found /\ r.path \in Path /\ r.path # ManifestPath
<1>1. r.path \in ToWrite => r.do # WriteOrMkdir[r.path]
  BY PlacesToMove
<1> QED
  BY <1>1, ManifestPathIsApart DEF Fits, At, UtilityTypeOK, StateOfKind
(* A checksum: of a file that is here.                                       *)
LEMMA Md5Tells ==
    ASSUME UtilityTypeOK, NEW r, Fits(r), r.do = "md5"
    PROVE  job.state = "VerifyingMd5Sum" /\ job.kind = "Verify" /\ r.path \in Files(host)
<1>1. r.path \in ToWrite => r.do # WriteOrMkdir[r.path]
  BY PlacesToMove
<1> QED
  BY <1>1 DEF Fits, At, UtilityTypeOK, StateOfKind
(* A removal or a write: of a path in the list of what is to be deleted, or  *)
(* written.                                                                  *)
LEMMA MoveTells ==
    ASSUME UtilityTypeOK, NEW r, Fits(r), r.do \in {"remove", "write", "mkdir"}, job.kind # "PathCreate"
    PROVE  /\ job.kind \in {"Assets", "Upload", "Restore"}
           /\ \/ job.state = "DeletingFiles" /\ r.do = "remove" /\ r.path \in ToDelete
              \/ /\ job.state = "WritingFiles" /\ r.path \in ToWrite
                 /\ r.do = IF r.path \in Path /\ IsDir(host, r.path) THEN "mkdir" ELSE "write"
<1>1. r.path \in ToWrite => WriteOrMkdir[r.path] = IF r.path \in Path /\ IsDir(host, r.path) THEN "mkdir" ELSE "write"
  BY PlacesToMove
<1> QED
  BY <1>1 DEF Fits, At, UtilityTypeOK, StateOfKind

-----------------------------------------------------------------------------

(* What a request that ends leaves alone, or may change of the files.        *)
World ==
    /\ storage' \in Trees /\ manifest' \in Manifests /\ card' = card /\ history' \in Histories
    /\ history'.dropped = history.dropped /\ history'.disk = history.disk

(* Types, when a request has ended.                                          *)
LEMMA WorldKeepsTypes ==
    ASSUME UtilityBase, World, line' \in Seq(LineRequests), job' \in Jobs, job'.kind = job.kind,
           StateOfKind(job'.kind, job'.state), job'.kind # "Refresh" => job'.found \subseteq Path,
           job'.state \in {"CheckingRootElement", "CheckingRemotePath"} => job'.index \in DOMAIN job'.target,
           host' \in Tables, job.kind \in LocalKinds => host' = host
    PROVE  UtilityTypeOK'
BY DEF UtilityBase, UtilityTypeOK, World, LocalKinds

(* An info ends: with a card, without one, or refused.                       *)
LEMMA InfoKeeps ==
    ASSUME UtilityBase, line # <<>>, InService(Head(line)), World, Head(line).do = "info", NEW good, OnInfo(good)
    PROVE  UtilityBase'
<1>1. /\ \/ job.state = "CheckingExtStorage" /\ job.kind = "Assets"
         \/ job.state = "CheckingSDCard" /\ job.kind = "Refresh"
      /\ Tail(line) \in Seq(LineRequests) /\ job \in Jobs /\ host \in Tables
  BY HeadFacts, InfoTells DEF UtilityBase, UtilityTypeOK
<1>2. line' = Tail(line) /\ host' = host
  BY DEF OnInfo, Goes
<1>3. CASE job' = Posted([job EXCEPT !.found = IF job.kind = "Refresh" THEN {"card"} ELSE {}])
  <2>1. /\ job' \in Jobs /\ job'.state = job.state /\ job'.kind = job.kind
        /\ job'.found = IF job.kind = "Refresh" THEN {"card"} ELSE {}
    BY <1>1, <1>3 DEF Posted, Jobs
  <2>2. UtilityTypeOK'
    BY <1>1, <1>2, <2>1, WorldKeepsTypes DEF UtilityBase, UtilityTypeOK
  <2> QED
    BY <1>1, <1>2, <2>1, <2>2, OnlyOneEnds DEF Shrinks, World, Many
<1>4. CASE job' = Over(FALSE)
  <2>1. job' \in Jobs /\ job'.state = "Finished" /\ job'.kind = job.kind /\ job'.found = job.found /\ ~job'.posted
    BY <1>1, <1>4, OverFacts
  <2>2. UtilityTypeOK'
    BY <1>1, <1>2, <2>1, WorldKeepsTypes DEF UtilityBase, UtilityTypeOK, StateOfKind
  <2> QED
    BY <1>1, <1>2, <2>1, <2>2, OnlyOneEnds DEF Shrinks, World, Many
<1>5. CASE job.kind # "Assets" /\ job' = Posted([job EXCEPT !.state = "CheckingManifest"])
  <2>1. /\ job' \in Jobs /\ job'.state = "CheckingManifest" /\ job'.kind = job.kind /\ job'.found = job.found
    BY <1>1, <1>5 DEF Posted, Jobs, JobStates
  <2>2. UtilityTypeOK'
    BY <1>1, <1>2, <1>5, <2>1, WorldKeepsTypes DEF UtilityBase, UtilityTypeOK, StateOfKind
  <2> QED
    BY <1>1, <1>2, <2>1, <2>2, OnlyOneEnds DEF Shrinks, World, Many
<1> QED
  BY <1>3, <1>4, <1>5 DEF OnInfo, Goes

(* A stat of the manifest ends.                                              *)
LEMMA ManifestStatKeeps ==
    ASSUME UtilityBase, line # <<>>, InService(Head(line)), World, Head(line).do = "stat",
           Head(line).path = ManifestPath, NEW good, OnManifestStat(Head(line), good)
    PROVE  UtilityBase'
<1>1. /\ \/ job.state = "CheckingDeviceManifest" /\ job.kind = "Assets"
         \/ job.state = "CheckingManifest" /\ job.kind = "Refresh"
      /\ Tail(line) \in Seq(LineRequests) /\ job \in Jobs /\ host \in Tables
      /\ Readable(Empty) \in Manifests
  BY HeadFacts, StatTells, TargetFacts, ManifestPathIsApart, ManifestTypes DEF UtilityBase, UtilityTypeOK
<1>2. line' = Tail(line) /\ host' = host
  BY DEF OnManifestStat, Goes
<1>3. /\ job' \in Jobs /\ job'.kind = job.kind /\ job'.state \in {job.state, "ReadingDeviceManifest"}
      /\ job.kind = "Refresh" => job'.state = job.state
      /\ job.kind = "Assets" => job'.found = job.found
  <2>1. CASE job.kind = "Refresh"
    <3>1. PICK a : a = IF SeesFile(Head(line), good) THEN {"assets"} ELSE {}
      OBVIOUS
    <3>2. job' = Posted([job EXCEPT !.found = @ \cup a])
      BY <2>1, <3>1 DEF OnManifestStat, Goes
    <3> QED
      BY <1>1, <2>1, <3>1, <3>2 DEF Posted, Jobs
  <2>2. CASE job.kind = "Assets" /\ SeesFile(Head(line), good)
    <3>1. job' = Posted([job EXCEPT !.manifest = Readable(Empty)])
      BY <2>2 DEF OnManifestStat, Goes
    <3> QED
      BY <1>1, <2>2, <3>1 DEF Posted, Jobs
  <2>3. CASE job.kind = "Assets" /\ ~SeesFile(Head(line), good)
    <3>1. job' = Posted([job EXCEPT !.state = "ReadingDeviceManifest"])
      BY <2>3 DEF OnManifestStat, Goes
    <3> QED
      BY <1>1, <2>3, <3>1 DEF Posted, Jobs, JobStates
  <2> QED
    BY <1>1, <2>1, <2>2, <2>3
<1>4. UtilityTypeOK'
  BY <1>1, <1>2, <1>3, WorldKeepsTypes DEF UtilityBase, UtilityTypeOK, StateOfKind
<1> QED
  BY <1>1, <1>2, <1>3, <1>4, OnlyOneEnds DEF Shrinks, World, Many

(* A request about an element of a path ends: the next one is asked about,   *)
(* or it is over, or the rest is to be made.                                 *)
LEMMA ElementKeeps ==
    ASSUME UtilityBase, line # <<>>, InService(Head(line)), World, job.kind = "PathCreate",
           NEW good, OnElement(Head(line), good)
    PROVE  UtilityBase'
<1> DEFINE r == Head(line)
           isLast == job.index = Len(job.target)
           next == [job EXCEPT !.index = @ + 1, !.found = IF r.do = "stat" THEN @ \cup {r.path} ELSE @]
<1>1. /\ \/ job.state = "CheckingRemotePath" /\ r.do = "stat"
         \/ job.state = "CreatingRemotePath" /\ r.do = "mkdir"
      /\ job.index \in DOMAIN job.target /\ r.path = job.target[job.index]
      /\ Tail(line) \in Seq(LineRequests) /\ job \in Jobs /\ host \in Tables
      /\ UtilityTypeOK
  BY HeadFacts, ElementTells DEF UtilityBase, UtilityTypeOK
<1>2. /\ r.path \in Path /\ job.found \subseteq Path /\ job.index \in Nat
      /\ Len(job.target) \in Nat /\ DOMAIN job.target = 1..Len(job.target)
  BY <1>1, TargetFacts, BaseTypes DEF UtilityTypeOK
<1>3. host' = host
  BY DEF OnElement, Goes
<1>4. ASSUME line' = Tail(line), job' \in Jobs, job'.kind = job.kind, job'.target = job.target,
             \/ job'.state = job.state /\ job'.index = job.index
             \/ job'.state \in {"Finished", "CreatingRemotePath"},
             job'.found \subseteq Path, job'.posted => job'.state # "Finished"
      PROVE  UtilityBase'
  <2>1. UtilityTypeOK'
    BY <1>1, <1>2, <1>3, <1>4, WorldKeepsTypes DEF StateOfKind, UtilityTypeOK
  <2> QED
    BY <1>1, <1>4, <2>1, OnlyOneEnds DEF Shrinks, World, Many
<1>5. CASE Goes(Over(TRUE))
  BY <1>1, <1>2, <1>4, <1>5, OverFacts DEF Goes
<1>6. CASE Goes(Posted(job))
  <2>1. /\ job' \in Jobs /\ job'.kind = job.kind /\ job'.target = job.target /\ job'.state = job.state
        /\ job'.index = job.index /\ job'.found = job.found /\ line' = Tail(line)
    BY <1>1, <1>6 DEF Goes, Posted, Jobs
  <2> QED
    BY <1>1, <1>2, <1>4, <2>1
<1>7. ASSUME NEW n, n = next
      PROVE  /\ n \in Jobs /\ n.index = job.index + 1 /\ n.found \subseteq Path /\ n.kind = job.kind
             /\ n.target = job.target /\ n.state = job.state /\ n.posted = job.posted
  <2>1. PICK f : f = IF r.do = "stat" THEN job.found \cup {r.path} ELSE job.found
    OBVIOUS
  <2>2. f \subseteq Path
    BY <1>2, <2>1
  <2>3. n = [job EXCEPT !.index = job.index + 1, !.found = f]
    BY <1>7, <2>1
  <2>4. job.index + 1 \in Nat
    BY <1>2
  <2> QED
    BY <1>1, <2>2, <2>3, <2>4 DEF Jobs
<1>8. CASE isLast /\ Goes(IF r.do = "stat" THEN [Over(FALSE) EXCEPT !.found = next.found] ELSE Posted(next))
  <2>1. CASE r.do = "stat"
    <3>1. PICK n : n = next
      OBVIOUS
    <3>2. PICK o : o = Over(FALSE)
      OBVIOUS
    <3>3. /\ o \in Jobs /\ o.state = "Finished" /\ o.posted = FALSE /\ o.kind = job.kind /\ o.target = job.target
      BY <1>1, <3>2, OverFacts
    <3>4. job' = [o EXCEPT !.found = n.found] /\ line' = Tail(line)
      BY <1>8, <2>1, <3>1, <3>2 DEF Goes
    <3>5. n.found \subseteq Path
      BY <1>7, <3>1
    <3>6. job' \in Jobs /\ job'.kind = job.kind /\ job'.target = job.target /\ job'.state = "Finished"
          /\ job'.found \subseteq Path /\ ~job'.posted
      BY <3>3, <3>4, <3>5 DEF Jobs
    <3> QED
      BY <1>4, <3>4, <3>6
  <2>2. CASE r.do # "stat"
    <3>1. PICK n : n = next
      OBVIOUS
    <3>2. job' = [n EXCEPT !.posted = TRUE] /\ line' = Tail(line)
      BY <1>8, <2>2, <3>1 DEF Goes, Posted
    <3>3. /\ n \in Jobs /\ n.found \subseteq Path /\ n.kind = job.kind /\ n.target = job.target /\ n.state = job.state
      BY <1>7, <3>1
    <3>4. job' \in Jobs /\ job'.kind = job.kind /\ job'.target = job.target /\ job'.state = job.state
          /\ job'.found \subseteq Path
      BY <3>2, <3>3 DEF Jobs
    <3> QED
      BY <1>1, <1>4, <2>2, <3>2, <3>4
  <2> QED
    BY <2>1, <2>2
<1>9. CASE /\ ~isLast /\ job' = next
           /\ line' = Append(Tail(line), Ask(r.do, job.target[job.index + 1], TRUE)) /\ UNCHANGED host
  <2>1. /\ job' \in Jobs /\ job'.index = job.index + 1 /\ job'.found \subseteq Path /\ job'.kind = job.kind
        /\ job'.target = job.target /\ job'.state = job.state /\ job'.posted = job.posted
    BY <1>7, <1>9
  <2>2. job.index + 1 \in DOMAIN job.target /\ job.target[job.index + 1] \in Path
    <3>1. job.index + 1 \in 1..Len(job.target)
      BY <1>1, <1>2, <1>9
    <3> QED
      BY <1>1, <1>2, <3>1, TargetFacts
  <2>3. PICK q : q = Ask(r.do, job.target[job.index + 1], TRUE)
    OBVIOUS
  <2>4. q \in LineRequests /\ q.do = r.do /\ q.path = job.target[job.index + 1] /\ q.by = "job"
    BY <1>1, <2>2, <2>3 DEF Ask, LineRequests, Places
  <2>5. PICK t : t = Tail(line)
    OBVIOUS
  <2>6. t \in Seq(LineRequests) /\ Mine(t) = {} /\ OneOther(t) /\ ~history.dropped /\ ~job.posted
    BY <1>1, <2>5, HeadFacts DEF Many
  <2>7. line' = t \o <<q>>
    BY <1>9, <2>3, <2>4, <2>5, <2>6, AppendLine
  <2>8. PICK rs : rs = <<q>>
    OBVIOUS
  <2>9. rs \in Seq(LineRequests) /\ Mine(rs) = {1} /\ OtherClients(rs) = {} /\ rs[1] = q
    BY <2>4, <2>8, OneLine
  <2>10. line' \in Seq(LineRequests) /\ OneOther(line')
    BY <2>6, <2>7, <2>8, <2>9, ConcatLine, RequestsAfterOthers
  <2>11. \A i \in Mine(line') : i - Len(t) = 1 /\ line'[i] = q
    <3>1. \A i \in Mine(t \o rs) : i - Len(t) \in Mine(rs) /\ (t \o rs)[i] = rs[i - Len(t)]
      BY <2>6, <2>9, RequestsAfterOthers
    <3> QED
      BY <2>7, <2>8, <2>9, <3>1
  <2>12. \A i, j \in Mine(line') : i = j
    <3>1. Len(t) \in Nat /\ \A i \in Mine(line') : i \in Nat
      BY <2>6, LenProperties DEF Mine
    <3> QED
      BY <2>11, <3>1
  <2>13. UtilityTypeOK'
    BY <1>1, <1>2, <1>3, <2>1, <2>2, <2>10, WorldKeepsTypes DEF UtilityTypeOK
  <2>14. Fits(q)'
    BY <1>1, <2>1, <2>2, <2>4 DEF Fits, At
  <2>15. Lawful(line)'
    <3>1. (\A i \in Mine(line) : Fits(line[i]))'
      BY <2>11, <2>14 DEF Fits
    <3>2. Distinct(line')
      <4>1. \A i, j \in Mine(line') : ~(i < j)
        <5>1. \A i \in Mine(line') : i \in Nat
          BY DEF Mine
        <5> QED
          BY <2>12, <5>1
      <4> QED
        BY <4>1 DEF Distinct
    <3> QED
      BY <1>1, <2>1, <2>12, <3>1, <3>2 DEF Lawful, At
  <2> QED
    BY <1>1, <2>1, <2>6, <2>10, <2>13, <2>15 DEF UtilityBase, LineInv, World, NothingLeftInLine, At
<1>10. \/ Goes(Over(TRUE)) \/ Goes(Posted(job))
       \/ isLast /\ Goes(IF r.do = "stat" THEN [Over(FALSE) EXCEPT !.found = next.found] ELSE Posted(next))
       \/ /\ ~isLast /\ job' = next
          /\ line' = Append(Tail(line), Ask(r.do, job.target[job.index + 1], TRUE)) /\ UNCHANGED host
  BY DEF OnElement
<1> QED
  BY <1>5, <1>6, <1>8, <1>9, <1>10

(* A listing ends: its files are found, and its directories are asked for.   *)
(* The count of what is pending stays that of the requests in the line.      *)
LEMMA ListKeeps ==
    ASSUME UtilityBase, line # <<>>, InService(Head(line)), World, Head(line).do = "list",
           NEW good, OnList(Head(line), good)
    PROVE  /\ UtilityBase'
           /\ \E files \in SUBSET Path :
                /\ files = IF good THEN {p \in Children(Head(line).path) : storage[p] # "none"} ELSE {}
                /\ job'.found = job.found \cup files
                /\ Left(line') = Left(Tail(line)) \cup {p \in files : IsDir(storage, p)}
           /\ job'.state = job.state /\ job'.kind = job.kind /\ job'.posted = (job'.pending = 0)
           /\ host' = host
<1> DEFINE r == Head(line)
<1>1. /\ job.state = "GettingFileTree" /\ job.kind \in {"Download", "Backup"} /\ r.path \in Path \cup {Root}
      /\ job \in Jobs /\ UtilityTypeOK /\ job.found \subseteq Path /\ host \in Tables /\ job.pending \in Nat
  BY HeadFacts, ListTells, BaseTypes DEF UtilityBase, UtilityTypeOK
<1>2. PICK files : files = IF good THEN {p \in Children(r.path) : storage[p] # "none"} ELSE {}
  OBVIOUS
<1>3. files \subseteq Path
  BY <1>2 DEF Children
<1> DEFINE D == {p \in files : IsDir(storage, p)}
<1>4. PICK dirs \in Listings(D) :
        /\ job' = [job EXCEPT !.pending = PendingAfter(dirs), !.found = @ \cup files, !.posted = PendingAfter(dirs) = 0]
        /\ line' = Tail(line) \o [i \in DOMAIN dirs |-> ListDirectory(dirs[i])]
        /\ UNCHANGED host
  BY <1>2 DEF OnList
<1>5. Enumerates(dirs, D)
  BY <1>3, ListingFacts
<1>6. dirs \in Seq(D) /\ Len(dirs) \in Nat /\ DOMAIN dirs = 1..Len(dirs) /\ \A i \in 1..Len(dirs) : dirs[i] \in D
  BY <1>5, LenProperties, ElementOfSeq DEF Enumerates
<1>7. PICK rs : rs = [i \in 1..Len(dirs) |-> ListDirectory(dirs[i])]
  OBVIOUS
<1>8. \A i \in 1..Len(dirs) : rs[i] = ListDirectory(dirs[i]) /\ dirs[i] \in Path
  BY <1>3, <1>6, <1>7
<1>9. \A i \in 1..Len(dirs) : rs[i] \in LineRequests /\ rs[i].by = "job" /\ rs[i].do = "list" /\ rs[i].path = dirs[i]
  <2> TAKE i \in 1..Len(dirs)
  <2>1. PICK p \in Path : p = dirs[i] /\ rs[i] = ListDirectory(p)
    BY <1>8
  <2> QED
    BY <2>1 DEF ListDirectory, Ask, LineRequests, Places
<1>10. rs \in [1..Len(dirs) -> LineRequests]
  BY <1>7, <1>9
<1>11. rs \in Seq(LineRequests) /\ Len(rs) = Len(dirs)
  BY <1>6, <1>10, SeqDef, LenProperties
<1>12. Mine(rs) = 1..Len(dirs) /\ OtherClients(rs) = {}
  BY <1>9, <1>11 DEF Mine, OtherClients
<1>13. Left(rs) = D
  <2>1. \A p \in D : p \in Left(rs)
    <3> TAKE p \in D
    <3>1. PICK i \in 1..Len(dirs) : dirs[i] = p
      BY <1>5 DEF Enumerates
    <3>2. i \in Mine(rs) /\ rs[i].path = p
      BY <1>9, <1>12, <3>1
    <3> QED
      BY <3>2 DEF Left
  <2>2. \A i \in Mine(rs) : rs[i].path \in D
    BY <1>6, <1>9, <1>12
  <2> QED
    BY <2>1, <2>2 DEF Left
<1>14. PICK t : t = Tail(line)
  OBVIOUS
<1>15. /\ t \in Seq(LineRequests) /\ OneOther(t) /\ (OtherClients(t) = {} <=> OtherClients(line) = {})
       /\ Len(t) = Len(line) - 1 /\ Len(line) \in Nat /\ Len(line) >= 1 /\ ~history.dropped
       /\ \A i \in Mine(t) : i + 1 \in Mine(line) /\ t[i] = line[i + 1]
  BY <1>14, HeadFacts
<1>16. line' = t \o rs
  BY <1>4, <1>6, <1>7, <1>14
<1>17. /\ line' \in Seq(LineRequests) /\ Len(line') = Len(t) + Len(rs) /\ OtherClients(line') = OtherClients(t)
       /\ Left(line') = Left(t) \cup D
  BY <1>11, <1>12, <1>13, <1>15, <1>16, ConcatLine
<1>18. \A i \in Mine(line') : IF i <= Len(t) THEN i \in Mine(t) /\ line'[i] = t[i]
                              ELSE i - Len(t) \in Mine(rs) /\ line'[i] = rs[i - Len(t)]
  <2>1. \A i \in Mine(t \o rs) : IF i <= Len(t) THEN i \in Mine(t) ELSE i - Len(t) \in Mine(rs)
    BY <1>11, <1>15, ConcatLine
  <2>2. \A i \in 1..Len(t \o rs) : (t \o rs)[i] = IF i <= Len(t) THEN t[i] ELSE rs[i - Len(t)]
    BY <1>11, <1>15, ConcatLine
  <2>3. \A i \in Mine(t \o rs) : i \in 1..Len(t \o rs)
    BY DEF Mine
  <2> QED
    BY <1>16, <2>1, <2>2, <2>3
<1>19. Len(line) <= job.pending + (IF OtherClients(line) = {} THEN 0 ELSE 1) /\ Lawful(line)
  BY <1>1 DEF UtilityBase, LineInv, At
<1>20. job.pending >= 1
  <2>1. CASE OtherClients(line) = {}
    BY <1>1, <1>15, <1>19, <2>1
  <2>2. CASE OtherClients(line) # {}
    <3>1. PICK i : i \in OtherClients(t)
      BY <1>15, <2>2
    <3>2. Len(t) >= 1 /\ Len(t) \in Nat
      BY <1>15, <3>1 DEF OtherClients
    <3> QED
      BY <1>1, <1>15, <1>19, <2>2, <3>2
  <2> QED
    BY <2>1, <2>2
<1>21. PICK n : n = (job.pending - 1) + Len(dirs)
  OBVIOUS
<1>22. n \in Nat /\ PendingAfter(dirs) = n
  BY <1>1, <1>6, <1>20, <1>21 DEF PendingAfter
<1>23. /\ job' \in Jobs /\ job'.state = "GettingFileTree" /\ job'.kind = job.kind /\ job'.pending = n
       /\ job'.found = job.found \cup files /\ job'.posted = (n = 0)
  BY <1>1, <1>3, <1>4, <1>22 DEF Jobs
<1>24. UtilityTypeOK'
  BY <1>1, <1>3, <1>4, <1>17, <1>23, WorldKeepsTypes DEF UtilityTypeOK
<1>25. Lawful(line)'
  <2>1. \A i \in Mine(line') : line'[i].do = "list" /\ line'[i].path \in Path \cup {Root}
    <3> TAKE i \in Mine(line')
    <3>1. CASE i <= Len(t)
      <4>1. i + 1 \in Mine(line) /\ line'[i] = line[i + 1]
        BY <1>15, <1>18, <3>1
      <4>2. Fits(line[i + 1])
        BY <4>1, <1>19 DEF Lawful
      <4> QED
        BY <4>1, <4>2, <1>1 DEF Fits, At
    <3>2. CASE ~(i <= Len(t))
      BY <1>8, <1>9, <1>12, <1>18, <3>2
    <3> QED
      BY <3>1, <3>2
  <2> QED
    BY <2>1, <1>23 DEF Lawful, Fits, At, Many
<1>26. Len(line') <= job'.pending + (IF OtherClients(line') = {} THEN 0 ELSE 1)
  <2>1. PICK k \in {0, 1} : k = IF OtherClients(line) = {} THEN 0 ELSE 1
    OBVIOUS
  <2>2. k = IF OtherClients(line') = {} THEN 0 ELSE 1
    BY <1>15, <1>17, <2>1
  <2>3. /\ Len(line) <= job.pending + k /\ job.pending \in Nat /\ Len(dirs) \in Nat /\ Len(line) \in Nat
        /\ Len(line') = (Len(line) - 1) + Len(dirs) /\ job'.pending = (job.pending - 1) + Len(dirs)
    BY <1>1, <1>6, <1>11, <1>15, <1>17, <1>19, <1>21, <1>23, <2>1
  <2>4. Len(line') <= job'.pending + k
    BY <2>1, <2>3
  <2> QED
    BY <2>2, <2>4
<1>27. job'.posted => Mine(line') = {}
  <2> SUFFICES ASSUME n = 0, NEW i \in Mine(line') PROVE FALSE
    BY <1>23
  <2>1. Len(line') \in Nat /\ i \in 1..Len(line')
    BY <1>17, LenProperties DEF Mine
  <2>2. OtherClients(line') # {} /\ Len(line') = 1
    <3>1. Len(line') >= 1 /\ job'.pending = 0
      BY <2>1, <1>23
    <3>2. CASE OtherClients(line') = {}
      BY <1>26, <2>1, <3>1, <3>2
    <3>3. CASE OtherClients(line') # {}
      <4>1. (IF OtherClients(line') = {} THEN 0 ELSE 1) = 1
        BY <3>3
      <4>2. Len(line') <= 0 + 1
        BY <1>26, <3>1, <4>1
      <4>3. ASSUME NEW m \in Nat, m >= 1, m <= 0 + 1
            PROVE  m = 1
        BY <4>3
      <4>4. Len(line') = 1
        BY <2>1, <3>1, <4>2, <4>3
      <4> QED
        BY <3>3, <4>4
    <3> QED
      BY <3>2, <3>3
  <2>3. PICK j : j \in OtherClients(line')
    BY <2>2
  <2>4. j = 1 /\ i = 1 /\ line'[j].by = "other" /\ line'[i].by = "job"
    BY <2>1, <2>2, <2>3 DEF OtherClients, Mine
  <2> QED
    BY <2>4
<1>28. UtilityBase'
  <2>1. OneOther(line')
    BY <1>15, <1>17 DEF OneOther
  <2> QED
    BY <1>15, <1>23, <1>24, <1>25, <1>26, <1>27, <2>1 DEF UtilityBase, LineInv, World, NothingLeftInLine, At
<1>29. /\ job'.state = job.state /\ job'.kind = job.kind /\ job'.posted = (job'.pending = 0)
       /\ host' = host /\ Left(line') = Left(Tail(line)) \cup D /\ job'.found = job.found \cup files
  BY <1>1, <1>4, <1>14, <1>17, <1>23
<1> QED
  BY <1>2, <1>3, <1>28, <1>29

(* A read ends: the manifest is known, or the file is here.                  *)
LEMMA ReadKeeps ==
    ASSUME UtilityBase, line # <<>>, InService(Head(line)), World, Head(line).do = "read", OnRead(Head(line))
    PROVE  UtilityBase'
<1> DEFINE r == Head(line)
<1>1. /\ \/ job.state = "ReadingDeviceManifest" /\ job.kind = "Assets" /\ r.path = ManifestPath
         \/ /\ job.state = "ReadingFiles" /\ job.kind \in {"Download", "Backup"}
            /\ r.path \in job.found /\ r.path \in Path /\ r.path # ManifestPath
      /\ Tail(line) \in Seq(LineRequests) /\ job \in Jobs /\ host \in Tables /\ storage \in Tables
      /\ r.last \in BOOLEAN /\ job.found \subseteq Path /\ manifest \in Manifests
  BY HeadFacts, ReadTells, BaseTypes DEF UtilityBase, UtilityTypeOK
<1>2. CASE r.path = ManifestPath
  <2>1. job' = [job EXCEPT !.manifest = manifest, !.posted = TRUE] /\ line' = Tail(line) /\ host' = host
    BY <1>2 DEF OnRead, Goes, Posted
  <2>2. job' \in Jobs /\ job'.state = job.state /\ job'.kind = job.kind /\ job'.found = job.found
    BY <1>1, <2>1 DEF Jobs
  <2>3. UtilityTypeOK'
    BY <1>1, <1>2, <2>1, <2>2, WorldKeepsTypes DEF UtilityBase, UtilityTypeOK
  <2> QED
    BY <1>1, <1>2, <2>1, <2>2, <2>3, OnlyOneEnds DEF Shrinks, World, Many
<1>3. CASE r.path # ManifestPath
  <2>1. /\ host' = [host EXCEPT ![r.path] = storage[r.path]] /\ job' = [job EXCEPT !.posted = r.last]
        /\ line' = Tail(line)
    BY <1>3 DEF OnRead
  <2>2. /\ job' \in Jobs /\ job'.state = "ReadingFiles" /\ job'.kind = job.kind /\ job'.found = job.found
        /\ job'.posted = r.last
    BY <1>1, <1>3, <2>1 DEF Jobs
  <2>3. host' \in Tables
    BY <1>1, <1>3, <2>1 DEF Tables
  <2>4. UtilityTypeOK'
    BY <1>1, <1>3, <2>1, <2>2, <2>3, WorldKeepsTypes DEF UtilityBase, UtilityTypeOK, LocalKinds
  <2>5. \A q \in LineRequests : Fits(q) => Fits(q)'
    BY <1>1, <1>3, <2>2 DEF Fits, At
  <2> QED
    BY <1>1, <1>3, <2>1, <2>2, <2>4, <2>5, OneOfManyEnds DEF Shrinks, World
<1> QED
  BY <1>2, <1>3

(* A checksum ends.                                                          *)
LEMMA Md5Keeps ==
    ASSUME UtilityBase, line # <<>>, InService(Head(line)), World, Head(line).do = "md5", NEW good,
           OnMd5Sum(Head(line), good)
    PROVE  /\ UtilityBase' /\ host' = host /\ job'.state = job.state /\ job'.kind = job.kind
           /\ job'.found = IF good /\ storage[Head(line).path] = host[Head(line).path] THEN job.found
                           ELSE job.found \cup {Head(line).path}
           /\ line' = Tail(line)
<1> DEFINE r == Head(line)
<1>1. /\ job.state = "VerifyingMd5Sum" /\ job.kind = "Verify" /\ r.path \in Files(host) /\ Files(host) \subseteq Path
      /\ Tail(line) \in Seq(LineRequests) /\ job \in Jobs /\ host \in Tables
      /\ r.last \in BOOLEAN /\ job.found \subseteq Path
  BY HeadFacts, Md5Tells, FilesArePaths DEF UtilityBase, UtilityTypeOK
<1>2. PICK f : f = IF good /\ storage[r.path] = host[r.path] THEN job.found ELSE job.found \cup {r.path}
  OBVIOUS
<1>3. f \subseteq Path
  BY <1>1, <1>2
<1>4. job' = [job EXCEPT !.found = f, !.posted = r.last] /\ line' = Tail(line) /\ host' = host
  BY <1>2 DEF OnMd5Sum, Goes
<1>5. /\ job' \in Jobs /\ job'.state = "VerifyingMd5Sum" /\ job'.kind = job.kind /\ job'.found = f
      /\ job'.posted = r.last
  BY <1>1, <1>3, <1>4 DEF Jobs
<1>6. UtilityTypeOK'
  BY <1>1, <1>3, <1>4, <1>5, WorldKeepsTypes DEF UtilityBase, UtilityTypeOK
<1>7. \A q \in LineRequests : Fits(q) => Fits(q)'
  BY <1>1, <1>4, <1>5 DEF Fits, At
<1>8. UtilityBase'
  BY <1>1, <1>4, <1>5, <1>6, <1>7, OneOfManyEnds DEF Shrinks, World
<1> QED
  BY <1>1, <1>2, <1>4, <1>5, <1>8

(* A removal or a write ends.                                                *)
LEMMA MoveKeeps ==
    ASSUME UtilityBase, line # <<>>, InService(Head(line)), World, Head(line).do \in {"remove", "write", "mkdir"},
           job.kind # "PathCreate", Goes([job EXCEPT !.posted = Head(line).last])
    PROVE  /\ UtilityBase' /\ host' = host /\ job'.state = job.state /\ job'.kind = job.kind
           /\ job'.manifest = job.manifest /\ line' = Tail(line)
           /\ job.kind \in {"Assets", "Upload", "Restore"} /\ job.state \in {"DeletingFiles", "WritingFiles"}
<1> DEFINE r == Head(line)
<1>1. /\ job.kind \in {"Assets", "Upload", "Restore"} /\ job.state \in {"DeletingFiles", "WritingFiles"}
      /\ Tail(line) \in Seq(LineRequests) /\ job \in Jobs /\ host \in Tables
      /\ r.last \in BOOLEAN /\ job.found \subseteq Path
  BY HeadFacts, MoveTells DEF UtilityBase, UtilityTypeOK
<1>2. job' = [job EXCEPT !.posted = r.last] /\ line' = Tail(line) /\ host' = host
  BY DEF Goes
<1>3. /\ job' \in Jobs /\ job'.state = job.state /\ job'.kind = job.kind /\ job'.found = job.found
      /\ job'.posted = r.last /\ job'.manifest = job.manifest
  BY <1>1, <1>2 DEF Jobs
<1>4. UtilityTypeOK'
  BY <1>1, <1>2, <1>3, WorldKeepsTypes DEF UtilityBase, UtilityTypeOK
<1>5. /\ Added' = Added /\ Deleted' = Deleted /\ ToDelete' = ToDelete /\ ToWrite' = ToWrite
      /\ WriteOrMkdir' = WriteOrMkdir
  BY <1>2, <1>3, SameLists
<1>6. \A q \in LineRequests : Fits(q) => Fits(q)'
  BY <1>1, <1>2, <1>3, <1>5 DEF Fits, At
<1>7. UtilityBase'
  BY <1>1, <1>2, <1>3, <1>4, <1>5, <1>6, OneOfManyEnds DEF Shrinks, World
<1> QED
  BY <1>1, <1>2, <1>3, <1>7

(* A request of any kind ends, or is refused.                                *)
LEMMA RequestEndsKeeps ==
    ASSUME UtilityBase, line # <<>>, InService(Head(line)), World, NEW good, OnFinished(Head(line), good)
    PROVE  UtilityBase'
BY InfoKeeps, ManifestStatKeeps, ElementKeeps, ListKeeps, ReadKeeps, Md5Keeps, MoveKeeps DEF OnFinished

(* Whatever the session does keeps the line lawful: it answers a request,    *)
(* gives up and clears the line, or answers another client.                  *)
LEMMA RpcKeeps ==
    ASSUME UtilityBase, Rpc
    PROVE  UtilityBase'
<1>1. CASE RequestDone
  <2>1. line # <<>> /\ InService(Head(line)) /\ CarryOut(Head(line)) /\ OnFinished(Head(line), TRUE)
        /\ UNCHANGED <<card, history>>
    BY <1>1 DEF RequestDone
  <2>2. World
    BY <2>1, HeadFacts, CarryOutTypes DEF CarryOutInPart, World, UtilityBase, UtilityTypeOK
  <2> QED
    BY <2>1, <2>2, RequestEndsKeeps
<1>2. CASE RequestRefused
  <2>1. /\ line # <<>> /\ InService(Head(line)) /\ OnFinished(Head(line), FALSE)
        /\ history' = [history EXCEPT !.refused = TRUE] /\ UNCHANGED <<storage, manifest, card>>
    BY <1>2 DEF RequestRefused
  <2>2. World
    BY <2>1 DEF World, UtilityBase, UtilityTypeOK, Histories
  <2> QED
    BY <2>1, <2>2, RequestEndsKeeps
<1>3. CASE RequestFailed
  <2>1. /\ line # <<>> /\ InService(Head(line)) /\ CarryOutInPart(Head(line))
        /\ line' = <<>> /\ UNCHANGED <<host, card, history>>
        /\ job' = IF ToleratesError(Head(line)) THEN Posted(job) ELSE Over(TRUE)
    BY <1>3 DEF RequestFailed, LineAfterError
  <2>2. /\ World /\ job \in Jobs /\ ~history.dropped /\ job.state # "Finished" /\ UtilityTypeOK
        /\ Fits(Head(line))
    BY <2>1, HeadFacts, CarryOutTypes DEF World, UtilityBase, UtilityTypeOK
  <2>3. /\ job' \in Jobs /\ job'.kind = job.kind /\ job'.found = job.found /\ job'.index = job.index
        /\ job'.target = job.target /\ job'.state \in {job.state, "Finished"}
        /\ job'.posted => job'.state # "Finished"
        /\ job'.state # "Finished" => ToleratesError(Head(line))
    <3>1. CASE ToleratesError(Head(line))
      BY <2>1, <2>2, <3>1 DEF Posted, Jobs
    <3>2. CASE ~ToleratesError(Head(line))
      BY <2>1, <2>2, <3>2, OverFacts
    <3> QED
      BY <3>1, <3>2
  <2>4. line' \in Seq(LineRequests) /\ Mine(line') = {} /\ OneOther(line') /\ Len(line') = 0
    BY <2>1, EmptyLine, EmptySeq DEF OneOther
  <2>5. UtilityTypeOK'
    BY <2>1, <2>2, <2>3, <2>4, WorldKeepsTypes DEF UtilityTypeOK, StateOfKind
  <2>6. job'.state # "GettingFileTree"
    BY <2>2, <2>3 DEF ToleratesError, UtilityTypeOK, StateOfKind
  <2> QED
    BY <2>1, <2>2, <2>3, <2>4, <2>5, <2>6, NothingInLine
<1>4. CASE OtherEnds
  <2>1. /\ line # <<>> /\ Head(line).by = "other" /\ UNCHANGED <<job, host, storage, manifest, card>>
        /\ \/ line' = Tail(line) /\ UNCHANGED history
           \/ line' = <<>> /\ history' = [history EXCEPT !.dropped = Len(line) > 1]
    BY <1>4 DEF OtherEnds
  <2>2. /\ line \in Seq(LineRequests) /\ OneOther(line) /\ job \in Jobs /\ UtilityTypeOK
    BY DEF UtilityBase, UtilityTypeOK, LineInv
  <2>3. 1 \in OtherClients(line)
    BY <2>1, <2>2, TailLine
  <2>4. CASE line' = Tail(line) /\ UNCHANGED history
    <3>1. PICK t : t = Tail(line)
      OBVIOUS
    <3>2. /\ t \in Seq(LineRequests) /\ Len(t) = Len(line) - 1 /\ Len(line) \in Nat
          /\ \A i \in Mine(t) : i + 1 \in Mine(line) /\ t[i] = line[i + 1]
          /\ OneOther(t) /\ OtherClients(t) = {}
          /\ Distinct(line) => Distinct(t)
          /\ line' = t
      BY <2>1, <2>2, <2>4, <3>1, TailLine
    <3>3. \A i \in Mine(t) : i \in Nat
      BY DEF Mine
    <3>4. \A i, j \in Mine(t) : i < j => i + 1 < j + 1
      BY <3>3
    <3>5. \A i, j \in Mine(t) : i + 1 = j + 1 => i = j
      BY <3>3
    <3>6. Lawful(line) => Lawful(t)
      BY <3>2, <3>4, <3>5 DEF Lawful, WritesInOrder, DeletesInOrder
    <3>7. Lawful(t) => Lawful(line)'
      <4>1. Deleted' = Deleted /\ Added' = Added /\ ToDelete' = ToDelete /\ ToWrite' = ToWrite
            /\ WriteOrMkdir' = WriteOrMkdir
        BY <2>1, SameLists
      <4> QED
        BY <2>1, <3>2, <4>1 DEF Lawful, WritesInOrder, DeletesInOrder, Fits, At
    <3>8. Len(line) <= job.pending + 1 => Len(t) <= job.pending
      BY <2>2, <3>2, BaseTypes
    <3>9. OtherClients(line) # {}
      BY <2>3
    <3>10. At("GettingFileTree") => Len(t) <= job.pending + 0
      <4>1. At("GettingFileTree") => Len(line) <= job.pending + 1
        BY <3>9 DEF UtilityBase, LineInv
      <4> QED
        BY <4>1, <3>8, <2>2, BaseTypes
    <3>11. Mine(line) = {} => Mine(t) = {}
      BY <3>2
    <3>12. UtilityTypeOK'
      BY <2>1, <2>4, <3>2 DEF UtilityBase, UtilityTypeOK
    <3>13. \A i \in DOMAIN t : t[i].by = "job" => \E k \in DOMAIN line : line[k].by = "job"
      <4>1. \A i \in DOMAIN t : t[i].by = "job" => i \in Mine(t)
        BY <3>2, LenProperties DEF Mine
      <4>2. \A k \in Mine(line) : k \in DOMAIN line /\ line[k].by = "job"
        BY <2>2, LenProperties DEF Mine
      <4> QED
        BY <4>1, <4>2, <3>2
    <3>14. NothingLeftInLine'
      BY <2>1, <2>4, <3>2, <3>13 DEF NothingLeftInLine, UtilityBase, LineInv
    <3>15. ~history.dropped
      BY <2>1 DEF UtilityBase, LineInv
    <3> QED
      BY <2>1, <2>4, <3>2, <3>6, <3>7, <3>10, <3>11, <3>12, <3>14, <3>15 DEF UtilityBase, LineInv, At
  <2>5. CASE line' = <<>> /\ history' = [history EXCEPT !.dropped = Len(line) > 1]
    <3>1. line' \in Seq(LineRequests) /\ Mine(line') = {} /\ OneOther(line') /\ Len(line') = 0
      BY <2>5, EmptyLine, EmptySeq DEF OneOther
    <3>2. PICK b \in BOOLEAN : b <=> Len(line) > 1
      OBVIOUS
    <3>6. history' = [history EXCEPT !.dropped = b]
      BY <2>5, <3>2
    <3>7. history' \in Histories /\ history'.dropped = b
      BY <2>2, <3>6 DEF UtilityTypeOK, Histories
    <3>3. UtilityTypeOK'
      BY <2>1, <2>2, <3>1, <3>7 DEF UtilityTypeOK
    <3>4. Len(line) > 1 => ~job.posted
      <4> SUFFICES ASSUME Len(line) > 1, job.posted PROVE FALSE
        OBVIOUS
      <4>1. Mine(line) = {} /\ OtherClients(line) # {}
        BY <2>3 DEF UtilityBase, LineInv
      <4>2. Len(line) <= 1
        BY <2>2, <4>1, QuietLength
      <4>3. Len(line) \in Nat
        BY <2>2, LenProperties
      <4> QED
        BY <4>2, <4>3
    <3>5. job'.pending \in Nat
      BY <2>1, <2>2, BaseTypes
    <3>9. job'.posted => job'.state # "Finished" /\ Mine(line)' = {}
      BY <2>1, <3>1 DEF UtilityBase, LineInv
    <3>10. history'.dropped => line' = <<>> /\ ~job'.posted
      BY <2>1, <2>5, <3>2, <3>4, <3>7
    <3>11. Len(line)' <= job'.pending + (IF OtherClients(line)' = {} THEN 0 ELSE 1)
      BY <3>1, <3>5
    <3>12. job'.posted => job'.state # "Finished"
      BY <3>9
    <3> QED
      BY <3>1, <3>3, <3>10, <3>11, <3>12, NothingInLine
  <2> QED
    BY <2>1, <2>4, <2>5
<1> QED
  BY <1>1, <1>2, <1>3, <1>4 DEF Rpc

(* A request of another client comes after those of the operation.           *)
LEMMA OtherAsksKeeps ==
    ASSUME UtilityBase, OtherAsks
    PROVE  /\ UtilityBase' /\ Left(line') = Left(line) /\ Mine(line') = Mine(line)
           /\ UNCHANGED <<job, host, storage, manifest, card, history>>
<1>1. PICK r : r = [do |-> "other", path |-> Root, last |-> FALSE, by |-> "other"]
  OBVIOUS
<1>2. r \in LineRequests /\ r.by = "other"
  BY <1>1 DEF LineRequests
<1>3. PICK l : l = line
  OBVIOUS
<1>4. PICK m : m = line'
  OBVIOUS
<1>5. /\ \A i \in DOMAIN l : l[i].by = "job"
      /\ l # <<>> /\ job.state # "Finished" /\ m = Append(l, r)
      /\ UNCHANGED <<job, host, storage, manifest, card, history>>
  BY <1>1, <1>3, <1>4 DEF OtherAsks
<1>6. l \in Seq(LineRequests) /\ UtilityTypeOK
  BY <1>3 DEF UtilityBase, UtilityTypeOK
<1>7. Len(l) \in Nat /\ DOMAIN l = 1..Len(l) /\ Len(l) >= 1
  BY <1>5, <1>6, LenProperties, EmptySeq
<1>8. /\ <<r>> \in Seq(LineRequests) /\ Len(<<r>>) = 1
      /\ Mine(<<r>>) = {} /\ OtherClients(<<r>>) = {1} /\ Left(<<r>>) = {}
  BY <1>2, OneLine
<1>9. m = l \o <<r>>
  BY <1>2, <1>5, <1>6, AppendLine
<1>10. /\ m \in Seq(LineRequests) /\ Len(m) = Len(l) + 1
       /\ \A i \in 1..Len(m) : m[i] = IF i <= Len(l) THEN l[i] ELSE <<r>>[i - Len(l)]
       /\ \A i \in Mine(m) : IF i <= Len(l) THEN i \in Mine(l) ELSE i - Len(l) \in Mine(<<r>>)
       /\ \A i \in OtherClients(m) : IF i <= Len(l) THEN i \in OtherClients(l) ELSE i - Len(l) \in OtherClients(<<r>>)
       /\ Left(m) = Left(l) \cup Left(<<r>>)
  BY <1>6, <1>8, <1>9, ConcatLine
<1>11. OtherClients(l) = {} /\ Mine(l) = 1..Len(l)
  BY <1>5, <1>7 DEF OtherClients, Mine
<1>12. Mine(m) \subseteq Mine(l) /\ \A i \in Mine(m) : m[i] = l[i]
  <2>1. \A i \in Mine(m) : i \in 1..Len(m) /\ i \in 1..Len(l) /\ i <= Len(l)
    BY <1>7, <1>8, <1>10, <1>11 DEF Mine
  <2> QED
    BY <2>1, <1>10, <1>11
<1>13. Mine(l) \subseteq Mine(m)
  <2>1. \A i \in 1..Len(l) : i \in 1..Len(m) /\ i <= Len(l)
    BY <1>7, <1>10
  <2>2. \A i \in 1..Len(l) : m[i].by = "job"
    BY <2>1, <1>5, <1>7, <1>10
  <2> QED
    BY <2>1, <2>2, <1>11 DEF Mine
<1>14. OneOther(m)
  <2>1. \A i \in OtherClients(m) : i \in 1..Len(m) /\ i - Len(l) = 1
    BY <1>7, <1>8, <1>10, <1>11 DEF OtherClients
  <2>2. \A i \in OtherClients(m) : i = Len(l) + 1
    BY <2>1, <1>7, <1>10
  <2> QED
    BY <2>2 DEF OneOther
<1>15. OtherClients(m) # {}
  <2>1. Len(l) + 1 \in 1..Len(m) /\ ~(Len(l) + 1 <= Len(l)) /\ (Len(l) + 1) - Len(l) = 1
    BY <1>7, <1>10
  <2>2. m[Len(l) + 1] = <<r>>[1]
    BY <2>1, <1>10
  <2>3. m[Len(l) + 1].by = "other"
    BY <2>2, <1>2
  <2> QED
    BY <2>1, <2>3 DEF OtherClients
<1>16. 1 \in Mine(l)
  BY <1>7, <1>11
<1>17. ~job.posted /\ ~history.dropped
  BY <1>3, <1>5, <1>16 DEF UtilityBase, LineInv
<1>18. Lawful(l) => Lawful(m)
  BY <1>12 DEF Lawful, Distinct, WritesInOrder, DeletesInOrder
<1>19. Lawful(m) => Lawful(line)'
  <2>1. Deleted' = Deleted /\ Added' = Added /\ ToDelete' = ToDelete /\ ToWrite' = ToWrite
        /\ WriteOrMkdir' = WriteOrMkdir
    BY <1>5, SameLists
  <2>2. line' = m /\ job' = job /\ host' = host
    BY <1>4, <1>5
  <2> QED
    BY <2>1, <2>2 DEF Lawful, WritesInOrder, DeletesInOrder, Fits, At
<1>20. UtilityTypeOK'
  BY <1>4, <1>5, <1>10 DEF UtilityBase, UtilityTypeOK
<1>21. At("GettingFileTree") => Len(m) <= job.pending + 1
  <2>1. At("GettingFileTree") => Len(l) <= job.pending + 0
    BY <1>3, <1>11 DEF UtilityBase, LineInv
  <2> QED
    BY <2>1, <1>6, <1>7, <1>10, BaseTypes
<1>22. LineInv'
  <2>1. NothingLeftInLine'
    BY <1>5 DEF NothingLeftInLine
  <2>2. Lawful(line)'
    BY <1>3, <1>5, <1>18, <1>19 DEF UtilityBase, LineInv
  <2> QED
    BY <1>4, <1>5, <1>14, <1>15, <1>17, <1>21, <2>1, <2>2 DEF LineInv, At
<1> QED
  BY <1>3, <1>4, <1>5, <1>8, <1>10, <1>12, <1>13, <1>20, <1>22 DEF UtilityBase

(* An operation that begins, for the first time or again.                    *)
LEMMA NewJobType ==
    ASSUME NEW kind \in Kinds, NEW target \in Targets
    PROVE  NewJob(kind, target) \in Jobs
<1>1. NoManifest \in Manifests
  BY DEF Manifests
<1> QED
  BY <1>1 DEF NewJob, Jobs, JobStates

(* What a run begins with.                                                   *)
LEMMA BeginningType ==
    ASSUME NEW d \in Trees, NEW m \in Manifests
    PROVE  Beginning(d, m) \in Histories /\ Beginning(d, m).dropped = FALSE /\ Beginning(d, m).refused = FALSE
           /\ Beginning(d, m).device = d /\ Beginning(d, m).manifest = m
BY DEF Beginning, Histories

(* An operation that is run again begins as the first time: nothing is left  *)
(* in the line.                                                              *)
LEMMA TryAgainKeeps ==
    ASSUME UtilityBase, TryAgain
    PROVE  UtilityBase'
<1>1. /\ line = <<>> /\ line' = <<>>
      /\ job' = NewJob(job.kind, job.target)
      /\ history' = [Beginning(storage, manifest) EXCEPT !.tries = history.tries + 1]
      /\ UNCHANGED <<host, storage, manifest, card>>
  BY DEF TryAgain
<1>2. UtilityTypeOK
  BY DEF UtilityBase
<1>3. job' \in Jobs
  BY <1>1, <1>2, BaseTypes, NewJobType
<1>4. history.tries \in Nat /\ storage \in Trees /\ manifest \in Manifests
  BY <1>2 DEF UtilityTypeOK, Histories
<1>5. history' \in Histories /\ history'.dropped = FALSE
  <2>1. PICK b : b = Beginning(storage, manifest)
    OBVIOUS
  <2>2. b \in Histories /\ b.dropped = FALSE
    BY <1>4, <2>1, BeginningType
  <2>3. PICK n \in Nat : n = history.tries + 1
    BY <1>4
  <2>4. history' = [b EXCEPT !.tries = n]
    BY <1>1, <2>1, <2>3
  <2> QED
    BY <2>2, <2>4 DEF Histories
<1>6. job'.kind = job.kind /\ job'.state = "Ready" /\ job'.found = {}
  BY <1>1 DEF NewJob
<1>7. UtilityTypeOK'
  BY <1>1, <1>2, <1>3, <1>5, <1>6 DEF UtilityTypeOK, StateOfKind
<1>8. OneOther(line') /\ Mine(line') = {}
  BY <1>1, EmptyLine DEF OneOther
<1> QED
  BY <1>5, <1>6, <1>7, <1>8, NothingInLine

(* It holds when an operation begins.                                        *)
LEMMA InitBase ==
    ASSUME UtilityInit
    PROVE  UtilityBase
<1>1. PICK kind \in Kinds :
        /\ host \in (IF kind \in {"Backup", "PathCreate", "Refresh"} THEN {Empty} ELSE LocalTrees)
        /\ kind = "Assets" => There(host) # {}
        /\ storage \in DeviceTrees
        /\ manifest \in (IF kind \in {"Assets", "Refresh"} THEN {Readable(storage), NoManifest, Corrupt} ELSE {NoManifest})
        /\ card \in (IF kind \in {"Assets", "Refresh"} THEN BOOLEAN ELSE {TRUE})
        /\ \E target \in (IF kind = "PathCreate" THEN {Chain(p) : p \in Path \cup {Root}} ELSE {<<>>}) :
             job = NewJob(kind, target)
        /\ line = <<>>
        /\ history = Beginning(storage, manifest)
  BY DEF UtilityInit
<1>2. Chain(Root) = <<>>
  BY DEF Chain, Root
<1>3. PICK target \in Targets : job = NewJob(kind, target)
  BY <1>1, <1>2 DEF Targets
<1>4. job \in Jobs /\ job.kind = kind /\ job.state = "Ready" /\ job.found = {}
  BY <1>3, NewJobType DEF NewJob
<1>5. host \in Trees /\ storage \in Trees
  BY <1>1, EmptyIsTree, TreesAreTrees
<1>6. host \in Tables /\ storage \in Tables
  BY <1>5, TreeType
<1>7. manifest \in Manifests /\ card \in BOOLEAN
  BY <1>1, <1>6 DEF Manifests
<1>8. history \in Histories /\ history.dropped = FALSE
  <2>1. history = Beginning(storage, manifest)
    BY <1>1
  <2>2. storage \in Trees /\ manifest \in Manifests
    BY <1>5, <1>7
  <2>3. Beginning(storage, manifest) \in Histories /\ Beginning(storage, manifest).dropped = FALSE
    BY <2>2, BeginningType
  <2> QED
    BY <2>1, <2>3
<1>9. UtilityTypeOK
  BY <1>1, <1>4, <1>5, <1>6, <1>7, <1>8, EmptyLine DEF UtilityTypeOK, StateOfKind
<1>10. Mine(line) = {} /\ OneOther(line)
  BY <1>1, EmptyLine DEF OneOther
<1>11. NothingLeftInLine /\ Lawful(line)
  BY <1>4, <1>10 DEF NothingLeftInLine, Lawful, Distinct, WritesInOrder, DeletesInOrder
<1> QED
  BY <1>4, <1>8, <1>9, <1>10, <1>11 DEF UtilityBase, LineInv, At

(* It holds when nothing happens.                                            *)
LEMMA StutterBase ==
    ASSUME UtilityBase, UNCHANGED utilityVars
    PROVE  UtilityBase'
<1>1. UNCHANGED <<job, host, storage, manifest, card, line, history>>
  BY DEF utilityVars
<1>2. UtilityTypeOK'
  BY <1>1 DEF UtilityBase, UtilityTypeOK
<1>3. Lawful(line) => Lawful(line)'
  <2>1. Deleted' = Deleted /\ Added' = Added /\ ToDelete' = ToDelete /\ ToWrite' = ToWrite
        /\ WriteOrMkdir' = WriteOrMkdir
    BY <1>1, SameLists
  <2> QED
    BY <1>1, <2>1 DEF Lawful, WritesInOrder, DeletesInOrder, Fits, At
<1>4. NothingLeftInLine'
  BY <1>1 DEF UtilityBase, LineInv, NothingLeftInLine
<1> QED
  BY <1>1, <1>2, <1>3, <1>4 DEF UtilityBase, LineInv, At

(* And every step keeps it.                                                  *)
LEMMA BaseIsKept ==
    ASSUME UtilityBase, [UtilityStep]_utilityVars
    PROVE  UtilityBase'
BY NextStateLogicKeeps, RpcKeeps, OtherAsksKeeps, TryAgainKeeps, StutterBase DEF UtilityStep

(* The session that comes and goes adds nothing to what may happen to an     *)
(* operation and its line: where it stops, a request fails.                  *)
LEMMA SessionStepIsStep == [UtilityNext]_allVars => [UtilityStep]_utilityVars
BY DEF UtilityNext, UtilityStep, SessionServes, SessionStops, SessionStarts, Rpc, allVars

(* In every state of every operation the requests it has in the line are     *)
(* those its state expects, each for another path, of which the last takes   *)
(* it on; it is posted, or waits for one of them, never both. Directories    *)
(* are made before what is in them, the manifest is deleted before the files *)
(* and written after those that are added.                                   *)
THEOREM UtilityLineIsLawful == UtilitySpec => []UtilityBase
<1>1. UtilityInit => UtilityBase
  BY InitBase
<1>2. UtilityBase /\ [UtilityNext]_allVars => UtilityBase'
  BY BaseIsKept, SessionStepIsStep
<1> QED
  BY <1>1, <1>2, PTL DEF UtilitySpec

(* An operation that is over has no request in the line of its session any   *)
(* more, unless it gave up over a directory it could not make here: it is    *)
(* deleted, and a request would use its files.                               *)
THEOREM NothingLeft == UtilitySpec => []NothingLeftInLine
<1>1. UtilityBase => NothingLeftInLine
  BY DEF UtilityBase, LineInv
<1> QED
  BY <1>1, UtilityLineIsLawful, PTL

-----------------------------------------------------------------------------
(* What an operation has done so far                                         *)

Going == job.state # "Finished" /\ ~history.refused /\ ~history.dropped

SameWorld == UNCHANGED <<job, host, storage, manifest, card>>
SameHistory == history'.device = history.device /\ history'.manifest = history.manifest /\ history'.refused = history.refused

(* A step that is none of the operation's.                                   *)
OtherStep == SameWorld /\ Left(line') = Left(line) /\ (Mine(line') = {} <=> Mine(line) = {})

(* A manifest that cannot be read is taken as none.                          *)
ToleratedStep ==
    /\ job' = Posted(job) /\ job.kind = "Assets" /\ At("ReadingDeviceManifest")
    /\ UNCHANGED <<host, storage, manifest, card>>

(* What a step does to an operation.                                         *)
StaysOver == job.state = "Finished" /\ SameWorld /\ SameHistory
GivesUp == RequestFailed /\ job' = Over(TRUE) /\ SameHistory
IsDropped == job.state # "Finished" /\ SameWorld /\ SameHistory /\ history'.dropped
GoesOn == Going /\ SameHistory /\ ~history'.dropped /\ (NextStateLogic \/ RequestDone \/ OtherStep \/ ToleratedStep)

(* A step of the operation does not change what it is, nor how it began.     *)
LEMMA NextStateFrame ==
    ASSUME UtilityBase, NextStateLogic
    PROVE  /\ job'.kind = job.kind /\ job'.target = job.target
           /\ SameHistory /\ history'.dropped = history.dropped
<1>1. job \in Jobs /\ history \in Histories
  BY DEF UtilityBase, UtilityTypeOK
<1>2. ASSUME NEW s, Passes(s)
      PROVE  job'.kind = job.kind /\ job'.target = job.target /\ history' = history
  BY <1>1, <1>2 DEF Passes, Jobs
<1>3. ASSUME NEW e, Finishes(e)
      PROVE  job'.kind = job.kind /\ job'.target = job.target /\ history' = history
  BY <1>1, <1>3 DEF Finishes, Over, Jobs
<1>4. ASSUME NEW s, NEW rs, AsksFor(s, rs)
      PROVE  job'.kind = job.kind /\ job'.target = job.target /\ history' = history
  BY <1>1, <1>4 DEF AsksFor, Jobs
<1>5. ASSUME NEW s, Works(s)
      PROVE  job'.kind = job.kind /\ job'.target = job.target /\ history' = history
  BY <1>2, <1>3, <1>5 DEF Works
<1>6. ASSUME NEW s, NEW lists, NEW Do, AsksForEach(s, lists, Do)
      PROVE  job'.kind = job.kind /\ job'.target = job.target /\ history' = history
  BY <1>4, <1>6 DEF AsksForEach
<1>7. ASSUME NEW s, NEW lists, NEW Do, AsksForAny(s, lists, Do)
      PROVE  job'.kind = job.kind /\ job'.target = job.target /\ history' = history
  BY <1>2, <1>6, <1>7 DEF AsksForAny
<1>8. ASSUME NEW s, NEW do, NEW p, AsksOne(s, do, p)
      PROVE  job'.kind = job.kind /\ job'.target = job.target /\ history' = history
  BY <1>4, <1>8 DEF AsksOne
<1>9. ASSUME GetFileTree
      PROVE  job'.kind = job.kind /\ job'.target = job.target /\ history' = history
  BY <1>1, <1>9 DEF GetFileTree, Jobs
<1>10. ASSUME CreateLocalDirectory
       PROVE  job'.kind = job.kind /\ job'.target = job.target /\ history' = history
  BY <1>1, <1>3, <1>10 DEF CreateLocalDirectory, Jobs
<1>11. ASSUME CheckRootElement
       PROVE  job'.kind = job.kind /\ job'.target = job.target /\ history' = history
  BY <1>1, <1>3, <1>11 DEF CheckRootElement, Jobs
<1>12. ASSUME ReadFiles
       PROVE  /\ job'.kind = job.kind /\ job'.target = job.target
              /\ history' = history \/ history' = [history EXCEPT !.disk = TRUE]
  BY <1>1, <1>12 DEF ReadFiles, Over, Jobs
<1>13. CASE ReadFiles
  BY <1>1, <1>12, <1>13 DEF SameHistory, Histories
<1>14. CASE job'.kind = job.kind /\ job'.target = job.target /\ history' = history
  BY <1>14 DEF SameHistory
<1>15. CASE AssetsDownload
  BY <1>15, <1>2, <1>3, <1>5, <1>7, <1>8, <1>14 DEF AssetsDownload
<1>16. CASE ChecksumVerify \/ FilesUpload
  BY <1>16, <1>2, <1>3, <1>6, <1>14 DEF ChecksumVerify, FilesUpload
<1>17. CASE DirectoryDownload \/ UserBackup
  BY <1>17, <1>3, <1>5, <1>9, <1>10, <1>13, <1>14 DEF DirectoryDownload, UserBackup
<1>18. CASE UserRestore
  <2>1. ReadBackupDir => Finishes(TRUE) \/ Passes("ReadingBackupDir")
    BY DEF ReadBackupDir
  <2> QED
    BY <1>18, <2>1, <1>2, <1>3, <1>5, <1>6, <1>14 DEF UserRestore
<1>19. CASE PathCreate \/ StorageInfoRefresh
  BY <1>19, <1>3, <1>8, <1>11, <1>14 DEF PathCreate, StorageInfoRefresh
<1> QED
  BY <1>15, <1>16, <1>17, <1>18, <1>19 DEF NextStateLogic

(* Nor does the end of a request.                                            *)
LEMMA RequestDoneFrame ==
    ASSUME UtilityBase, line # <<>>, InService(Head(line)), NEW good, OnFinished(Head(line), good)
    PROVE  job'.kind = job.kind /\ job'.target = job.target
<1>1. job \in Jobs
  BY DEF UtilityBase, UtilityTypeOK
<1>2. PICK r : r = Head(line)
  OBVIOUS
<1>3. ASSUME NEW next, Goes(next), next.kind = job.kind, next.target = job.target
      PROVE  job'.kind = job.kind /\ job'.target = job.target
  BY <1>3 DEF Goes
<1>4. ASSUME NEW p, OnInfo(p)
      PROVE  job'.kind = job.kind /\ job'.target = job.target
  BY <1>1, <1>4 DEF OnInfo, Goes, Posted, Over, Jobs
<1>5. ASSUME OnManifestStat(r, good)
      PROVE  job'.kind = job.kind /\ job'.target = job.target
  BY <1>1, <1>5 DEF OnManifestStat, Goes, Posted, Jobs
<1>6. ASSUME OnElement(r, good)
      PROVE  job'.kind = job.kind /\ job'.target = job.target
  BY <1>1, <1>6 DEF OnElement, Goes, Posted, Over, Jobs
<1>7. ASSUME OnList(r, good)
      PROVE  job'.kind = job.kind /\ job'.target = job.target
  BY <1>1, <1>7 DEF OnList, Jobs
<1>8. ASSUME OnRead(r)
      PROVE  job'.kind = job.kind /\ job'.target = job.target
  BY <1>1, <1>8 DEF OnRead, Goes, Posted, Jobs
<1>9. ASSUME OnMd5Sum(r, good)
      PROVE  job'.kind = job.kind /\ job'.target = job.target
  BY <1>1, <1>9 DEF OnMd5Sum, Goes, Jobs
<1>10. ASSUME Goes([job EXCEPT !.posted = r.last])
       PROVE  job'.kind = job.kind /\ job'.target = job.target
  BY <1>1, <1>10 DEF Goes, Jobs
<1> QED
  BY <1>2, <1>4, <1>5, <1>6, <1>7, <1>8, <1>9, <1>10 DEF OnFinished

(* An error ends the operation, but for that of a manifest that cannot be    *)
(* read.                                                                     *)
LEMMA FailedStep ==
    ASSUME UtilityBase, RequestFailed
    PROVE  GivesUp \/ (SameHistory /\ history'.dropped = history.dropped /\ ToleratedStep)
<1>1. /\ line # <<>> /\ InService(Head(line)) /\ CarryOutInPart(Head(line))
      /\ job' = IF ToleratesError(Head(line)) THEN Posted(job) ELSE Over(TRUE)
      /\ UNCHANGED <<host, card, history>>
  BY DEF RequestFailed
<1>2. CASE ~ToleratesError(Head(line))
  BY <1>1, <1>2 DEF GivesUp, SameHistory
<1>3. CASE ToleratesError(Head(line))
  <2>1. PICK r : r = Head(line)
    OBVIOUS
  <2>2. r.do = "read" /\ job.kind = "Assets" /\ Fits(r)
    BY <1>1, <1>3, <2>1, HeadFacts DEF ToleratesError
  <2>3. UtilityTypeOK
    BY DEF UtilityBase
  <2>4. job.state = "ReadingDeviceManifest" /\ r.path = ManifestPath
    BY <2>2, <2>3, ReadTells
  <2>5. UNCHANGED <<storage, manifest>>
    BY <1>1, <2>1, <2>2, <2>4 DEF CarryOutInPart, CarryOut, CarriedManifest
  <2> QED
    BY <1>1, <1>3, <2>2, <2>4, <2>5 DEF ToleratedStep, SameHistory, At
<1> QED
  BY <1>2, <1>3

(* Another client's request that ends is nothing to the operation; one that  *)
(* fails drops its requests.                                                 *)
LEMMA OtherEndsStep ==
    ASSUME UtilityBase, OtherEnds
    PROVE  SameWorld /\ SameHistory /\ ~history.dropped
           /\ (OtherStep \/ history'.dropped)
<1>1. /\ line # <<>> /\ Head(line).by = "other" /\ SameWorld
      /\ \/ line' = Tail(line) /\ UNCHANGED history
         \/ line' = <<>> /\ history' = [history EXCEPT !.dropped = Len(line) > 1]
  BY DEF OtherEnds, SameWorld
<1>2. line \in Seq(LineRequests) /\ history \in Histories /\ ~history.dropped /\ OneOther(line)
  BY <1>1 DEF UtilityBase, UtilityTypeOK, LineInv
<1>3. SameHistory
  BY <1>1, <1>2 DEF SameHistory, Histories
<1>4. PICK t : t = Tail(line)
  OBVIOUS
<1>5. /\ Left(line) = Left(t)
      /\ \A i \in Mine(t) : i + 1 \in Mine(line)
      /\ Len(line) \in Nat /\ Len(line) >= 1 /\ Len(t) = Len(line) - 1 /\ t \in Seq(LineRequests)
  <2>1. PICK l : l = line
    OBVIOUS
  <2>2. l \in Seq(LineRequests) /\ l # <<>> /\ Head(l).by = "other" /\ t = Tail(l)
    BY <1>1, <1>2, <1>4, <2>1
  <2>3. /\ \A i \in Mine(t) : i + 1 \in Mine(l)
        /\ Len(l) \in Nat /\ Len(l) >= 1 /\ Len(t) = Len(l) - 1 /\ t \in Seq(LineRequests)
    BY <2>2, TailLine
  <2>4. Left(l) = Left(t) \cup (IF Head(l).by = "job" THEN {Head(l).path} ELSE {})
    BY <2>2, TailLine
  <2> QED
    BY <2>1, <2>2, <2>3, <2>4
<1>6. Mine(t) = {} <=> Mine(line) = {}
  BY <1>5 DEF Left
<1>7. CASE line' = Tail(line)
  BY <1>1, <1>2, <1>3, <1>4, <1>5, <1>6, <1>7 DEF OtherStep
<1>8. CASE line' = <<>> /\ history' = [history EXCEPT !.dropped = Len(line) > 1]
  <2>1. CASE Len(line) > 1
    BY <1>1, <1>2, <1>3, <1>8, <2>1 DEF Histories
  <2>2. CASE ~(Len(line) > 1)
    <3>1. Len(t) = 0
      BY <1>5, <2>2
    <3>2. t = <<>>
      BY <1>5, <3>1, EmptySeq
    <3> QED
      BY <1>1, <1>2, <1>3, <1>5, <1>6, <1>8, <3>2 DEF OtherStep
  <2> QED
    BY <2>1, <2>2
<1> QED
  BY <1>1, <1>7, <1>8

(* Every step is one of these: the operation is over, begins again, has met  *)
(* a refusal, gives up over an error, is dropped, or goes on.                *)
LEMMA StepsOfAnOperation ==
    ASSUME UtilityBase, [UtilityStep]_utilityVars
    PROVE  /\ job'.kind = job.kind /\ job'.target = job.target
           /\ StaysOver \/ TryAgain \/ history'.refused \/ GivesUp \/ IsDropped \/ GoesOn
<1>1. job \in Jobs /\ history \in Histories
  BY DEF UtilityBase, UtilityTypeOK
<1>2. CASE NextStateLogic
  <2>1. job.state # "Finished" /\ ~history.dropped
    BY <1>2 DEF NextStateLogic, UtilityBase, LineInv
  <2> QED
    BY <1>2, <2>1, NextStateFrame DEF GoesOn, Going, SameHistory
<1>3. CASE RequestDone
  <2>1. /\ line # <<>> /\ InService(Head(line)) /\ OnFinished(Head(line), TRUE) /\ UNCHANGED history
    BY <1>3 DEF RequestDone
  <2>2. job.state # "Finished" /\ ~history.dropped
    BY <2>1, HeadFacts
  <2> QED
    BY <1>3, <2>1, <2>2, RequestDoneFrame DEF GoesOn, Going, SameHistory
<1>4. CASE RequestRefused
  <2>1. /\ line # <<>> /\ InService(Head(line)) /\ OnFinished(Head(line), FALSE)
        /\ history' = [history EXCEPT !.refused = TRUE]
    BY <1>4 DEF RequestRefused
  <2> QED
    BY <1>1, <2>1, RequestDoneFrame DEF Histories
<1>5. CASE RequestFailed
  <2>1. line # <<>> /\ InService(Head(line))
    BY <1>5 DEF RequestFailed
  <2>2. job.state # "Finished" /\ ~history.dropped
    BY <2>1, HeadFacts
  <2>3. GivesUp => job'.kind = job.kind /\ job'.target = job.target
    BY <1>1, OverFacts DEF GivesUp
  <2>4. ToleratedStep => job'.kind = job.kind /\ job'.target = job.target
    BY <1>1 DEF ToleratedStep, Posted, Jobs
  <2>5. SameHistory => history'.refused = history.refused
    BY DEF SameHistory
  <2> QED
    BY <1>5, <2>2, <2>3, <2>4, <2>5, FailedStep DEF GoesOn, Going
<1>6. CASE OtherEnds
  BY <1>6, OtherEndsStep DEF StaysOver, IsDropped, GoesOn, Going, SameWorld, SameHistory
<1>7. CASE OtherAsks
  <2>1. line # <<>> /\ job.state # "Finished"
    BY <1>7 DEF OtherAsks
  <2>2. ~history.dropped
    BY <2>1 DEF UtilityBase, LineInv
  <2> QED
    BY <1>7, <2>1, <2>2, OtherAsksKeeps DEF OtherStep, GoesOn, Going, SameWorld, SameHistory
<1>8. CASE TryAgain
  BY <1>8 DEF TryAgain, NewJob
<1>9. CASE UNCHANGED utilityVars
  BY <1>9 DEF utilityVars, StaysOver, IsDropped, GoesOn, Going, OtherStep, SameWorld, SameHistory
<1> QED
  BY <1>2, <1>3, <1>4, <1>5, <1>6, <1>7, <1>8, <1>9 DEF UtilityStep, Rpc

(* A request that only looks changes nothing on the device.                  *)
LEMMA LookingChangesNothing ==
    ASSUME UtilityTypeOK, NEW r \in LineRequests, r.do \notin {"remove", "write", "mkdir"}, CarryOut(r)
    PROVE  UNCHANGED <<storage, manifest>>
BY DEF CarryOut, CarriedManifest, Carried

(* The kinds of request an operation may have in the line.                   *)
LEMMA RequestOfKind ==
    ASSUME UtilityTypeOK, NEW r, Fits(r)
    PROVE  /\ job.kind = "Refresh" => r.do \in {"info", "stat"}
           /\ job.kind = "Verify" => r.do = "md5"
           /\ job.kind \in {"Download", "Backup"} => r.do \in {"list", "read"}
           /\ job.kind \in {"Upload", "Restore"} => r.do \in {"remove", "write", "mkdir"}
           /\ job.kind = "Assets" => r.do \in {"info", "stat", "read", "remove", "write", "mkdir"}
<1>1. StateOfKind(job.kind, job.state)
  BY DEF UtilityTypeOK
<1>2. \A p : WriteOrMkdir[p] = WriteOrMkdir[p]
  OBVIOUS
<1>3. r.path \in ToWrite /\ r.do = WriteOrMkdir[r.path] => r.do \in {"write", "mkdir"}
  BY PlacesToMove
<1> QED
  BY <1>1, <1>3 DEF Fits, At, StateOfKind

-----------------------------------------------------------------------------
(* StorageInfoRefreshOperation: it knows what it has been told               *)

RefreshInv ==
    /\ job.state = "Ready" => job.found = {}
    /\ At("CheckingSDCard") => IF job.posted THEN card /\ job.found = {"card"} ELSE job.found = {}
    /\ At("CheckingManifest") => IF job.posted THEN job.found = Answer ELSE card /\ job.found = {"card"}

(* It goes on, and at the end has the answer.                                *)
LEMMA RefreshGoesOn ==
    ASSUME UtilityBase, job.kind = "Refresh", GoesOn, RefreshInv
    PROVE  /\ job'.state # "Finished" => RefreshInv'
           /\ job'.state = "Finished" => RefreshDone'
<1>1. UtilityTypeOK /\ job \in Jobs
  BY DEF UtilityBase, UtilityTypeOK
<1>2. CASE OtherStep
  BY <1>2 DEF OtherStep, SameWorld, GoesOn, Going, RefreshInv, Answer, At
<1>3. CASE ToleratedStep
  BY <1>3 DEF ToleratedStep
<1>4. CASE NextStateLogic
  <2>1. job.posted /\ StorageInfoRefresh
    BY <1>4 DEF NextStateLogic
  <2>2. CASE At("Ready") /\ AsksOne("CheckingSDCard", "info", Root)
    BY <1>1, <2>2 DEF AsksOne, AsksFor, At, RefreshInv, Jobs
  <2>3. CASE At("CheckingSDCard") /\ AsksOne("CheckingManifest", "stat", ManifestPath)
    BY <1>1, <2>1, <2>3 DEF AsksOne, AsksFor, At, RefreshInv, Jobs
  <2>4. CASE At("CheckingManifest") /\ Finishes(FALSE)
    BY <1>1, <2>1, <2>4 DEF Finishes, Over, At, RefreshInv, RefreshDone, Answer, Jobs
  <2> QED
    BY <2>1, <2>2, <2>3, <2>4 DEF StorageInfoRefresh
<1>5. CASE RequestDone
  <2>1. PICK r : r = Head(line)
    OBVIOUS
  <2>2. line # <<>> /\ InService(r) /\ CarryOut(r) /\ OnFinished(r, TRUE) /\ card' = card
    BY <1>5, <2>1 DEF RequestDone
  <2>3. Fits(r) /\ r \in LineRequests /\ ~job.posted
    BY <2>1, <2>2, HeadFacts
  <2>4. r.do \in {"info", "stat"}
    BY <1>1, <2>3, RequestOfKind
  <2>5. UNCHANGED <<storage, manifest>>
    BY <1>1, <2>2, <2>3, <2>4, LookingChangesNothing
  <2>6. CASE r.do = "info"
    <3>1. At("CheckingSDCard")
      BY <1>1, <2>3, <2>6, InfoTells DEF At
    <3>2. OnInfo(TRUE)
      BY <2>2, <2>6 DEF OnFinished
    <3>3. job.found = {}
      BY <2>3, <3>1 DEF RefreshInv
    <3>4. job' = IF card THEN Posted([job EXCEPT !.found = {"card"}]) ELSE Posted([job EXCEPT !.state = "CheckingManifest"])
      BY <3>2 DEF OnInfo, Goes
    <3> QED
      BY <1>1, <2>2, <2>5, <3>1, <3>3, <3>4 DEF Posted, RefreshInv, Answer, At, Jobs
  <2>7. CASE r.do = "stat"
    <3>1. At("CheckingManifest") /\ r.path = ManifestPath
      BY <1>1, <2>3, <2>7, StatTells DEF At
    <3>2. OnManifestStat(r, TRUE)
      BY <2>2, <2>7 DEF OnFinished
    <3>3. card /\ job.found = {"card"}
      BY <2>3, <3>1 DEF RefreshInv
    <3>4. job' = Posted([job EXCEPT !.found = job.found \cup (IF SeesFile(r, TRUE) THEN {"assets"} ELSE {})])
      BY <3>2 DEF OnManifestStat, Goes
    <3>5. SeesFile(r, TRUE) <=> manifest # NoManifest
      BY <3>1 DEF SeesFile
    <3>6. job'.state = "CheckingManifest" /\ job'.posted
          /\ job'.found = {"card"} \cup (IF manifest # NoManifest THEN {"assets"} ELSE {})
      BY <1>1, <3>1, <3>3, <3>4, <3>5 DEF Posted, At, Jobs
    <3>7. job'.found = Answer'
      BY <2>2, <2>5, <3>3, <3>6 DEF Answer
    <3> QED
      BY <3>6, <3>7 DEF RefreshInv, At
  <2> QED
    BY <2>4, <2>6, <2>7
<1> QED
  BY <1>2, <1>3, <1>4, <1>5 DEF GoesOn

-----------------------------------------------------------------------------
(* ChecksumVerifyOperation: it has found those that differ, of all it has    *)
(* asked about                                                               *)

VerifyInv == job.found = {p \in Files(host) \ Left(line) : At("VerifyingMd5Sum") /\ storage[p] # host[p]}

(* A posted operation has nothing in the line.                               *)
LEMMA NothingLeftToDo ==
    ASSUME UtilityBase, job.posted
    PROVE  Mine(line) = {} /\ Left(line) = {}
BY DEF UtilityBase, LineInv, Left

(* It goes on, and at the end has found the files that differ and no other.  *)
LEMMA VerifyGoesOn ==
    ASSUME UtilityBase, job.kind = "Verify", GoesOn, VerifyInv
    PROVE  /\ job'.state # "Finished" => VerifyInv'
           /\ job'.state = "Finished" => VerifyDone'
<1>1. UtilityTypeOK /\ job \in Jobs /\ host \in Tables
  BY DEF UtilityBase, UtilityTypeOK
<1>2. CASE OtherStep
  BY <1>2 DEF OtherStep, SameWorld, GoesOn, Going, VerifyInv, At
<1>3. CASE ToleratedStep
  BY <1>3 DEF ToleratedStep
<1>4. CASE NextStateLogic
  <2>1. job.posted /\ ChecksumVerify
    BY <1>4 DEF NextStateLogic
  <2>2. CASE At("Ready") /\ Passes("ReadingFileList")
    <3>1. job.found = {}
      BY <2>2 DEF VerifyInv, At
    <3> QED
      BY <1>1, <2>2, <3>1 DEF Passes, VerifyInv, At, Jobs
  <2>3. CASE At("ReadingFileList") /\ AsksForEach("VerifyingMd5Sum", Listings(Files(host)), Md5Sum)
    <3>1. job.found = {}
      BY <2>3 DEF VerifyInv, At
    <3>2. Left(line') = Files(host) /\ job'.state = "VerifyingMd5Sum" /\ job'.found = job.found
          /\ UNCHANGED <<host, storage>>
      BY <2>1, <2>3, VerifyAsks
    <3> QED
      BY <3>1, <3>2 DEF VerifyInv, At
  <2>4. CASE At("VerifyingMd5Sum") /\ Finishes(FALSE)
    <3>1. Left(line) = {}
      BY <2>1, NothingLeftToDo
    <3>2. job.found = {p \in Files(host) : storage[p] # host[p]}
      BY <2>4, <3>1 DEF VerifyInv
    <3> QED
      BY <1>1, <2>4, <3>2 DEF Finishes, Over, VerifyDone, Jobs
  <2> QED
    BY <2>1, <2>2, <2>3, <2>4 DEF ChecksumVerify
<1>5. CASE RequestDone
  <2>1. PICK r : r = Head(line)
    OBVIOUS
  <2>2. line # <<>> /\ InService(r) /\ CarryOut(r) /\ OnFinished(r, TRUE)
        /\ UNCHANGED <<card, history>>
    BY <1>5, <2>1 DEF RequestDone
  <2>3. Fits(r) /\ r \in LineRequests
    BY <2>1, <2>2, HeadFacts
  <2>4. r.do = "md5" /\ job.state = "VerifyingMd5Sum" /\ r.path \in Files(host)
    BY <1>1, <2>3, RequestOfKind, Md5Tells
  <2>5. UNCHANGED <<storage, manifest>>
    BY <1>1, <2>2, <2>3, <2>4, LookingChangesNothing
  <2>6. OnMd5Sum(r, TRUE)
    BY <2>2, <2>4 DEF OnFinished
  <2>7. World
    BY <1>1, <2>2, <2>5 DEF World, UtilityTypeOK
  <2>8. /\ host' = host /\ job'.state = job.state
        /\ job'.found = IF storage[r.path] = host[r.path] THEN job.found ELSE job.found \cup {r.path}
        /\ line' = Tail(line)
    BY <2>1, <2>2, <2>4, <2>6, <2>7, Md5Keeps
  <2>9. Left(line) = Left(Tail(line)) \cup {r.path} /\ r.path \notin Left(Tail(line))
    BY <2>1, <2>2, <2>4, HeadFacts
  <2>10. PICK left : left = Left(Tail(line))
    OBVIOUS
  <2>11. Left(line') = left /\ Left(line) = left \cup {r.path} /\ r.path \notin left
    BY <2>8, <2>9, <2>10
  <2>12. job.found = {p \in Files(host) \ Left(line) : storage[p] # host[p]}
    BY <2>4 DEF VerifyInv, At
  <2>13. job'.found = {p \in Files(host) \ left : storage[p] # host[p]}
    BY <2>4, <2>8, <2>11, <2>12
  <2> QED
    BY <2>4, <2>5, <2>8, <2>11, <2>13 DEF VerifyInv, At
<1> QED
  BY <1>2, <1>3, <1>4, <1>5 DEF GoesOn

-----------------------------------------------------------------------------
(* PathCreateOperation: the elements before the one it is at are there, and  *)
(* from the first it had to make on, none was                                *)

Elements(path, n) == {path[k] : k \in {k \in DOMAIN path : k < n}}
CreateInv ==
    /\ job.state = "Ready" => job.found = {} /\ storage = history.device
    /\ At("CheckingRootElement") => job.target # <<>> /\ job.index = 1 /\ job.found = {} /\ storage = history.device
    /\ At("CheckingRemotePath") =>
          /\ storage = history.device
          /\ job.found = Elements(job.target, job.index)
          /\ \A p \in job.found : IsDir(storage, p)
          /\ job.posted => storage[job.target[job.index]] = "none"
    /\ At("CreatingRemotePath") =>
          /\ job.index \in 1..(Len(job.target) + 1)
          /\ job.posted => job.index = Len(job.target) + 1
          /\ job.target # <<>> /\ job.target[Len(job.target)] \notin job.found
          /\ \A p \in Elements(job.target, job.index) : IsDir(storage, p)
          /\ \A k \in DOMAIN job.target : k >= job.index => storage[job.target[k]] = "none"

(* The elements of a path, one after another.                                *)
LEMMA ElementsFacts ==
    ASSUME UtilityTypeOK
    PROVE  /\ Elements(job.target, 1) = {}
           /\ Elements(job.target, Len(job.target) + 1) = ToSet(job.target)
           /\ \A n \in DOMAIN job.target :
                /\ n \in Nat /\ n >= 1 /\ n <= Len(job.target) /\ n + 1 \in 1..(Len(job.target) + 1)
                /\ Elements(job.target, n + 1) = Elements(job.target, n) \cup {job.target[n]}
                /\ job.target[n] \notin Elements(job.target, n) /\ job.target[n] \in Path
                /\ Parent(job.target[n]) = Root \/ Parent(job.target[n]) \in Elements(job.target, n)
                /\ job.target[Len(job.target)] \notin Elements(job.target, n)
                /\ n # Len(job.target) => n + 1 \in DOMAIN job.target
                /\ Len(job.target) \in DOMAIN job.target
<1>1. PICK t : t = job.target
  OBVIOUS
<1>2. /\ Len(t) \in Nat /\ DOMAIN t = 1..Len(t)
      /\ \A n \in 1..Len(t) :
           /\ t[n] \in Path
           /\ IF n = 1 THEN Parent(t[n]) = Root
              ELSE n - 1 \in 1..Len(t) /\ Parent(t[n]) = t[n - 1]
           /\ \A m \in 1..Len(t) : t[m] = t[n] => m = n
  BY <1>1, TargetFacts
<1>3. Elements(t, 1) = {} /\ Elements(t, Len(t) + 1) = ToSet(t)
  <2>1. \A k \in 1..Len(t) : ~(k < 1) /\ k < Len(t) + 1
    BY <1>2
  <2> QED
    BY <1>1, <1>2, <2>1 DEF Elements, ToSet
<1>4. ASSUME NEW n \in 1..Len(t)
      PROVE  /\ n \in Nat /\ n >= 1 /\ n <= Len(t) /\ n + 1 \in 1..(Len(t) + 1)
             /\ Elements(t, n + 1) = Elements(t, n) \cup {t[n]}
             /\ t[n] \notin Elements(t, n) /\ t[n] \in Path
             /\ Parent(t[n]) = Root \/ Parent(t[n]) \in Elements(t, n)
             /\ t[Len(t)] \notin Elements(t, n)
             /\ n # Len(t) => n + 1 \in 1..Len(t)
             /\ Len(t) \in 1..Len(t)
  <2>1. \A k \in 1..Len(t) : k < n + 1 <=> k < n \/ k = n
    BY <1>2
  <2>2. Elements(t, n + 1) = Elements(t, n) \cup {t[n]}
    BY <1>1, <1>2, <2>1 DEF Elements
  <2>3. Len(t) \in 1..Len(t) /\ ~(Len(t) < n) /\ ~(n < n)
    BY <1>2
  <2>4. t[n] \notin Elements(t, n) /\ t[Len(t)] \notin Elements(t, n)
    BY <1>1, <1>2, <2>3 DEF Elements
  <2>5. n # 1 => n - 1 < n
    BY <1>2
  <2>6. Parent(t[n]) = Root \/ Parent(t[n]) \in Elements(t, n)
    BY <1>1, <1>2, <2>5 DEF Elements
  <2>7. n \in Nat /\ n >= 1 /\ n <= Len(t) /\ n + 1 \in 1..(Len(t) + 1) /\ (n # Len(t) => n + 1 \in 1..Len(t))
    <3>1. PICK m \in Nat : m = Len(t)
      BY <1>2
    <3>2. n \in 1..m
      BY <3>1
    <3>3. n \in Nat /\ n >= 1 /\ n <= m /\ n + 1 \in 1..(m + 1) /\ (n # m => n + 1 \in 1..m)
      BY <3>2
    <3> QED
      BY <3>1, <3>3
  <2>8. t[n] \in Path
    BY <1>2
  <2> QED
    BY <2>2, <2>3, <2>4, <2>6, <2>7, <2>8
<1> QED
  BY <1>1, <1>2, <1>3, <1>4

(* Nothing is where nothing is above it.                                     *)
LEMMA NothingBelowNothing ==
    ASSUME UtilityTypeOK, NEW n \in DOMAIN job.target, storage[job.target[n]] = "none"
    PROVE  \A k \in DOMAIN job.target : k >= n => storage[job.target[k]] = "none"
<1>1. PICK t : t = job.target
  OBVIOUS
<1>2. /\ Len(t) \in Nat /\ DOMAIN t = 1..Len(t)
      /\ t \in Targets
  BY <1>1, TargetFacts, BaseTypes
<1>3. PICK q \in Path \cup {Root} : t = Chain(q)
  BY <1>2 DEF Targets
<1>4. CASE q = Root
  <2>1. t = <<>>
    BY <1>3, <1>4 DEF Chain, Root
  <2> QED
    BY <1>1, <2>1
<1>5. CASE q \in Path
  <2>1. DOMAIN t = 1..Len(q) /\ \A k \in 1..Len(q) : t[k] = SubSeq(q, 1, k)
    BY <1>3 DEF Chain
  <2>2. ASSUME NEW k \in DOMAIN t, k >= n
        PROVE  storage[t[k]] = "none"
    <3>1. Len(q) \in Nat
      BY <1>5, PathType
    <3>2. k \in 1..Len(q) /\ n \in 1..k /\ n \in 0..k /\ k \in 0..Len(q)
      BY <1>1, <2>1, <2>2, <3>1
    <3>3. t[k] \in Path /\ Len(t[k]) = k
      <4>1. Len(SubSeq(q, 1, k)) = k /\ (k >= 1 => SubSeq(q, 1, k) \in Path)
        BY <1>5, <3>2, Beginnings
      <4>2. k >= 1 /\ t[k] = SubSeq(q, 1, k)
        BY <2>1, <3>1, <3>2
      <4> QED
        BY <4>1, <4>2
    <3>4. SubSeq(t[k], 1, n) = SubSeq(q, 1, n)
      BY <1>5, <2>1, <3>2, BeginningOfBeginning
    <3>5. n \in 1..Len(q)
      BY <1>1, <2>1
    <3>6. t[n] \in Above(t[k])
      BY <2>1, <3>2, <3>3, <3>4, <3>5, AboveIsBeginning
    <3>7. \A p \in Path : \A a \in Above(p) : storage[p] # "none" /\ a # p => storage[a] = "dir"
      BY TreeType DEF UtilityTypeOK
    <3> QED
      BY <1>1, <3>3, <3>6, <3>7
  <2> QED
    BY <1>1, <2>2
<1> QED
  BY <1>3, <1>4, <1>5

(* A step of the operation: the elements that are left are to be checked, or *)
(* made.                                                                     *)
LEMMA CreateMoves ==
    ASSUME UtilityBase, job.kind = "PathCreate", CreateInv, NextStateLogic
    PROVE  /\ job'.state # "Finished" => CreateInv'
           /\ job'.state = "Finished" /\ history'.device = history.device => CreateDone'
<1>1. UtilityTypeOK /\ job \in Jobs
  BY DEF UtilityBase, UtilityTypeOK
<1>2. job.posted /\ PathCreate
  BY DEF NextStateLogic
<1>3. history' = history
  BY <1>2 DEF PathCreate, CheckRootElement, AsksOne, AsksFor, Finishes
<1>4. CASE At("Ready") /\ CheckRootElement
  <2>1. CASE job.target = <<>>
    <3>1. job' = Over(FALSE) /\ UNCHANGED storage
      BY <1>4, <2>1 DEF CheckRootElement, Finishes
    <3>2. job'.state = "Finished" /\ job'.target = <<>>
      BY <1>1, <2>1, <3>1 DEF Over, Jobs
    <3>3. ToSet(job'.target) = {}
      BY <3>2 DEF ToSet
    <3> QED
      BY <3>2, <3>3 DEF CreateDone, PathExists
  <2>2. CASE job.target # <<>>
    <3>1. job' = [job EXCEPT !.state = "CheckingRootElement", !.index = 1] /\ UNCHANGED storage
      BY <1>4, <2>2 DEF CheckRootElement
    <3>2. job'.state = "CheckingRootElement" /\ job'.index = 1 /\ job'.target = job.target /\ job'.found = job.found
      BY <1>1, <3>1 DEF Jobs
    <3> QED
      BY <1>3, <1>4, <2>2, <3>1, <3>2 DEF CreateInv, At
  <2> QED
    BY <2>1, <2>2
<1>5. CASE At("CheckingRootElement") /\ AsksOne("CheckingRemotePath", "stat", job.target[job.index])
  <2>1. job' = [job EXCEPT !.state = "CheckingRemotePath", !.posted = FALSE] /\ UNCHANGED storage
    BY <1>5 DEF AsksOne, AsksFor
  <2>2. job'.state = "CheckingRemotePath" /\ job'.index = 1 /\ job'.found = {} /\ job'.posted = FALSE
        /\ job'.target = job.target
    BY <1>1, <1>5, <2>1 DEF Jobs, CreateInv, At
  <2>3. storage = history.device
    BY <1>5 DEF CreateInv
  <2>4. Elements(job'.target, 1) = {}
    BY <1>1, <2>2, ElementsFacts
  <2> QED
    BY <1>3, <2>1, <2>2, <2>3, <2>4 DEF CreateInv, At
<1>6. CASE At("CheckingRemotePath") /\ AsksOne("CreatingRemotePath", "mkdir", job.target[job.index])
  <2>1. job' = [job EXCEPT !.state = "CreatingRemotePath", !.posted = FALSE] /\ UNCHANGED storage
    BY <1>6 DEF AsksOne, AsksFor
  <2>2. job'.state = "CreatingRemotePath" /\ job'.index = job.index /\ job'.found = job.found
        /\ job'.posted = FALSE /\ job'.target = job.target
    BY <1>1, <2>1 DEF Jobs
  <2>3. /\ job.found = Elements(job.target, job.index) /\ \A p \in job.found : IsDir(storage, p)
        /\ storage[job.target[job.index]] = "none"
    BY <1>2, <1>6 DEF CreateInv
  <2>4. job.index \in DOMAIN job.target
    BY <1>1, <1>6 DEF UtilityTypeOK, At
  <2>5. \A k \in DOMAIN job.target : k >= job.index => storage[job.target[k]] = "none"
    BY <1>1, <2>3, <2>4, NothingBelowNothing
  <2>6. /\ job.target[Len(job.target)] \notin Elements(job.target, job.index)
        /\ Len(job.target) \in DOMAIN job.target
    BY <1>1, <2>4, ElementsFacts
  <2>7. job.index \in 1..(Len(job.target) + 1) /\ job.target # <<>>
    BY <1>1, <2>4, TargetFacts
  <2>8. Elements(job'.target, job'.index) = Elements(job.target, job.index)
    BY <2>2
  <2> QED
    BY <2>1, <2>2, <2>3, <2>5, <2>6, <2>7, <2>8 DEF CreateInv, At, IsDir
<1>7. CASE At("CreatingRemotePath") /\ Finishes(FALSE)
  <2>1. job' = Over(FALSE) /\ UNCHANGED storage
    BY <1>7 DEF Finishes
  <2>2. job'.target = job.target /\ job'.found = job.found /\ job'.state = "Finished"
    BY <1>1, <2>1 DEF Over, Jobs
  <2>3. /\ job.index = Len(job.target) + 1 /\ job.target # <<>> /\ job.target[Len(job.target)] \notin job.found
        /\ \A p \in Elements(job.target, job.index) : IsDir(storage, p)
    BY <1>2, <1>7 DEF CreateInv
  <2>4. Elements(job.target, job.index) = ToSet(job.target)
    BY <1>1, <2>3, ElementsFacts
  <2>5. job.target[Len(job.target)] \in ToSet(job.target)
    BY <1>1, <2>3, TargetFacts DEF ToSet
  <2> QED
    BY <2>1, <2>2, <2>3, <2>4, <2>5 DEF CreateDone, PathExists
<1> QED
  BY <1>2, <1>4, <1>5, <1>6, <1>7 DEF PathCreate

(* What the end of a request about an element does.                          *)
LEMMA CreateLooks ==
    ASSUME UtilityBase, job.kind = "PathCreate", CreateInv, job.state = "CheckingRemotePath",
           NEW r, r.do = "stat", r.path = job.target[job.index], UNCHANGED <<storage, history>>, ~job.posted,
           OnElement(r, TRUE)
    PROVE  /\ job'.state # "Finished" => CreateInv'
           /\ job'.state = "Finished" /\ ~job'.error => CreateDone'
<1>1. UtilityTypeOK /\ job \in Jobs /\ storage \in Trees
  BY DEF UtilityBase, UtilityTypeOK
<1>2. job.index \in DOMAIN job.target
  BY <1>1 DEF UtilityTypeOK
<1>3. /\ storage = history.device
      /\ job.found = Elements(job.target, job.index)
      /\ \A p \in job.found : IsDir(storage, p)
  BY DEF CreateInv, At
<1>4. PICK t, n, p : t = job.target /\ n = job.index /\ p = r.path
  OBVIOUS
<1>5. /\ n \in Nat /\ n >= 1 /\ n <= Len(t) /\ Elements(t, n + 1) = Elements(t, n) \cup {p} /\ p \in Path
      /\ n = Len(t) => Elements(t, n + 1) = ToSet(t)
  <2>1. /\ n \in Nat /\ n >= 1 /\ n <= Len(t) /\ Elements(t, n + 1) = Elements(t, n) \cup {t[n]} /\ t[n] \in Path
    BY <1>1, <1>2, <1>4, ElementsFacts
  <2>2. Elements(t, Len(t) + 1) = ToSet(t)
    BY <1>1, <1>4, ElementsFacts
  <2> QED
    BY <1>4, <2>1, <2>2
<1>6. p # ManifestPath /\ storage[p] \in Values
  BY <1>1, <1>5, ManifestPathIsApart, TreeType DEF Tables
<1>7. SeesFile(r, TRUE) <=> storage[p] \in Contents
  BY <1>4, <1>6 DEF SeesFile
<1>8. SeesDir(r, TRUE) <=> storage[p] = "dir"
  BY <1>4, <1>5 DEF SeesDir, IsDir
<1>9. CASE SeesFile(r, TRUE)
  <2>1. job' = Over(TRUE)
    BY <1>9 DEF OnElement, Goes
  <2> QED
    BY <1>1, <2>1, OverFacts
<1>10. CASE ~SeesFile(r, TRUE) /\ ~SeesDir(r, TRUE)
  <2>1. job' = Posted(job)
    BY <1>10 DEF OnElement, Goes
  <2>2. job'.state = "CheckingRemotePath" /\ job'.found = job.found /\ job'.index = job.index
        /\ job'.target = job.target
    BY <1>1, <2>1 DEF Posted, Jobs
  <2>3. storage[p] = "none"
    BY <1>6, <1>7, <1>8, <1>10 DEF Values
  <2> QED
    BY <1>3, <1>4, <2>2, <2>3 DEF CreateInv, At
<1>11. CASE SeesDir(r, TRUE) /\ ~SeesFile(r, TRUE) /\ job.index # Len(job.target)
  <2>1. job' = [job EXCEPT !.index = @ + 1, !.found = @ \cup {r.path}]
    BY <1>11 DEF OnElement
  <2>2. job'.state = "CheckingRemotePath" /\ job'.found = job.found \cup {p} /\ job'.index = n + 1
        /\ job'.target = t /\ ~job'.posted
    BY <1>1, <1>4, <2>1 DEF Jobs
  <2>3. \A q \in job.found \cup {p} : IsDir(storage, q)
    BY <1>3, <1>8, <1>11 DEF IsDir
  <2> QED
    BY <1>3, <1>4, <1>5, <2>2, <2>3 DEF CreateInv, At
<1>12. CASE SeesDir(r, TRUE) /\ ~SeesFile(r, TRUE) /\ job.index = Len(job.target)
  <2>1. job' = [Over(FALSE) EXCEPT !.found = job.found \cup {r.path}]
    <3>1. [job EXCEPT !.index = @ + 1, !.found = IF r.do = "stat" THEN @ \cup {r.path} ELSE @].found
            = job.found \cup {r.path}
      BY <1>1 DEF Jobs
    <3> QED
      BY <1>12, <3>1 DEF OnElement, Goes
  <2>2. job'.target = t /\ job'.found = ToSet(t)
    BY <1>1, <1>3, <1>4, <1>5, <1>12, <2>1, OverFacts DEF Jobs
  <2>3. \A q \in ToSet(t) : IsDir(storage, q)
    BY <1>3, <1>4, <1>5, <1>8, <1>12 DEF IsDir
  <2>4. job'.state = "Finished"
    BY <1>1, <2>1, OverFacts DEF Jobs
  <2> QED
    BY <1>3, <2>2, <2>3, <2>4 DEF CreateDone
<1> QED
  BY <1>9, <1>10, <1>11, <1>12

(* An element is made, and the next one is missing below it.                 *)
LEMMA CreateMakes ==
    ASSUME UtilityBase, job.kind = "PathCreate", CreateInv, job.state = "CreatingRemotePath",
           NEW r, r.do = "mkdir", job.index \in DOMAIN job.target, r.path = job.target[job.index], CarryOut(r), OnElement(r, TRUE), ~job.posted
    PROVE  job'.state = "CreatingRemotePath" /\ CreateInv'
<1>1. UtilityTypeOK /\ job \in Jobs /\ storage \in Tables
  BY TreeType DEF UtilityBase, UtilityTypeOK
<1>2. /\ job.target # <<>> /\ job.target[Len(job.target)] \notin job.found
      /\ \A p \in Elements(job.target, job.index) : IsDir(storage, p)
      /\ \A k \in DOMAIN job.target : k >= job.index => storage[job.target[k]] = "none"
  BY DEF CreateInv, At
<1>3. PICK t, n, p : t = job.target /\ n = job.index /\ p = r.path
  OBVIOUS
<1>4. /\ n \in Nat /\ n >= 1 /\ n <= Len(t) /\ n + 1 \in 1..(Len(t) + 1)
      /\ Elements(t, n + 1) = Elements(t, n) \cup {p} /\ p \in Path /\ p = t[n]
      /\ p \notin Elements(t, n)
      /\ Parent(p) = Root \/ Parent(p) \in Elements(t, n)
  BY <1>1, <1>3, ElementsFacts
<1>5. Len(t) \in Nat /\ DOMAIN t = 1..Len(t) /\ \A k, m \in 1..Len(t) : t[k] = t[m] => k = m
  BY <1>1, <1>3, TargetFacts
<1>6. storage[p] = "none"
  BY <1>2, <1>3, <1>4, <1>5
<1>7. storage' = [storage EXCEPT ![p] = "dir"]
  <2>1. p # ManifestPath
    BY <1>4, ManifestPathIsApart
  <2>2. Parent(p) = Root \/ IsDir(storage, Parent(p))
    BY <1>2, <1>3, <1>4
  <2>3. storage' = Carried(r)
    BY <1>3, <1>4, <2>1 DEF CarryOut
  <2> QED
    BY <1>3, <1>6, <2>2, <2>3 DEF Carried
<1>8. /\ \A q \in Elements(t, n + 1) : IsDir(storage', q)
      /\ \A k \in DOMAIN t : k >= n + 1 => storage'[t[k]] = "none"
  <2>1. \A q \in Elements(t, n) : q \in Path
    BY <1>1, <1>3, TargetFacts DEF Elements
  <2>2. \A q \in Elements(t, n + 1) : IsDir(storage', q)
    BY <1>1, <1>2, <1>3, <1>4, <1>7, <2>1 DEF IsDir, Tables
  <2>3. ASSUME NEW k \in DOMAIN t, k >= n + 1
        PROVE  storage'[t[k]] = "none"
    <3>1. k >= n /\ k # n /\ n \in 1..Len(t) /\ k \in 1..Len(t)
      BY <1>4, <1>5, <2>3
    <3>2. t[k] # p /\ t[k] \in Path
      BY <1>1, <1>3, <1>4, <1>5, <3>1, TargetFacts
    <3>3. storage[t[k]] = "none"
      BY <1>2, <1>3, <1>5, <3>1
    <3> QED
      BY <1>1, <1>7, <3>2, <3>3 DEF Tables
  <2> QED
    BY <2>2, <2>3
<1>9. ~(r.do = "stat")
  OBVIOUS
<1>10. CASE job.index # Len(job.target)
  <2>1. job' = [job EXCEPT !.index = @ + 1, !.found = @]
    BY <1>9, <1>10 DEF OnElement
  <2>2. job'.state = "CreatingRemotePath" /\ job'.found = job.found /\ job'.index = n + 1
        /\ job'.target = t /\ ~job'.posted
    BY <1>1, <1>3, <2>1 DEF Jobs
  <2> QED
    BY <1>2, <1>3, <1>4, <1>8, <2>2 DEF CreateInv, At
<1>11. CASE job.index = Len(job.target)
  <2>1. job' = Posted([job EXCEPT !.index = @ + 1, !.found = @])
    BY <1>9, <1>11 DEF OnElement, Goes
  <2>2. job'.state = "CreatingRemotePath" /\ job'.found = job.found /\ job'.index = n + 1 /\ job'.target = t
    BY <1>1, <1>3, <2>1 DEF Posted, Jobs
  <2> QED
    BY <1>2, <1>3, <1>4, <1>8, <1>11, <2>2 DEF CreateInv, At
<1> QED
  BY <1>10, <1>11

(* It goes on, and at the end the whole path is there.                       *)
LEMMA CreateGoesOn ==
    ASSUME UtilityBase, job.kind = "PathCreate", GoesOn, CreateInv
    PROVE  /\ job'.state # "Finished" => CreateInv'
           /\ job'.state = "Finished" /\ ~job'.error => CreateDone'
<1>1. UtilityTypeOK /\ job \in Jobs /\ history'.device = history.device
  BY DEF UtilityBase, UtilityTypeOK, GoesOn, SameHistory
<1>2. CASE OtherStep
  <2>1. job' = job /\ storage' = storage /\ job.state # "Finished"
    BY <1>2 DEF OtherStep, SameWorld, GoesOn, Going
  <2> QED
    BY <1>1, <2>1 DEF CreateInv, At
<1>3. CASE ToleratedStep
  BY <1>3 DEF ToleratedStep
<1>4. CASE NextStateLogic
  BY <1>1, <1>4, CreateMoves
<1>5. CASE RequestDone
  <2>1. PICK r : r = Head(line)
    OBVIOUS
  <2>2. line # <<>> /\ InService(r) /\ CarryOut(r) /\ OnFinished(r, TRUE) /\ UNCHANGED history
    BY <1>5, <2>1 DEF RequestDone
  <2>3. Fits(r) /\ r \in LineRequests /\ ~job.posted
    BY <2>1, <2>2, HeadFacts
  <2>4. /\ \/ job.state = "CheckingRemotePath" /\ r.do = "stat"
           \/ job.state = "CreatingRemotePath" /\ r.do = "mkdir"
        /\ job.index \in DOMAIN job.target /\ r.path = job.target[job.index]
    BY <1>1, <2>3, ElementTells
  <2>5. r.path # ManifestPath
    BY <1>1, <2>4, TargetFacts, ManifestPathIsApart
  <2>6. OnElement(r, TRUE)
    BY <2>2, <2>4, <2>5 DEF OnFinished
  <2>7. CASE job.state = "CheckingRemotePath" /\ r.do = "stat"
    <3>1. UNCHANGED <<storage, manifest>>
      BY <1>1, <2>2, <2>3, <2>7, LookingChangesNothing
    <3> QED
      BY <2>2, <2>3, <2>4, <2>6, <2>7, <3>1, CreateLooks
  <2>8. CASE job.state = "CreatingRemotePath" /\ r.do = "mkdir"
    BY <2>2, <2>3, <2>4, <2>6, <2>8, CreateMakes
  <2> QED
    BY <2>4, <2>7, <2>8
<1> QED
  BY <1>2, <1>3, <1>4, <1>5 DEF GoesOn

-----------------------------------------------------------------------------
(* DirectoryDownloadOperation and UserBackupOperation: what is there is      *)
(* found, or below a directory that is still to be listed; what is found is  *)
(* here, or still to be read                                                 *)

Strictly(q, p) == q = Root \/ (q \in Above(p) /\ q # p)     \* q is a directory above p
PartOf(tree, whole) == \A p \in Path : tree[p] \in {"none", whole[p]}
FetchInv ==
    /\ storage = history.device
    /\ job.found \subseteq There(storage)
    /\ job.state \in {"Ready", "CreatingDirectory"} => job.found = {}
    /\ ~(job.kind = "Download" /\ At("Ready")) => PartOf(host, storage)
    /\ At("GettingFileTree") =>
         \A p \in There(storage) : p \in job.found \/ \E q \in Left(line) : Strictly(q, p)
    /\ At("ReadingFiles") => \A p \in There(storage) : p \in Left(line) \/ host[p] = storage[p]
    /\ At("CreatingArchive") => host = storage

(* A part that has all that is there is the whole.                           *)
LEMMA WholeIsThere ==
    ASSUME UtilityTypeOK, PartOf(host, storage), \A p \in There(storage) : host[p] = storage[p]
    PROVE  host = storage
<1>1. host \in Tables /\ storage \in Tables
  BY TreeType DEF UtilityTypeOK
<1>2. \A p \in Path : host[p] = storage[p]
  BY <1>1 DEF PartOf, There, Tables
<1> QED
  BY <1>1, <1>2 DEF Tables

(* The tree is known, and its files are asked for; or a directory cannot be  *)
(* made here.                                                                *)
LEMMA ReadingFilesGoesOn ==
    ASSUME UtilityBase, job.kind \in {"Download", "Backup"}, FetchInv, job.posted, At("GettingFileTree"), ReadFiles,
           history'.device = history.device
    PROVE  /\ job'.state # "Finished" => FetchInv'
           /\ job'.state = "Finished" => job'.error
<1>1. UtilityTypeOK /\ job \in Jobs /\ host \in Tables /\ storage \in Tables
  BY TreeType DEF UtilityBase, UtilityTypeOK
<1>2. CASE /\ host' = [p \in Path |-> IF p \in job.found /\ IsDir(storage, p) THEN "dir" ELSE host[p]]
           /\ job' = [job EXCEPT !.state = "ReadingFiles", !.posted = FALSE]
           /\ UNCHANGED storage
  <2>1. Left(line) = {}
    BY NothingLeftToDo
  <2>2. There(storage) \subseteq job.found /\ job.found \subseteq There(storage) /\ PartOf(host, storage)
        /\ storage = history.device
    BY <2>1 DEF FetchInv, At
  <2>3. job'.state = "ReadingFiles" /\ job'.found = job.found /\ job'.kind = job.kind
    BY <1>1, <1>2 DEF Jobs
  <2>4. Left(line') = {p \in job.found : ~IsDir(storage, p)}
    BY <2>3, ReadFilesKeeps
  <2>5. PartOf(host', storage)
    BY <1>1, <1>2, <2>2 DEF PartOf, IsDir
  <2>6. There(storage) = {p \in Path : storage[p] # "none"}
    BY <1>1 DEF There, Tables
  <2>7. \A p \in There(storage) : p \in Left(line') \/ host'[p] = storage[p]
    BY <1>2, <2>2, <2>4, <2>6 DEF IsDir
  <2> QED
    BY <1>2, <2>2, <2>3, <2>5, <2>7 DEF FetchInv, At
<1>3. CASE job' = Over(TRUE)
  BY <1>1, <1>3, OverFacts
<1> QED
  BY <1>2, <1>3 DEF ReadFiles

(* A step of the operation.                                                  *)
LEMMA ReadMoves ==
    ASSUME UtilityBase, job.kind \in {"Download", "Backup"}, FetchInv, NextStateLogic, SameHistory
    PROVE  /\ job'.state # "Finished" => FetchInv'
           /\ job'.state = "Finished" /\ ~job'.error => ReadDone'
<1>1. UtilityTypeOK /\ job \in Jobs /\ host \in Tables /\ history'.device = history.device
  BY DEF UtilityBase, UtilityTypeOK, SameHistory
<1>2. job.posted /\ (DirectoryDownload \/ UserBackup)
      /\ (DirectoryDownload => job.kind = "Download" \/ UserBackup)
      /\ (UserBackup => job.kind = "Backup" \/ DirectoryDownload)
  BY DEF NextStateLogic
<1>3. ASSUME NEW s \in JobStates, s \in {"CreatingDirectory"}, At("Ready"), job.kind = "Backup", Passes(s)
      PROVE  job'.state # "Finished" /\ FetchInv'
  BY <1>1, <1>3 DEF Passes, FetchInv, At, Jobs
<1>4. ASSUME NEW e \in BOOLEAN, Finishes(e)
      PROVE  job'.state = "Finished" /\ job'.error = e /\ UNCHANGED <<host, storage>>
  BY <1>1, <1>4, OverFacts DEF Finishes
<1>5. CASE At("Ready") /\ CreateLocalDirectory /\ job.kind = "Download"
  <2>1. CASE host' = Empty /\ job' = [job EXCEPT !.state = "CreatingDirectory"] /\ UNCHANGED storage
    <3>1. job'.state = "CreatingDirectory" /\ job'.found = job.found
      BY <1>1, <2>1 DEF Jobs
    <3>2. PartOf(host', storage)
      BY <2>1, EmptyIsTree DEF PartOf
    <3> QED
      BY <1>1, <1>5, <2>1, <3>1, <3>2 DEF FetchInv, At
  <2> QED
    BY <1>4, <1>5, <2>1 DEF CreateLocalDirectory
<1>6. CASE At("Ready") /\ Works("CreatingDirectory") /\ job.kind = "Backup"
  BY <1>3, <1>4, <1>6 DEF Works, JobStates
<1>7. CASE At("CreatingDirectory") /\ GetFileTree
  <2>1. Left(line') = {Root}
    BY <1>2, <1>7, GetFileTreeKeeps
  <2>2. job'.state = "GettingFileTree" /\ job'.found = job.found /\ job'.kind = job.kind
        /\ UNCHANGED <<host, storage>>
    BY <1>1, <1>7 DEF GetFileTree, Jobs
  <2>3. \A p \in There(storage) : \E q \in Left(line') : Strictly(q, p)
    BY <2>1 DEF Strictly
  <2>4. storage = history.device /\ job.found \subseteq There(storage) /\ PartOf(host, storage)
    BY <1>7 DEF FetchInv, At
  <2> QED
    BY <1>1, <2>2, <2>3, <2>4 DEF FetchInv, At
<1>8. CASE At("GettingFileTree") /\ ReadFiles
  BY <1>1, <1>2, <1>8, ReadingFilesGoesOn
<1>9. CASE At("ReadingFiles") /\ (Finishes(FALSE) \/ Works("CreatingArchive"))
  <2>1. Left(line) = {}
    BY <1>2, NothingLeftToDo
  <2>2. host = storage
    BY <1>1, <1>9, <2>1, WholeIsThere DEF FetchInv, At
  <2>3. CASE Finishes(FALSE) \/ Finishes(TRUE)
    BY <1>4, <2>2, <2>3 DEF ReadDone
  <2>4. CASE Passes("CreatingArchive")
    BY <1>1, <1>9, <2>2, <2>4 DEF Passes, FetchInv, At, Jobs
  <2> QED
    BY <1>9, <2>3, <2>4 DEF Works
<1>10. CASE At("CreatingArchive") /\ Finishes(FALSE)
  BY <1>4, <1>10 DEF FetchInv, ReadDone
<1>11. CASE job.kind = "Download" /\ DirectoryDownload
  BY <1>5, <1>7, <1>8, <1>9, <1>11 DEF DirectoryDownload
<1>12. CASE job.kind = "Backup" /\ UserBackup
  BY <1>6, <1>7, <1>8, <1>9, <1>10, <1>12 DEF UserBackup
<1> QED
  BY <1>11, <1>12 DEF NextStateLogic

(* A directory that has been listed: what is below it is found, or below one *)
(* of those that are to be listed now.                                       *)
LEMMA ListingCovers ==
    ASSUME UtilityTypeOK, NEW q, NEW p \in There(storage), Strictly(q, p)
    PROVE  \E c \in {c \in Children(q) : storage[c] # "none"} :
             c = p \/ (IsDir(storage, c) /\ Strictly(c, p))
<1>1. p \in Path /\ storage[p] # "none" /\ storage \in Trees
  BY TreeType DEF UtilityTypeOK, There, Tables
<1>2. PICK c \in Children(q) : c \in Above(p) /\ c # q
  BY <1>1, ChildOnTheWay DEF Strictly
<1>3. c # p => storage[c] = "dir"
  BY <1>1, <1>2, TreeType
<1>4. storage[c] # "none"
  BY <1>1, <1>3
<1> QED
  BY <1>2, <1>3, <1>4 DEF Strictly, IsDir

(* It goes on, and at the end has here what is on the device.                *)
LEMMA ReadGoesOn ==
    ASSUME UtilityBase, job.kind \in {"Download", "Backup"}, GoesOn, FetchInv
    PROVE  /\ job'.state # "Finished" => FetchInv'
           /\ job'.state = "Finished" /\ ~job'.error => ReadDone'
<1>1. UtilityTypeOK /\ job \in Jobs /\ host \in Tables /\ storage \in Tables
      /\ SameHistory /\ history'.device = history.device
  BY TreeType DEF UtilityBase, UtilityTypeOK, GoesOn, SameHistory
<1>2. CASE OtherStep
  <2>1. job' = job /\ storage' = storage /\ host' = host /\ Left(line') = Left(line) /\ job.state # "Finished"
    BY <1>2 DEF OtherStep, SameWorld, GoesOn, Going
  <2> QED
    BY <1>1, <2>1 DEF FetchInv, At
<1>3. CASE ToleratedStep
  BY <1>3 DEF ToleratedStep
<1>4. CASE NextStateLogic
  BY <1>1, <1>4, ReadMoves
<1>5. CASE RequestDone
  <2>1. PICK r : r = Head(line)
    OBVIOUS
  <2>2. line # <<>> /\ InService(r) /\ CarryOut(r) /\ OnFinished(r, TRUE) /\ UNCHANGED <<card, history>>
    BY <1>5, <2>1 DEF RequestDone
  <2>3. Fits(r) /\ r \in LineRequests
    BY <2>1, <2>2, HeadFacts
  <2>4. r.do \in {"list", "read"}
    BY <1>1, <2>3, RequestOfKind
  <2>5. UNCHANGED <<storage, manifest>>
    BY <1>1, <2>2, <2>3, <2>4, LookingChangesNothing
  <2>6. World
    BY <1>1, <2>2, <2>5 DEF World, UtilityTypeOK
  <2>7. CASE r.do = "list"
    <3>1. OnList(r, TRUE) /\ At("GettingFileTree")
      BY <1>1, <2>2, <2>3, <2>7, ListTells DEF OnFinished, At
    <3>2. PICK files \in SUBSET Path :
            /\ files = {p \in Children(r.path) : storage[p] # "none"}
            /\ job'.found = job.found \cup files
            /\ Left(line') = Left(Tail(line)) \cup {p \in files : IsDir(storage, p)}
      BY <2>1, <2>2, <2>6, <2>7, <3>1, ListKeeps
    <3>3. job'.state = job.state /\ job'.kind = job.kind /\ host' = host
      BY <2>1, <2>2, <2>6, <2>7, <3>1, ListKeeps
    <3>4. Left(line) = Left(Tail(line)) \cup {r.path}
      BY <2>1, <2>2, HeadFacts
    <3>5. There(storage) = {p \in Path : storage[p] # "none"}
      BY <1>1 DEF There, Tables
    <3>6. job'.found \subseteq There(storage)
      BY <3>2, <3>5 DEF FetchInv
    <3>7. ASSUME NEW p \in There(storage), p \notin job'.found
          PROVE  \E q \in Left(line') : Strictly(q, p)
      <4>1. PICK q \in Left(line) : Strictly(q, p)
        BY <3>1, <3>2, <3>7 DEF FetchInv
      <4>2. CASE q \in Left(Tail(line))
        BY <3>2, <4>1, <4>2
      <4>3. CASE q = r.path
        BY <1>1, <3>2, <3>7, <4>1, <4>3, ListingCovers
      <4> QED
        BY <3>4, <4>1, <4>2, <4>3
    <3>8. storage = history.device /\ PartOf(host, storage)
      BY <3>1 DEF FetchInv, At
    <3> QED
      BY <1>1, <2>5, <3>1, <3>3, <3>6, <3>7, <3>8 DEF FetchInv, At
  <2>8. CASE r.do = "read"
    <3>1. r.path # ManifestPath /\ r.path \in Path /\ At("ReadingFiles") /\ OnRead(r)
      <4>1. r.path # ManifestPath /\ r.path \in Path /\ At("ReadingFiles")
        BY <1>1, <2>3, <2>8, ReadTells DEF At
      <4>2. OnRead(r)
        BY <2>2, <2>8 DEF OnFinished
      <4> QED
        BY <4>1, <4>2
    <3>2. /\ host' = [host EXCEPT ![r.path] = storage[r.path]]
          /\ job' = [job EXCEPT !.posted = r.last]
          /\ line' = Tail(line)
      BY <3>1 DEF OnRead
    <3>3. job'.state = "ReadingFiles" /\ job'.found = job.found /\ job'.kind = job.kind
      BY <1>1, <3>1, <3>2 DEF At, Jobs
    <3>4. Left(line) = Left(line') \cup {r.path}
      BY <2>1, <2>2, <3>2, HeadFacts
    <3>5. There(storage) = {p \in Path : storage[p] # "none"}
      BY <1>1 DEF There, Tables
    <3>6. /\ storage = history.device /\ PartOf(host, storage)
          /\ \A p \in There(storage) : p \in Left(line) \/ host[p] = storage[p]
          /\ job.found \subseteq There(storage)
      BY <3>1 DEF FetchInv, At
    <3>7. PartOf(host', storage)
      BY <1>1, <3>2, <3>6 DEF PartOf, Tables
    <3>8. \A p \in There(storage) : p \in Left(line') \/ host'[p] = storage[p]
      BY <1>1, <3>1, <3>2, <3>4, <3>5, <3>6 DEF Tables
    <3> QED
      BY <1>1, <2>5, <3>3, <3>6, <3>7, <3>8 DEF FetchInv, At
  <2> QED
    BY <2>4, <2>7, <2>8
<1> QED
  BY <1>2, <1>3, <1>4, <1>5 DEF GoesOn

(* What a backup has here is part of what there is, in every state, also     *)
(* from one run of it to the next.                                           *)
BackupIsPart == job.kind = "Backup" => PartOf(host, storage)

(* The files on the device do not change, and each is read as it is there.   *)
LEMMA BackupStaysPart ==
    ASSUME UtilityBase, [UtilityStep]_utilityVars, BackupIsPart
    PROVE  BackupIsPart'
<1>1. UtilityTypeOK /\ job \in Jobs /\ host \in Tables /\ storage \in Tables
  BY TreeType DEF UtilityBase, UtilityTypeOK
<1>2. job'.kind = job.kind
  BY StepsOfAnOperation
<1>3. SUFFICES ASSUME job.kind = "Backup" PROVE PartOf(host', storage')
  BY <1>2 DEF BackupIsPart, PartOf
<1>4. PartOf(host, storage)
  BY <1>3 DEF BackupIsPart
<1>5. CASE UNCHANGED <<host, storage>>
  BY <1>4, <1>5
<1>6. CASE NextStateLogic
  <2>1. UserBackup
    BY <1>3, <1>6 DEF NextStateLogic
  <2>2. UNCHANGED <<host, storage>> \/ ReadFiles
    BY <2>1 DEF UserBackup, Works, Passes, Finishes, GetFileTree
  <2>3. CASE ReadFiles
    <3>1. storage' = storage
          /\ \/ host' = host
             \/ host' = [p \in Path |-> IF p \in job.found /\ IsDir(storage, p) THEN "dir" ELSE host[p]]
      BY <2>3 DEF ReadFiles
    <3> QED
      BY <1>1, <1>4, <3>1 DEF PartOf, IsDir
  <2> QED
    BY <1>5, <2>2, <2>3
<1>7. ASSUME NEW good, line # <<>>, InService(Head(line)), OnFinished(Head(line), good),
             CarryOut(Head(line)) \/ UNCHANGED storage
      PROVE  PartOf(host', storage')
  <2>1. PICK r : r = Head(line)
    OBVIOUS
  <2>2. Fits(r) /\ r \in LineRequests
    BY <1>7, <2>1, HeadFacts
  <2>3. r.do \in {"list", "read"}
    BY <1>1, <1>3, <2>2, RequestOfKind
  <2>4. storage' = storage
    BY <1>1, <1>7, <2>1, <2>2, <2>3, LookingChangesNothing
  <2>5. OnList(r, good) \/ (r.do = "read" /\ OnRead(r))
    BY <1>3, <1>7, <2>1, <2>3 DEF OnFinished
  <2>6. CASE OnList(r, good)
    BY <1>4, <2>4, <2>6 DEF OnList
  <2>7. CASE r.do = "read" /\ OnRead(r)
    <3>1. r.path # ManifestPath /\ r.path \in Path
      BY <1>1, <1>3, <2>2, <2>7, ReadTells
    <3>2. host' = [host EXCEPT ![r.path] = storage[r.path]]
      BY <2>7, <3>1 DEF OnRead
    <3> QED
      BY <1>1, <1>4, <2>4, <3>2 DEF PartOf, Tables
  <2> QED
    BY <2>5, <2>6, <2>7
<1>8. CASE RequestDone
  BY <1>7, <1>8 DEF RequestDone
<1>9. CASE RequestRefused
  BY <1>7, <1>9 DEF RequestRefused
<1>10. CASE RequestFailed
  <2>1. PICK r : r = Head(line)
    OBVIOUS
  <2>2. line # <<>> /\ InService(r) /\ CarryOutInPart(r) /\ host' = host
    BY <1>10, <2>1 DEF RequestFailed
  <2>3. Fits(r) /\ r \in LineRequests
    BY <2>1, <2>2, HeadFacts
  <2>4. r.do \in {"list", "read"}
    BY <1>1, <1>3, <2>3, RequestOfKind
  <2>5. storage' = storage
    BY <1>1, <2>2, <2>3, <2>4, LookingChangesNothing DEF CarryOutInPart
  <2> QED
    BY <1>5, <2>2, <2>5
<1>11. CASE OtherEnds \/ OtherAsks \/ TryAgain \/ UNCHANGED utilityVars
  BY <1>5, <1>11 DEF OtherEnds, OtherAsks, TryAgain, utilityVars
<1> QED
  BY <1>6, <1>8, <1>9, <1>10, <1>11 DEF UtilityStep, Rpc

-----------------------------------------------------------------------------
(* What is written: what is left can be written, what is not left is there   *)

IsReady(p) == IF IsDir(host, p) THEN storage[p] \in {"none", "dir"} ELSE storage[p] # "dir"
Arrived(left) == \A p \in Path \cap ToWrite : IF p \in left THEN IsReady(p) ELSE storage[p] = host[p]

(* A write that is done, of what can be written.                             *)
LEMMA WriteCarries ==
    ASSUME UtilityTypeOK, NEW r, r.path \in Path, r.do = (IF IsDir(host, r.path) THEN "mkdir" ELSE "write"),
           IsReady(r.path), Parent(r.path) = Root \/ IsDir(storage, Parent(r.path)), CarryOut(r)
    PROVE  storage' = [storage EXCEPT ![r.path] = host[r.path]] /\ manifest' = manifest
<1>1. storage \in Tables /\ host \in Tables
  BY TreeType DEF UtilityTypeOK
<1>2. PICK p : p = r.path
  OBVIOUS
<1>3. p \in Path /\ p # ManifestPath
  BY <1>2, ManifestPathIsApart
<1>4. storage' = Carried(r) /\ manifest' = manifest
  BY <1>2, <1>3 DEF CarryOut
<1>5. CASE IsDir(host, p)
  <2>1. r.do = "mkdir" /\ host[p] = "dir" /\ storage[p] \in {"none", "dir"}
    BY <1>2, <1>5 DEF IsDir, IsReady
  <2>2. CASE storage[p] = "none"
    BY <1>2, <1>4, <2>1, <2>2 DEF Carried
  <2>3. CASE storage[p] = "dir"
    <3>1. storage' = storage
      BY <1>2, <1>4, <2>1, <2>3 DEF Carried
    <3> QED
      BY <1>1, <1>2, <1>3, <1>4, <2>1, <2>3, <3>1 DEF Tables
  <2> QED
    BY <2>1, <2>2, <2>3
<1>6. CASE ~IsDir(host, p)
  <2>1. r.do = "write" /\ ~IsDir(storage, p)
    BY <1>2, <1>6 DEF IsDir, IsReady
  <2> QED
    BY <1>2, <1>4, <2>1 DEF Carried
<1> QED
  BY <1>5, <1>6

(* What is asked of the device now comes after what is above it.             *)
LEMMA HeadInOrder ==
    ASSUME UtilityBase, line # <<>>, InService(Head(line)), At("WritingFiles")
    PROVE  /\ Head(line).path \in Path => Parent(Head(line).path) \notin Left(line)
           /\ job.kind = "Assets" /\ Head(line).path = ManifestPath => Added \cap Left(line) = {}
<1>1. WritesInOrder(line)
  BY DEF UtilityBase, LineInv, Lawful, InService
<1>2. /\ 1 \in Mine(line) /\ Head(line) = line[1]
      /\ Left(line) = Left(Tail(line)) \cup {Head(line).path}
      /\ \A i \in Mine(Tail(line)) : i + 1 \in Mine(line) /\ Tail(line)[i] = line[i + 1] /\ 1 < i + 1
  BY HeadFacts
<1>3. ASSUME NEW q \in Left(Tail(line))
      PROVE  /\ q # Parent(Head(line).path)
             /\ job.kind = "Assets" => ~(Head(line).path = ManifestPath /\ q \in Added)
  <2>1. PICK i \in Mine(Tail(line)) : q = Tail(line)[i].path
    BY DEF Left
  <2>2. i + 1 \in Mine(line) /\ q = line[i + 1].path /\ 1 < i + 1
    BY <1>2, <2>1
  <2> QED
    BY <1>1, <1>2, <2>2 DEF WritesInOrder
<1>4. Head(line).path \in Path => Parent(Head(line).path) # Head(line).path
  BY ParentOfPath
<1>5. UtilityTypeOK /\ (job.kind = "Assets" => Added \subseteq Path)
  BY ListsOfInstall DEF UtilityBase
<1>6. ManifestPath \notin Path
  BY ManifestPathIsApart
<1> QED
  BY <1>2, <1>3, <1>4, <1>5, <1>6

(* A path that has arrived is not left any more.                             *)
LEMMA WriteArrives ==
    ASSUME UtilityTypeOK, NEW p \in Path \cap ToWrite, NEW left, NEW left2, left = left2 \cup {p}, p \notin left2,
           Arrived(left), storage' = [storage EXCEPT ![p] = host[p]], host' = host, ToWrite' = ToWrite
    PROVE  Arrived(left2)'
<1>1. storage \in Tables /\ host \in Tables
  BY TreeType DEF UtilityTypeOK
<1>2. ASSUME NEW q \in Path \cap ToWrite
      PROVE  IF q \in left2 THEN IsReady(q)' ELSE storage'[q] = host[q]
  <2>1. CASE q = p
    BY <1>1, <2>1 DEF Tables
  <2>2. CASE q # p
    <3>1. storage'[q] = storage[q] /\ (q \in left <=> q \in left2)
      BY <1>1, <2>2 DEF Tables
    <3>2. IsReady(q)' <=> IsReady(q)
      BY <3>1 DEF IsReady
    <3> QED
      BY <3>1, <3>2 DEF Arrived
  <2> QED
    BY <2>1, <2>2
<1> QED
  BY <1>2 DEF Arrived

-----------------------------------------------------------------------------
(* FilesUploadOperation and UserRestoreOperation                             *)

UploadInv == SameTypes => IF At("WritingFiles") THEN Arrived(Left(line)) ELSE \A p \in There(host) : IsReady(p)

(* An upload writes all that is here, and each path below one that it writes *)
(* too.                                                                      *)
LEMMA UploadWillWrite ==
    ASSUME UtilityTypeOK, job.kind \in {"Upload", "Restore"}
    PROVE  /\ ToWrite = There(host) /\ ToDelete = There(host) /\ There(host) \subseteq Path
           /\ host \in Trees /\ host \in Tables
           /\ \A p \in There(host) : Parent(p) = Root \/ (Parent(p) \in There(host) /\ host[Parent(p)] = "dir")
<1>1. host \in Trees /\ host \in Tables
  BY TreeType DEF UtilityTypeOK, LocalKinds
<1>2. There(host) = {p \in Path : host[p] # "none"}
  BY <1>1 DEF There, Tables
<1>3. \A p \in There(host) : Parent(p) = Root \/ (Parent(p) \in There(host) /\ host[Parent(p)] = "dir")
  <2>1. ASSUME NEW p \in There(host), Parent(p) # Root
        PROVE  Parent(p) \in There(host) /\ host[Parent(p)] = "dir"
    <3>1. p \in Path /\ host[p] # "none"
      BY <1>2
    <3>2. Parent(p) \in Above(p) /\ Parent(p) # p
      BY <2>1, <3>1, ParentOfPath
    <3>3. Parent(p) \in Path
      BY <3>2 DEF Above
    <3> QED
      BY <1>1, <1>2, <3>1, <3>2, <3>3, TreeType
  <2> QED
    BY <2>1
<1> QED
  BY <1>1, <1>2, <1>3 DEF ToWrite, ToDelete

(* A removal takes away what is there, or does nothing.                      *)
LEMMA RemovedStaysReady ==
    ASSUME UtilityTypeOK, NEW r, r.path \in Path, r.do = "remove", CarryOut(r)
    PROVE  \A q \in Path : storage'[q] \in {storage[q], "none"}
<1>1. storage \in Tables /\ r.path # ManifestPath
  BY TreeType, ManifestPathIsApart DEF UtilityTypeOK
<1>2. storage' = Carried(r)
  BY <1>1 DEF CarryOut
<1>3. storage' = storage \/ storage' = [storage EXCEPT ![r.path] = "none"]
  BY <1>2 DEF Carried
<1> QED
  BY <1>1, <1>3 DEF Tables

(* A step of the operation.                                                  *)
LEMMA UploadMoves ==
    ASSUME UtilityBase, job.kind \in {"Upload", "Restore"}, UploadInv, NextStateLogic, SameHistory
    PROVE  /\ job'.state # "Finished" => UploadInv'
           /\ job'.state = "Finished" /\ ~job'.error => UploadDone'
<1>1. UtilityTypeOK /\ job \in Jobs /\ history'.device = history.device
  BY DEF UtilityBase, UtilityTypeOK, SameHistory
<1>2. job.posted
  BY DEF NextStateLogic
<1>3. ASSUME UNCHANGED host
      PROVE  SameTypes' <=> SameTypes
  BY <1>1, <1>3 DEF SameTypes
<1>4. ASSUME NEW s \in JobStates, s \notin {"WritingFiles", "Finished"}, ~At("WritingFiles"), Passes(s)
      PROVE  job'.state # "Finished" /\ UploadInv'
  <2>1. job'.state = s /\ UNCHANGED <<host, storage>>
    BY <1>1, <1>4 DEF Passes, Jobs
  <2> QED
    BY <1>3, <1>4, <2>1 DEF UploadInv, At, IsReady
<1>5. CASE Finishes(TRUE)
  BY <1>1, <1>5, OverFacts DEF Finishes
<1>6. CASE ~At("WritingFiles") /\ AsksForEach("WritingFiles", Listings(There(host)), WriteOrMkdir)
  <2>1. /\ Left(line') = There(host) /\ job'.state = "WritingFiles" /\ job'.kind = job.kind
        /\ job'.manifest = job.manifest /\ UNCHANGED <<host, storage>>
    BY <1>2, <1>6, UploadWrites
  <2>2. ToWrite' = There(host)
    BY <1>1, <2>1, SameLists, UploadWillWrite
  <2>3. SameTypes => \A p \in There(host) : IsReady(p)
    BY <1>6 DEF UploadInv
  <2> QED
    BY <1>3, <2>1, <2>2, <2>3 DEF UploadInv, At, Arrived, IsReady
<1>7. CASE ~At("WritingFiles") /\ job.kind = "Restore" /\ AsksForEach("DeletingFiles", Listings(There(host)), Delete)
  <2>1. /\ job'.state = "DeletingFiles" /\ UNCHANGED <<host, storage>>
    BY <1>2, <1>7, RestoreDeletes
  <2> QED
    BY <1>3, <1>7, <2>1 DEF UploadInv, At, IsReady
<1>8. CASE At("WritingFiles") /\ Finishes(FALSE)
  <2>1. Left(line) = {}
    BY <1>2, NothingLeftToDo
  <2>2. SameTypes => \A p \in There(host) : storage[p] = host[p]
    BY <1>1, <1>8, <2>1, UploadWillWrite DEF UploadInv, Arrived
  <2>3. UNCHANGED <<host, storage>> /\ job'.state = "Finished"
    BY <1>1, <1>8, OverFacts DEF Finishes
  <2> QED
    BY <1>3, <2>2, <2>3 DEF UploadDone, Installed
<1>9. CASE FilesUpload
  BY <1>4, <1>6, <1>8, <1>9 DEF FilesUpload, JobStates, At
<1>10. CASE job.kind = "Restore" /\ UserRestore
  <2>1. ReadBackupDir => Finishes(TRUE) \/ Passes("ReadingBackupDir")
    BY DEF ReadBackupDir
  <2>2. Works("UncompressingArchive") => Finishes(TRUE) \/ Passes("UncompressingArchive")
    BY DEF Works
  <2> QED
    BY <1>4, <1>5, <1>6, <1>7, <1>8, <1>10, <2>1, <2>2 DEF UserRestore, JobStates, At
<1> QED
  BY <1>9, <1>10 DEF NextStateLogic

(* It goes on, and at the end all of it is on the device.                    *)
LEMMA UploadGoesOn ==
    ASSUME UtilityBase, job.kind \in {"Upload", "Restore"}, GoesOn, UploadInv
    PROVE  /\ job'.state # "Finished" => UploadInv'
           /\ job'.state = "Finished" /\ ~job'.error => UploadDone'
<1>1. UtilityTypeOK /\ job \in Jobs /\ SameHistory /\ history'.device = history.device
  BY DEF UtilityBase, UtilityTypeOK, GoesOn, SameHistory
<1>2. CASE OtherStep
  <2>1. job' = job /\ storage' = storage /\ host' = host /\ Left(line') = Left(line) /\ job.state # "Finished"
    BY <1>2 DEF OtherStep, SameWorld, GoesOn, Going
  <2>2. ToWrite' = ToWrite
    BY <2>1, SameLists
  <2> QED
    BY <1>1, <2>1, <2>2 DEF UploadInv, At, SameTypes, Arrived, IsReady
<1>3. CASE ToleratedStep
  BY <1>3 DEF ToleratedStep
<1>4. CASE NextStateLogic
  BY <1>1, <1>4, UploadMoves
<1>5. CASE RequestDone
  <2>1. PICK r : r = Head(line)
    OBVIOUS
  <2>2. line # <<>> /\ InService(r) /\ CarryOut(r) /\ OnFinished(r, TRUE) /\ UNCHANGED <<card, history>>
    BY <1>5, <2>1 DEF RequestDone
  <2>3. Fits(r) /\ r \in LineRequests
    BY <2>1, <2>2, HeadFacts
  <2>4. r.do \in {"remove", "write", "mkdir"}
    BY <1>1, <2>3, RequestOfKind
  <2>5. World
    BY <1>1, <2>2, <2>3, CarryOutTypes DEF World, UtilityTypeOK, CarryOutInPart
  <2>6. Goes([job EXCEPT !.posted = r.last])
    BY <2>2, <2>4 DEF OnFinished
  <2>7. /\ host' = host /\ job'.state = job.state /\ job'.kind = job.kind
        /\ job'.manifest = job.manifest /\ line' = Tail(line)
    BY <2>1, <2>2, <2>4, <2>5, <2>6, MoveKeeps
  <2>8. /\ Left(line) = Left(Tail(line)) \cup {r.path}
        /\ job.state # "GettingFileTree" => r.path \notin Left(Tail(line))
    BY <2>1, <2>2, HeadFacts
  <2>9. \/ job.state = "DeletingFiles" /\ r.do = "remove" /\ r.path \in ToDelete
        \/ /\ job.state = "WritingFiles" /\ r.path \in ToWrite
           /\ r.do = IF r.path \in Path /\ IsDir(host, r.path) THEN "mkdir" ELSE "write"
    BY <1>1, <2>3, <2>4, MoveTells
  <2>10. r.path \in There(host) /\ r.path \in Path /\ ToWrite = There(host)
    BY <1>1, <2>9, UploadWillWrite
  <2>11. SameTypes' <=> SameTypes
    BY <1>1, <2>7 DEF SameTypes
  <2>12. CASE job.state = "DeletingFiles" /\ r.do = "remove"
    <3>1. \A q \in Path : storage'[q] \in {storage[q], "none"}
      BY <1>1, <2>2, <2>10, <2>12, RemovedStaysReady
    <3>2. \A q \in Path : IsReady(q) => IsReady(q)'
      BY <2>7, <3>1 DEF IsReady
    <3>3. There(host) \subseteq Path
      BY <1>1, UploadWillWrite
    <3> QED
      BY <2>7, <2>11, <2>12, <3>2, <3>3 DEF UploadInv, At
  <2>13. CASE /\ job.state = "WritingFiles"
              /\ r.do = IF r.path \in Path /\ IsDir(host, r.path) THEN "mkdir" ELSE "write"
    <3>1. SUFFICES ASSUME SameTypes PROVE Arrived(Left(line))'
      BY <2>7, <2>11, <2>13 DEF UploadInv, At
    <3>2. Arrived(Left(line))
      BY <2>13, <3>1 DEF UploadInv, At
    <3>3. IsReady(r.path)
      BY <2>8, <2>10, <3>2 DEF Arrived
    <3>4. Parent(r.path) \notin Left(line)
      BY <2>1, <2>2, <2>10, <2>13, HeadInOrder DEF At
    <3>5. Parent(r.path) = Root \/ IsDir(storage, Parent(r.path))
      <4>1. Parent(r.path) = Root \/ (Parent(r.path) \in There(host) /\ host[Parent(r.path)] = "dir")
        BY <1>1, <2>10, UploadWillWrite
      <4>2. There(host) \subseteq Path
        BY <1>1, UploadWillWrite
      <4> QED
        BY <2>10, <3>2, <3>4, <4>1, <4>2 DEF Arrived, IsDir
    <3>6. storage' = [storage EXCEPT ![r.path] = host[r.path]]
      BY <1>1, <2>2, <2>10, <2>13, <3>3, <3>5, WriteCarries
    <3>7. ToWrite' = ToWrite
      BY <2>7, SameLists
    <3>8. PICK left, left2 : left = Left(line) /\ left2 = Left(Tail(line))
      OBVIOUS
    <3>9. Arrived(left2)'
      BY <1>1, <2>7, <2>8, <2>10, <2>13, <3>2, <3>6, <3>7, <3>8, WriteArrives
    <3>10. Left(line') = left2
      BY <2>7, <3>8
    <3> QED
      BY <3>9, <3>10 DEF Arrived
  <2> QED
    BY <2>9, <2>12, <2>13
<1> QED
  BY <1>2, <1>3, <1>4, <1>5 DEF GoesOn

-----------------------------------------------------------------------------
(* AssetsDownloadOperation: its lists                                        *)

KnownManifest == job.manifest = history.manifest \/ job.manifest.lists = Empty

(* A list that is not empty is that of the manifest there was.               *)
LEMMA ListsKnown ==
    ASSUME UtilityTypeOK, KnownManifest, NEW p \in Path, OnDevice[p] # "none"
    PROVE  job.manifest = history.manifest /\ ~FreshInstall /\ p \in There(history.manifest.lists)
           /\ OnDevice = history.manifest.lists
<1>1. job.manifest \in Manifests /\ OnDevice = job.manifest.lists /\ history.manifest.lists \in Tables
  BY BaseTypes
<1>2. OnDevice # Empty
  BY EmptyIsTree
<1>3. job.manifest = history.manifest
  BY <1>1, <1>2 DEF KnownManifest
<1>4. NoManifest.lists = Empty /\ Corrupt.lists = Empty
  BY DEF NoManifest, Corrupt, Manifest
<1>5. job.manifest.is = "readable"
  BY <1>1, <1>2, <1>4 DEF Manifests, Readable, Manifest
<1>6. p \in There(history.manifest.lists)
  BY <1>1, <1>3 DEF There, Tables
<1> QED
  BY <1>1, <1>3, <1>5, <1>6 DEF FreshInstall

(* What is neither added nor replaced is there as it is to be, and stays.    *)
LEMMA KeptIsRight ==
    ASSUME UtilityTypeOK, job.kind = "Assets", KnownManifest, Tells(history.manifest, history.device),
           NEW p \in There(host), p \notin Added, p \notin Replaced
    PROVE  /\ ~FreshInstall /\ job.manifest = history.manifest
           /\ OnDevice[p] = host[p] /\ history.device[p] = host[p] /\ p \notin ToDelete
<1>1. host \in Trees /\ host \in Tables /\ p \in Path /\ host[p] # "none" /\ OnDevice \in Tables
  BY TreeType, BaseTypes DEF UtilityTypeOK, LocalKinds
<1>2. ~FreshInstall
  BY DEF Added
<1>3. p \notin Difference(OnDevice, host) /\ p \notin Changed(OnDevice, host)
  BY <1>2 DEF Added, Replaced
<1>4. \A q \in Above(p) : OnDevice[q] # "none" /\ (IsDir(OnDevice, q) <=> IsDir(host, q))
  BY <1>3 DEF Difference, IsDir
<1>5. OnDevice[p] = host[p] /\ p \in Above(p)
  BY <1>1, <1>3, AboveItself DEF Changed
<1>6. job.manifest = history.manifest /\ p \in There(history.manifest.lists) /\ OnDevice = history.manifest.lists
  BY <1>1, <1>5, ListsKnown
<1>7. history.device[p] = host[p]
  BY <1>5, <1>6 DEF Tells
<1>8. \A q \in Above(p) : host[q] # "none"
  <2>1. \A q \in Above(p) : q # p => host[q] = "dir"
    BY <1>1, TreeType
  <2> QED
    BY <1>1, <2>1
<1>9. p \notin Difference(host, OnDevice)
  BY <1>4, <1>8 DEF Difference, IsDir
<1>10. p # ManifestPath
  BY <1>1, ManifestPathIsApart
<1> QED
  BY <1>2, <1>5, <1>6, <1>7, <1>9, <1>10 DEF ToDelete, Deleted

(* Only files are deleted.                                                   *)
LEMMA DeletedAreFiles ==
    ASSUME UtilityTypeOK, job.kind = "Assets", KnownManifest, Sound, NEW p \in Path \cap ToDelete
    PROVE  history.device[p] # "dir"
<1>1. host \in Trees /\ host \in Tables /\ OnDevice \in Tables /\ history.device \in Tables
      /\ p \in Deleted \cup Replaced /\ p \in Path
  <2>1. p # ManifestPath
    BY ManifestPathIsApart
  <2> QED
    BY <2>1, TreeType, BaseTypes DEF UtilityTypeOK, LocalKinds, ToDelete
<1>2. CASE FreshInstall
  <2>1. p \in Files(host)
    BY <1>1, <1>2 DEF Deleted, Replaced
  <2>2. host[p] \in Contents /\ host[p] # "dir" /\ p \in There(host)
    BY <1>1, <2>1 DEF Files, There, Tables, Contents
  <2>3. history.device[p] = "dir" => p \in There(history.device)
    BY <1>1 DEF There, Tables
  <2>4. Replaceable
    BY DEF Sound
  <2> QED
    BY <2>2, <2>3, <2>4 DEF Replaceable, IsDir
<1>3. CASE ~FreshInstall
  <2>1. CASE p \in Deleted
    <3>1. OnDevice[p] \in Contents
      BY <1>3, <2>1 DEF Deleted, Files
    <3> QED
      BY <1>1, <3>1, ListsKnown DEF Contents, Tells, Sound
  <2>2. CASE p \in Replaced
    <3>1. p \in Changed(OnDevice, host)
      BY <1>3, <2>2 DEF Replaced
    <3>2. OnDevice[p] # "none" /\ (IsDir(OnDevice, p) <=> IsDir(host, p))
      BY <1>1, <3>1, AboveItself DEF Changed, Difference, IsDir
    <3>3. host[p] \in Contents
      BY <2>2, ListsOfInstall
    <3>4. OnDevice[p] # "dir"
      BY <3>2, <3>3 DEF IsDir, Contents
    <3> QED
      BY <1>1, <3>2, <3>4, ListsKnown DEF Tells, Sound
  <2> QED
    BY <1>1, <2>1, <2>2
<1> QED
  BY <1>2, <1>3

(* When all is deleted that is to be, the rest can be written.               *)
LEMMA ReadyToWrite ==
    ASSUME UtilityTypeOK, job.kind = "Assets", KnownManifest, Sound,
           NEW p \in Path \cap ToWrite, p \notin ToDelete
    PROVE  IF IsDir(host, p) THEN history.device[p] \in {"none", "dir"} ELSE history.device[p] # "dir"
<1>1. host \in Tables /\ history.device \in Tables /\ p \in Path /\ OnDevice \in Tables
  BY BaseTypes DEF UtilityTypeOK
<1>2. p \in There(host) /\ p \notin Deleted
  BY ListsOfInstall, ManifestPathIsApart DEF ToWrite, ToDelete
<1>3. CASE history.device[p] = "none"
  BY <1>3
<1>4. CASE history.device[p] # "none"
  <2>1. p \in There(history.device)
    BY <1>1, <1>4 DEF There, Tables
  <2>2. \/ IsDir(host, p) = IsDir(history.device, p)
        \/ IsDir(host, p) /\ p \in There(job.manifest.lists)
    BY <1>2, <2>1 DEF Sound, Replaceable
  <2>3. CASE IsDir(host, p) = IsDir(history.device, p)
    BY <2>3 DEF IsDir
  <2>4. CASE IsDir(host, p) /\ p \in There(job.manifest.lists)
    <3>1. OnDevice[p] # "none"
      BY <2>4 DEF There, OnDevice
    <3>2. ~FreshInstall /\ p \in There(history.manifest.lists) /\ OnDevice = history.manifest.lists
      BY <1>1, <3>1, ListsKnown
    <3>3. history.device[p] = OnDevice[p]
      BY <3>2 DEF Sound, Tells
    <3>4. CASE OnDevice[p] = "dir"
      BY <2>4, <3>3, <3>4
    <3>5. CASE OnDevice[p] # "dir"
      <4>1. OnDevice[p] \in Contents
        BY <1>1, <3>1, <3>5 DEF Tables, Values
      <4>2. p \in Files(OnDevice) /\ p \in There(OnDevice)
        BY <1>1, <3>1, <4>1 DEF Files, There, Tables
      <4>3. p \in Difference(host, OnDevice)
        BY <1>1, <2>4, <3>5, <4>2, AboveItself DEF Difference, IsDir
      <4> QED
        BY <1>2, <3>2, <4>2, <4>3 DEF Deleted
    <3> QED
      BY <3>4, <3>5
  <2> QED
    BY <2>2, <2>3, <2>4
<1> QED
  BY <1>3, <1>4

(* What is replaced differs from what the manifest there was lists.          *)
LEMMA ReplacedIsChanged ==
    ASSUME UtilityTypeOK, job.kind = "Assets", KnownManifest
    PROVE  Replaced \subseteq Changed(history.manifest.lists, host)
<1>1. SUFFICES ASSUME NEW p \in Replaced PROVE p \in Changed(history.manifest.lists, host)
  OBVIOUS
<1>2. p \in Changed(OnDevice, host) /\ p \in Path
  BY ListsOfInstall DEF Replaced
<1>3. OnDevice[p] # "none"
  BY <1>2, AboveItself DEF Changed, Difference
<1>4. OnDevice = history.manifest.lists
  BY <1>2, <1>3, ListsKnown
<1> QED
  BY <1>2, <1>4

(* How far an install is, by what is left to do: the files on the device and *)
(* the manifest there.                                                       *)
FilesDeleted(left, tree) ==
    /\ \A p \in Path \ ToDelete : tree[p] = history.device[p]
    /\ \A p \in Path \cap ToDelete : tree[p] = IF p \in left THEN history.device[p] ELSE "none"
ManifestDeleted(left, man) ==
    IF NothingToDo THEN left = {} /\ man = history.manifest
    ELSE IF ManifestPath \in left THEN man = history.manifest /\ Deleted \subseteq left
    ELSE man = NoManifest
FilesWritten(left, tree) ==
    /\ \A p \in Path \ (ToDelete \cup ToWrite) : tree[p] = history.device[p]
    /\ \A p \in (Path \cap ToDelete) \ ToWrite : tree[p] = "none"
    /\ \A p \in Path \cap ToWrite : p \notin left => tree[p] = host[p]
ManifestWritten(left, man) ==
    IF NothingToDo THEN left = {} /\ man = history.manifest
    ELSE IF ManifestPath \in left THEN man = NoManifest
    ELSE man = Readable(host) /\ Added \cap left = {}

Truthful(man, tree) ==
    \A p \in There(man.lists) : tree[p] = man.lists[p] \/ p \in Changed(history.manifest.lists, host)

(* When there is nothing to do, the device has what is here.                 *)
LEMMA NothingChanges ==
    ASSUME NothingToDo
    PROVE  Deleted = {} /\ Added = {} /\ Replaced = {} /\ ~FreshInstall
           /\ (job.kind = "Assets" => Path \cap ToDelete = {} /\ Path \cap ToWrite = {})
<1>1. Deleted = {} /\ Added = {} /\ Replaced = {} /\ ~FreshInstall
  BY DEF NothingToDo
<1> QED
  BY <1>1, ManifestPathIsApart DEF ToDelete, ToWrite

(* What the manifests list.                                                  *)
LEMMA ManifestLists ==
    ASSUME UtilityTypeOK
    PROVE  /\ There(NoManifest.lists) = {} /\ There(Corrupt.lists) = {}
           /\ There(Readable(host).lists) = There(host) /\ Readable(host).lists = host
           /\ There(host) = {p \in Path : host[p] # "none"}
           /\ There(history.manifest.lists) = {p \in Path : history.manifest.lists[p] # "none"}
<1>1. NoManifest.lists = Empty /\ Corrupt.lists = Empty /\ Readable(host).lists = host
  BY DEF NoManifest, Corrupt, Readable, Manifest
<1> QED
  BY <1>1, EmptyIsTree, BaseTypes DEF There, Tables

(* As before the install, or with a part of the deletions done, the manifest *)
(* is true of all but what is replaced.                                      *)
LEMMA UntouchedIsTruthful ==
    ASSUME UtilityTypeOK, Tells(history.manifest, history.device)
    PROVE  Truthful(history.manifest, history.device)
BY DEF Tells, Truthful

(* While it deletes.                                                         *)
LEMMA DeletingIsTruthful ==
    ASSUME UtilityTypeOK, job.kind = "Assets", KnownManifest, Tells(history.manifest, history.device),
           NEW left, NEW tree, NEW man, FilesDeleted(left, tree), ManifestDeleted(left, man)
    PROVE  Truthful(man, tree)
<1>1. There(history.manifest.lists) \subseteq Path
  BY ManifestLists
<1>2. CASE man = NoManifest
  BY <1>2, ManifestLists DEF Truthful
<1>3. CASE NothingToDo /\ man = history.manifest
  <2>1. \A p \in Path : tree[p] = history.device[p]
    BY <1>3, NothingChanges DEF FilesDeleted
  <2> QED
    BY <1>1, <1>3, <2>1 DEF Truthful, Tells
<1>4. CASE man = history.manifest /\ Deleted \subseteq left
  <2>1. ASSUME NEW p \in There(history.manifest.lists), tree[p] # history.device[p]
        PROVE  p \in Changed(history.manifest.lists, host)
    <3>1. p \in Path /\ p \in ToDelete /\ p \notin left
      BY <1>1, <2>1 DEF FilesDeleted
    <3>2. p \in Replaced
      BY <1>4, <3>1, ManifestPathIsApart DEF ToDelete
    <3> QED
      BY <3>2, ReplacedIsChanged
  <2> QED
    BY <1>4, <2>1 DEF Truthful, Tells
<1> QED
  BY <1>2, <1>3, <1>4 DEF ManifestDeleted

(* What is listed is there, once what was to be written is.                  *)
LEMMA KeptIsThere ==
    ASSUME UtilityTypeOK, job.kind = "Assets", KnownManifest, Tells(history.manifest, history.device),
           NEW left, NEW tree, FilesWritten(left, tree), NEW p \in There(host), p \notin left \/ p \notin ToWrite
    PROVE  tree[p] = host[p]
<1>1. p \in Path /\ p # ManifestPath
  BY ManifestLists, ManifestPathIsApart
<1>2. CASE p \in ToWrite
  BY <1>1, <1>2 DEF FilesWritten
<1>3. CASE p \notin ToWrite
  <2>1. p \notin Added /\ p \notin Replaced
    BY <1>3 DEF ToWrite
  <2>2. history.device[p] = host[p] /\ p \notin ToDelete
    BY <2>1, KeptIsRight
  <2> QED
    BY <1>1, <1>3, <2>2 DEF FilesWritten
<1> QED
  BY <1>2, <1>3

(* While it writes.                                                          *)
LEMMA WritingIsTruthful ==
    ASSUME UtilityTypeOK, job.kind = "Assets", KnownManifest, Tells(history.manifest, history.device),
           NEW left, NEW tree, NEW man, FilesWritten(left, tree), ManifestWritten(left, man)
    PROVE  Truthful(man, tree)
<1>1. There(history.manifest.lists) \subseteq Path
  BY ManifestLists
<1>2. CASE man = NoManifest
  BY <1>2, ManifestLists DEF Truthful
<1>3. CASE NothingToDo /\ man = history.manifest
  <2>1. \A p \in Path : tree[p] = history.device[p]
    BY <1>3, NothingChanges DEF FilesWritten
  <2> QED
    BY <1>1, <1>3, <2>1 DEF Truthful, Tells
<1>4. CASE man = Readable(host) /\ Added \cap left = {}
  <2>1. ASSUME NEW p \in There(host), tree[p] # host[p]
        PROVE  p \in Changed(history.manifest.lists, host)
    <3>1. p \in ToWrite /\ p \in left /\ p \in Path
      BY <2>1, KeptIsThere, ManifestLists
    <3>2. p \in Replaced
      BY <1>4, <3>1, ManifestPathIsApart DEF ToWrite
    <3> QED
      BY <3>2, ReplacedIsChanged
  <2>2. man.lists = host
    BY <1>4, ManifestLists
  <2> QED
    BY <2>1, <2>2 DEF Truthful
<1> QED
  BY <1>2, <1>3, <1>4 DEF ManifestWritten

(* A file that is only partly written is one that is not added yet.          *)
LEMMA TornIsTruthful ==
    ASSUME UtilityTypeOK, job.kind = "Assets", KnownManifest, Tells(history.manifest, history.device),
           NEW left, NEW man, FilesWritten(left, storage), ManifestWritten(left, man),
           NEW p \in Path \cap ToWrite, p \in left
    PROVE  Truthful(man, [storage EXCEPT ![p] = "torn"])
<1>1. PICK tree : tree = [storage EXCEPT ![p] = "torn"]
  OBVIOUS
<1>2. storage \in Tables
  BY TreeType DEF UtilityTypeOK
<1>3. FilesWritten(left, tree)
  <2>1. \A q \in Path : q # p => tree[q] = storage[q]
    BY <1>1, <1>2 DEF Tables
  <2> QED
    BY <2>1 DEF FilesWritten
<1> QED
  BY <1>1, <1>3, WritingIsTruthful

(* All is written: the files are those on this side, the manifest lists      *)
(* them, and what it listed before and is not to be there is gone.           *)
LEMMA InstallIsDone ==
    ASSUME UtilityTypeOK, job.kind = "Assets", KnownManifest, Sound,
           FilesWritten({}, storage), ManifestWritten({}, manifest)
    PROVE  AssetsDone
<1>1. /\ host \in Tables /\ OnDevice \in Tables /\ There(host) # {}
      /\ There(host) = {p \in Path : host[p] # "none"}
      /\ Files(host) = {p \in Path : host[p] \in Contents}
      /\ Files(OnDevice) = {p \in Path : OnDevice[p] \in Contents}
      /\ There(OnDevice) = {p \in Path : OnDevice[p] # "none"}
      /\ OnDevice = job.manifest.lists
  BY BaseTypes DEF UtilityTypeOK
<1>2. Tells(history.manifest, history.device)
  BY DEF Sound
<1>3. Installed
  BY <1>2, KeptIsThere DEF Installed
<1>4. manifest.is = "readable" /\ Files(manifest.lists) = Files(host)
  <2>1. CASE NothingToDo
    <3>1. manifest = history.manifest /\ Deleted = {} /\ Added = {} /\ Replaced = {} /\ ~FreshInstall
      BY <2>1, NothingChanges DEF ManifestWritten
    <3>2. \A p \in There(host) : OnDevice[p] = host[p] /\ job.manifest = history.manifest
      BY <1>2, <3>1, KeptIsRight
    <3>3. job.manifest = history.manifest
      BY <1>1, <3>2
    <3>4. manifest.is = "readable" /\ manifest.lists = OnDevice
      BY <1>1, <3>1, <3>3 DEF FreshInstall
    <3>5. Files(host) \subseteq Files(OnDevice)
      BY <1>1, <3>2 DEF Contents
    <3>6. ASSUME NEW p \in Files(OnDevice)
          PROVE  p \in Files(host)
      <4>1. p \in Path /\ OnDevice[p] \in Contents /\ p \in There(OnDevice) /\ OnDevice[p] # "dir"
        BY <1>1, <3>6 DEF Contents
      <4>2. p \notin Difference(host, OnDevice)
        BY <3>1, <3>6 DEF Deleted
      <4>3. host[p] # "none" /\ ~IsDir(host, p)
        BY <4>1, <4>2, AboveItself DEF Difference, IsDir
      <4>4. host[p] \in Values
        BY <1>1, <4>1 DEF Tables
      <4> QED
        BY <1>1, <4>1, <4>3, <4>4 DEF Values, IsDir
    <3> QED
      BY <3>4, <3>5, <3>6
  <2>2. CASE ~NothingToDo
    <3>1. manifest = Readable(host)
      BY <2>2 DEF ManifestWritten
    <3> QED
      BY <3>1 DEF Readable, Manifest
  <2> QED
    BY <2>1, <2>2
<1>5. ASSUME job.manifest = history.manifest, NEW p \in Files(history.manifest.lists) \ There(host)
      PROVE  storage[p] = "none"
  <2>1. p \in Files(OnDevice) /\ p \in Path /\ p \in There(OnDevice) /\ OnDevice[p] # "none" /\ host[p] = "none"
    BY <1>1, <1>5 DEF Contents
  <2>2. ~FreshInstall
    BY <2>1, ListsKnown
  <2>3. p \in Difference(host, OnDevice)
    BY <2>1, AboveItself DEF Difference
  <2>4. p \in Deleted
    BY <2>1, <2>2, <2>3 DEF Deleted
  <2>5. p \in ToDelete /\ p \notin ToWrite
    BY <1>5, <2>1, <2>4, ListsOfInstall, ManifestPathIsApart DEF ToDelete, ToWrite
  <2> QED
    BY <2>1, <2>5 DEF FilesWritten
<1> QED
  BY <1>3, <1>4, <1>5 DEF AssetsDone

(* What is asked of the device now: the manifest first, of what is only      *)
(* deleted.                                                                  *)
LEMMA HeadOfDeletions ==
    ASSUME UtilityBase, line # <<>>, InService(Head(line)), At("DeletingFiles"), job.kind = "Assets",
           ManifestPath \in Left(Tail(line))
    PROVE  Head(line).path \notin Deleted
<1>1. DeletesInOrder(line)
  BY DEF UtilityBase, LineInv, Lawful, InService
<1>2. /\ 1 \in Mine(line) /\ Head(line) = line[1]
      /\ \A i \in Mine(Tail(line)) : i + 1 \in Mine(line) /\ Tail(line)[i] = line[i + 1] /\ 1 < i + 1
  BY HeadFacts
<1>3. PICK i \in Mine(Tail(line)) : ManifestPath = Tail(line)[i].path
  BY DEF Left
<1>4. i + 1 \in Mine(line) /\ ManifestPath = line[i + 1].path /\ 1 < i + 1
  BY <1>2, <1>3
<1> QED
  BY <1>1, <1>2, <1>4 DEF DeletesInOrder

(* A file that is removed is gone.                                           *)
LEMMA RemoveCarries ==
    ASSUME UtilityTypeOK, NEW r, r.path \in Path, r.do = "remove", storage[r.path] # "dir", CarryOut(r)
    PROVE  storage' = [storage EXCEPT ![r.path] = "none"] /\ manifest' = manifest
<1>1. r.path # ManifestPath
  BY ManifestPathIsApart
<1>2. storage' = Carried(r) /\ manifest' = manifest
  BY <1>1 DEF CarryOut
<1>3. ASSUME NEW q \in Children(r.path)
      PROVE  storage[q] = "none"
  <2>1. q \in Path /\ Parent(q) = r.path
    BY <1>3 DEF Children
  <2>2. r.path # Root
    BY ManifestPathIsApart
  <2>3. r.path \in Above(q) /\ r.path # q
    BY <2>1, <2>2, ParentOfPath
  <2> QED
    BY <2>1, <2>3, TreeType DEF UtilityTypeOK
<1> QED
  BY <1>2, <1>3 DEF Carried

(* A deletion that is done.                                                  *)
LEMMA DeletionIsDone ==
    ASSUME UtilityTypeOK, job.kind = "Assets", KnownManifest, Sound,
           NEW r, r.path \in ToDelete, r.do = "remove", CarryOut(r),
           NEW left, NEW left2, left = left2 \cup {r.path}, r.path \notin left2,
           ManifestPath \in left2 => r.path \notin Deleted,
           FilesDeleted(left, storage), ManifestDeleted(left, manifest)
    PROVE  FilesDeleted(left2, storage') /\ ManifestDeleted(left2, manifest')
<1>1. storage \in Tables /\ ~NothingToDo /\ ManifestPath \notin Path /\ ToDelete \subseteq Places
  BY TreeType, ManifestPathIsApart, PlacesToMove DEF UtilityTypeOK, ManifestDeleted
<1>2. CASE r.path = ManifestPath
  <2>1. manifest' = NoManifest /\ storage' = storage
    BY <1>2 DEF CarryOut, CarriedManifest
  <2>2. FilesDeleted(left2, storage)
    BY <1>1, <1>2 DEF FilesDeleted
  <2> QED
    BY <1>1, <1>2, <2>1, <2>2 DEF ManifestDeleted
<1>3. CASE r.path # ManifestPath
  <2>1. r.path \in Path
    BY <1>1, <1>3 DEF Places
  <2>2. storage[r.path] # "dir"
    BY <2>1, DeletedAreFiles DEF FilesDeleted
  <2>3. storage' = [storage EXCEPT ![r.path] = "none"] /\ manifest' = manifest
    BY <2>1, <2>2, RemoveCarries
  <2>4. FilesDeleted(left2, storage')
    <3>1. \A q \in Path : storage'[q] = IF q = r.path THEN "none" ELSE storage[q]
      BY <1>1, <2>1, <2>3 DEF Tables
    <3> QED
      BY <2>1, <3>1 DEF FilesDeleted
  <2>5. ManifestDeleted(left2, manifest)
    BY <1>1, <1>3 DEF ManifestDeleted
  <2> QED
    BY <2>3, <2>4, <2>5
<1> QED
  BY <1>2, <1>3

(* What can be written is so until it is.                                    *)
WritesReady(left) == \A p \in Path \cap ToWrite : p \in left => IsReady(p)

(* A write that is done, of a directory, a file or the manifest.             *)
LEMMA WriteIsDone ==
    ASSUME UtilityTypeOK, job.kind = "Assets", KnownManifest, Sound,
           NEW r, r.path \in ToWrite, CarryOut(r),
           r.do = (IF r.path \in Path /\ IsDir(host, r.path) THEN "mkdir" ELSE "write"),
           NEW left, NEW left2, left = left2 \cup {r.path}, r.path \notin left2,
           r.path \in Path => Parent(r.path) \notin left,
           r.path = ManifestPath => Added \cap left = {},
           FilesWritten(left, storage), ManifestWritten(left, manifest), WritesReady(left)
    PROVE  /\ FilesWritten(left2, storage') /\ ManifestWritten(left2, manifest')
           /\ host' = host /\ ToWrite' = ToWrite => WritesReady(left2)'
<1>1. storage \in Tables /\ ~NothingToDo /\ ManifestPath \notin Path /\ ToWrite \subseteq Places
  BY TreeType, ManifestPathIsApart, PlacesToMove DEF UtilityTypeOK, ManifestWritten
<1>2. CASE r.path = ManifestPath
  <2>1. manifest' = Readable(host) /\ storage' = storage
    BY <1>1, <1>2 DEF CarryOut, CarriedManifest
  <2>2. FilesWritten(left2, storage)
    BY <1>1, <1>2 DEF FilesWritten
  <2>3. host' = host /\ ToWrite' = ToWrite => WritesReady(left2)'
    BY <1>1, <1>2, <2>1 DEF WritesReady, IsReady
  <2> QED
    BY <1>1, <1>2, <2>1, <2>2, <2>3 DEF ManifestWritten
<1>3. CASE r.path # ManifestPath
  <2>1. r.path \in Path /\ IsReady(r.path)
    BY <1>1, <1>3 DEF Places, WritesReady
  <2>2. r.path \in There(host)
    BY <1>3, ListsOfInstall DEF ToWrite
  <2>3. Parent(r.path) = Root \/ (Parent(r.path) \in Path /\ host[Parent(r.path)] = "dir")
    BY <2>2, ListsOfInstall
  <2>4. Parent(r.path) = Root \/ IsDir(storage, Parent(r.path))
    <3>1. ASSUME Parent(r.path) # Root
          PROVE  storage[Parent(r.path)] = host[Parent(r.path)]
      <4>1. Parent(r.path) \in There(host)
        BY <2>3, <3>1, ManifestLists
      <4> QED
        BY <2>1, <4>1, KeptIsThere DEF Sound
    <3> QED
      BY <2>3, <3>1 DEF IsDir
  <2>5. storage' = [storage EXCEPT ![r.path] = host[r.path]] /\ manifest' = manifest
    BY <2>1, <2>4, WriteCarries
  <2>6. \A q \in Path : storage'[q] = IF q = r.path THEN host[q] ELSE storage[q]
    BY <1>1, <2>1, <2>5 DEF Tables
  <2>7. FilesWritten(left2, storage')
    BY <2>1, <2>6 DEF FilesWritten
  <2>8. ManifestWritten(left2, manifest)
    BY <1>1, <1>3 DEF ManifestWritten
  <2>9. host' = host /\ ToWrite' = ToWrite => WritesReady(left2)'
    BY <2>6 DEF WritesReady, IsReady
  <2> QED
    BY <2>5, <2>7, <2>8, <2>9
<1> QED
  BY <1>2, <1>3

Deleting(left) == FilesDeleted(left, storage) /\ ManifestDeleted(left, manifest)
Writing(left) == FilesWritten(left, storage) /\ ManifestWritten(left, manifest) /\ WritesReady(left)
AsBefore == storage = history.device /\ manifest = history.manifest
AssetsInv ==
    /\ KnownManifest
    /\ At("DeletingFiles") => (Sound => Deleting(Left(line)))
    /\ At("WritingFiles") => (Sound => Writing(Left(line)))
    /\ job.state \notin {"DeletingFiles", "WritingFiles"} => AsBefore

(* Before anything is deleted, or written.                                   *)
LEMMA DeletingBegins ==
    ASSUME UtilityTypeOK, job.kind = "Assets", AsBefore
    PROVE  Deleting(IF NothingToDo THEN {} ELSE ToDelete)
<1>1. CASE NothingToDo
  BY <1>1, NothingChanges DEF AsBefore, Deleting, FilesDeleted, ManifestDeleted
<1>2. CASE ~NothingToDo
  <2>1. ManifestPath \in ToDelete /\ Deleted \subseteq ToDelete
    BY DEF ToDelete
  <2> QED
    BY <1>2, <2>1 DEF AsBefore, Deleting, FilesDeleted, ManifestDeleted
<1> QED
  BY <1>1, <1>2

(* When all is deleted, all that is to be written can be.                    *)
LEMMA WritingBegins ==
    ASSUME UtilityTypeOK, job.kind = "Assets", KnownManifest, Sound, Deleting({})
    PROVE  Writing(IF NothingToDo THEN {} ELSE ToWrite)
<1>1. CASE NothingToDo
  <2>1. FilesWritten({}, storage) /\ ManifestWritten({}, manifest) /\ WritesReady({})
    BY <1>1, NothingChanges DEF Deleting, FilesDeleted, ManifestDeleted, FilesWritten, ManifestWritten, WritesReady
  <2> QED
    BY <1>1, <2>1 DEF Writing
<1>2. CASE ~NothingToDo
  <2>1. /\ \A p \in Path \ ToDelete : storage[p] = history.device[p]
        /\ \A p \in Path \cap ToDelete : storage[p] = "none"
        /\ manifest = NoManifest
    BY <1>2 DEF Deleting, FilesDeleted, ManifestDeleted
  <2>2. ASSUME NEW p \in Path \cap ToWrite
        PROVE  IsReady(p)
    <3>1. CASE p \in ToDelete
      BY <2>1, <2>2, <3>1 DEF IsReady
    <3>2. CASE p \notin ToDelete
      BY <2>1, <2>2, <3>2, ReadyToWrite DEF IsReady
    <3> QED
      BY <3>1, <3>2
  <2>3. ManifestPath \in ToWrite
    BY DEF ToWrite
  <2>4. FilesWritten(ToWrite, storage) /\ ManifestWritten(ToWrite, manifest) /\ WritesReady(ToWrite)
    BY <1>2, <2>1, <2>2, <2>3 DEF FilesWritten, ManifestWritten, WritesReady
  <2> QED
    BY <1>2, <2>4 DEF Writing
<1> QED
  BY <1>1, <1>2

(* What the lists depend on stays.                                           *)
LEMMA SameInstall ==
    ASSUME job'.kind = job.kind, job'.manifest = job.manifest, host' = host, SameHistory, UNCHANGED <<storage, manifest>>
    PROVE  /\ \A left : Deleting(left)' <=> Deleting(left)
           /\ \A left : Writing(left)' <=> Writing(left)
           /\ Sound' <=> Sound
           /\ KnownManifest' <=> KnownManifest
           /\ AsBefore' <=> AsBefore
<1>1. /\ Deleted' = Deleted /\ Added' = Added /\ Replaced' = Replaced
      /\ ToDelete' = ToDelete /\ ToWrite' = ToWrite /\ NothingToDo' = NothingToDo
  BY SameLists
<1>2. \A left : Deleting(left)' <=> Deleting(left)
  BY <1>1 DEF Deleting, FilesDeleted, ManifestDeleted, SameHistory
<1>3. \A left : Writing(left)' <=> Writing(left)
  BY <1>1 DEF Writing, FilesWritten, ManifestWritten, WritesReady, IsReady, SameHistory
<1> QED
  BY <1>2, <1>3 DEF Sound, Tells, Replaceable, KnownManifest, AsBefore, SameHistory

(* A step of the operation: it changes no file, and at the end all is        *)
(* installed.                                                                *)
LEMMA InstallMoves ==
    ASSUME UtilityBase, job.kind = "Assets", AssetsInv, NextStateLogic, SameHistory
    PROVE  /\ job'.state # "Finished" => AssetsInv'
           /\ job'.state = "Finished" /\ ~job'.error => AssetsDone'
           /\ job'.manifest = job.manifest /\ UNCHANGED <<host, storage, manifest>>
<1>1. UtilityTypeOK /\ job \in Jobs
  BY DEF UtilityBase, UtilityTypeOK
<1>2. job.posted /\ AssetsDownload
  BY DEF NextStateLogic
<1>3. KnownManifest
  BY DEF AssetsInv
<1>4. ASSUME job.state \notin {"DeletingFiles", "WritingFiles"}, job'.state \notin {"DeletingFiles", "WritingFiles", "Finished"},
             job'.kind = job.kind, job'.manifest = job.manifest, UNCHANGED <<host, storage, manifest>>
      PROVE  AssetsInv'
  <2>1. AsBefore /\ AsBefore' /\ KnownManifest'
    BY <1>3, <1>4, SameInstall DEF AssetsInv
  <2> QED
    BY <1>4, <2>1 DEF AssetsInv, At
<1>5. ASSUME NEW s \in JobStates, Passes(s)
      PROVE  job'.state = s /\ job'.kind = job.kind /\ job'.manifest = job.manifest /\ UNCHANGED <<host, storage, manifest>>
  BY <1>1, <1>5 DEF Passes, Jobs
<1>6. ASSUME NEW e \in BOOLEAN, Finishes(e)
      PROVE  job'.state = "Finished" /\ job'.error = e /\ job'.kind = job.kind /\ job'.manifest = job.manifest
             /\ UNCHANGED <<host, storage, manifest, card>>
  BY <1>1, <1>6, OverFacts DEF Finishes
<1>7. ASSUME NEW s \in JobStates, NEW do, NEW p, AsksOne(s, do, p)
      PROVE  job'.state = s /\ job'.kind = job.kind /\ job'.manifest = job.manifest /\ UNCHANGED <<host, storage, manifest>>
  BY <1>1, <1>7 DEF AsksOne, AsksFor, Jobs
<1>8. CASE job.state \notin {"DeletingFiles", "WritingFiles"} /\ \E s \in JobStates \ {"DeletingFiles", "WritingFiles", "Finished"} :
              Passes(s) \/ \E do, p : AsksOne(s, do, p)
  <2>1. PICK s \in JobStates \ {"DeletingFiles", "WritingFiles", "Finished"} : Passes(s) \/ \E do, p : AsksOne(s, do, p)
    BY <1>8
  <2>2. job'.state = s /\ job'.kind = job.kind /\ job'.manifest = job.manifest /\ UNCHANGED <<host, storage, manifest>>
    BY <1>5, <1>7, <2>1
  <2> QED
    BY <1>4, <1>8, <2>2
<1>9. CASE Finishes(TRUE)
  BY <1>6, <1>9
<1>10. CASE At("BuildingFileLists") /\ AsksForAny("DeletingFiles", DeleteLists, Delete)
  <2>1. /\ Left(line') = (IF NothingToDo THEN {} ELSE ToDelete)
        /\ job'.state = "DeletingFiles" /\ job'.kind = job.kind /\ job'.manifest = job.manifest
        /\ UNCHANGED <<host, storage, manifest>>
    BY <1>2, <1>10, InstallDeletes
  <2>2. AsBefore
    BY <1>10 DEF AssetsInv, At
  <2>3. PICK left : left = Left(line')
    OBVIOUS
  <2>4. Deleting(left)
    BY <1>1, <2>1, <2>2, <2>3, DeletingBegins
  <2>5. KnownManifest' /\ Deleting(left)'
    BY <1>3, <2>1, <2>4, SameInstall
  <2> QED
    BY <2>1, <2>3, <2>5 DEF AssetsInv, At, Deleting
<1>11. CASE At("DeletingFiles") /\ AsksForAny("WritingFiles", WriteLists, WriteOrMkdir)
  <2>1. /\ Left(line') = (IF NothingToDo THEN {} ELSE ToWrite)
        /\ job'.state = "WritingFiles" /\ job'.kind = job.kind /\ job'.manifest = job.manifest
        /\ UNCHANGED <<host, storage, manifest>>
    BY <1>2, <1>11, InstallWrites
  <2>2. Left(line) = {}
    BY <1>2, NothingLeftToDo
  <2>3. PICK left : left = Left(line')
    OBVIOUS
  <2>4. Sound => Writing(left)
    BY <1>1, <1>3, <1>11, <2>1, <2>2, <2>3, WritingBegins DEF AssetsInv
  <2>5. KnownManifest' /\ (Sound' => Writing(left)')
    BY <1>3, <2>1, <2>4, SameInstall
  <2> QED
    BY <2>1, <2>3, <2>5 DEF AssetsInv, At, Writing
<1>12. CASE At("WritingFiles") /\ Finishes(FALSE)
  <2>1. Left(line) = {}
    BY <1>2, NothingLeftToDo
  <2>2. Sound => AssetsDone
    BY <1>1, <1>3, <1>12, <2>1, InstallIsDone DEF AssetsInv, Writing
  <2>3. AssetsDone
    BY <2>2 DEF AssetsDone
  <2>4. /\ job'.state = "Finished" /\ job'.kind = job.kind /\ job'.manifest = job.manifest
        /\ UNCHANGED <<host, storage, manifest, card>>
    BY <1>6, <1>12
  <2>5. AssetsDone'
    BY <2>3, <2>4, SameInstall DEF AssetsDone, Installed, SameHistory
  <2> QED
    BY <2>4, <2>5
<1>13. Works("ExtractingArchive") \/ Works("ReadingLocalManifest") => Passes("ExtractingArchive") \/ Passes("ReadingLocalManifest") \/ Finishes(TRUE)
  BY DEF Works
<1>14. {"CheckingExtStorage", "ExtractingArchive", "ReadingLocalManifest", "CheckingDeviceManifest", "ReadingDeviceManifest",
        "BuildingFileLists"} \subseteq JobStates \ {"DeletingFiles", "WritingFiles", "Finished"}
  BY DEF JobStates
<1>15. CASE job.state \notin {"DeletingFiles", "WritingFiles"} /\ Finishes(TRUE)
  BY <1>9, <1>15, <1>6
<1>16. job.state \in {"Ready", "CheckingExtStorage", "ExtractingArchive", "ReadingLocalManifest", "CheckingDeviceManifest",
                      "ReadingDeviceManifest"} => job.state \notin {"DeletingFiles", "WritingFiles"}
  OBVIOUS
<1>17. ASSUME \/ At("Ready") /\ AsksOne("CheckingExtStorage", "info", Root)
              \/ At("CheckingExtStorage") /\ Works("ExtractingArchive")
              \/ At("ExtractingArchive") /\ Works("ReadingLocalManifest")
              \/ At("ReadingLocalManifest") /\ AsksOne("CheckingDeviceManifest", "stat", ManifestPath)
              \/ At("CheckingDeviceManifest") /\ AsksOne("ReadingDeviceManifest", "read", ManifestPath)
              \/ At("ReadingDeviceManifest") /\ Passes("BuildingFileLists")
       PROVE  /\ job.state \notin {"DeletingFiles", "WritingFiles"}
              /\ \/ Finishes(TRUE)
                 \/ \E s \in JobStates \ {"DeletingFiles", "WritingFiles", "Finished"} :
                      Passes(s) \/ \E do, p : AsksOne(s, do, p)
  BY <1>13, <1>14, <1>16, <1>17 DEF At, Works
<1>18. CASE /\ job.state \notin {"DeletingFiles", "WritingFiles"}
            /\ \/ Finishes(TRUE)
               \/ \E s \in JobStates \ {"DeletingFiles", "WritingFiles", "Finished"} :
                    Passes(s) \/ \E do, p : AsksOne(s, do, p)
  <2>1. \A s \in JobStates : Passes(s) \/ (\E do, p : AsksOne(s, do, p)) =>
            job'.state = s /\ job'.manifest = job.manifest /\ UNCHANGED <<host, storage, manifest>>
    BY <1>5, <1>7
  <2> QED
    BY <1>6, <1>8, <1>15, <1>18, <2>1
<1>19. CASE At("BuildingFileLists") /\ AsksForAny("DeletingFiles", DeleteLists, Delete)
  BY <1>10, <1>2, <1>19, InstallDeletes
<1>20. CASE At("DeletingFiles") /\ AsksForAny("WritingFiles", WriteLists, WriteOrMkdir)
  BY <1>11, <1>2, <1>20, InstallWrites
<1>21. CASE At("WritingFiles") /\ Finishes(FALSE)
  BY <1>12, <1>6, <1>21
<1> QED
  BY <1>2, <1>17, <1>18, <1>19, <1>20, <1>21 DEF AssetsDownload

(* While it goes on, and when it gives up, the manifest is true.             *)
LEMMA InstallIsTruthful ==
    ASSUME UtilityTypeOK, job.kind = "Assets", AssetsInv, Sound
    PROVE  Truthful(manifest, storage)
<1>1. KnownManifest /\ Tells(history.manifest, history.device)
  BY DEF AssetsInv, Sound
<1>2. CASE At("DeletingFiles")
  BY <1>1, <1>2, DeletingIsTruthful DEF AssetsInv, Deleting
<1>3. CASE At("WritingFiles")
  BY <1>1, <1>3, WritingIsTruthful DEF AssetsInv, Writing
<1>4. CASE job.state \notin {"DeletingFiles", "WritingFiles"}
  BY <1>1, <1>4, UntouchedIsTruthful DEF AssetsInv, AsBefore
<1> QED
  BY <1>2, <1>3, <1>4 DEF At

(* Whatever request it gives up over, carried out in whole, in part or not   *)
(* at all.                                                                   *)
LEMMA GivingUpIsTruthful ==
    ASSUME UtilityBase, job.kind = "Assets", AssetsInv, GivesUp, Sound
    PROVE  Truthful(manifest', storage')
<1>1. UtilityTypeOK /\ KnownManifest /\ Tells(history.manifest, history.device)
  BY DEF UtilityBase, AssetsInv, Sound
<1>2. PICK r : r = Head(line)
  OBVIOUS
<1>3. line # <<>> /\ InService(r) /\ CarryOutInPart(r)
  BY <1>2 DEF GivesUp, RequestFailed
<1>4. Fits(r) /\ r \in LineRequests
  BY <1>2, <1>3, HeadFacts
<1>5. CASE UNCHANGED <<storage, manifest>>
  BY <1>1, <1>5, InstallIsTruthful
<1>6. CASE r.do \notin {"remove", "write", "mkdir"}
  <2>1. UNCHANGED <<storage, manifest>>
    BY <1>1, <1>3, <1>4, <1>6, LookingChangesNothing DEF CarryOutInPart
  <2> QED
    BY <1>5, <2>1
<1>7. CASE r.do \in {"remove", "write", "mkdir"}
  <2>1. \/ job.state = "DeletingFiles" /\ r.do = "remove" /\ r.path \in ToDelete
        \/ /\ job.state = "WritingFiles" /\ r.path \in ToWrite
           /\ r.do = IF r.path \in Path /\ IsDir(host, r.path) THEN "mkdir" ELSE "write"
    BY <1>1, <1>4, <1>7, MoveTells
  <2>2. PICK left, left2 : left = Left(line) /\ left2 = Left(Tail(line))
    OBVIOUS
  <2>3. left = left2 \cup {r.path} /\ (job.state # "GettingFileTree" => r.path \notin left2)
    BY <1>2, <1>3, <2>2, HeadFacts
  <2>4. CASE job.state = "DeletingFiles" /\ r.do = "remove" /\ r.path \in ToDelete
    <3>1. FilesDeleted(left, storage) /\ ManifestDeleted(left, manifest)
      BY <2>2, <2>4 DEF AssetsInv, At, Deleting
    <3>2. ManifestPath \in left2 => r.path \notin Deleted
      BY <1>2, <1>3, <2>2, <2>4, HeadOfDeletions DEF At
    <3>3. CASE CarryOut(r)
      <4>1. FilesDeleted(left2, storage') /\ ManifestDeleted(left2, manifest')
        BY <1>1, <2>3, <2>4, <3>1, <3>2, <3>3, DeletionIsDone
      <4> QED
        BY <1>1, <4>1, DeletingIsTruthful
    <3> QED
      BY <1>3, <1>5, <2>4, <3>3 DEF CarryOutInPart
  <2>5. CASE /\ job.state = "WritingFiles" /\ r.path \in ToWrite
             /\ r.do = IF r.path \in Path /\ IsDir(host, r.path) THEN "mkdir" ELSE "write"
    <3>1. FilesWritten(left, storage) /\ ManifestWritten(left, manifest) /\ WritesReady(left)
      BY <2>2, <2>5 DEF AssetsInv, At, Writing
    <3>2. /\ r.path \in Path => Parent(r.path) \notin left
          /\ r.path = ManifestPath => Added \cap left = {}
      BY <1>2, <1>3, <2>2, <2>5, HeadInOrder DEF At
    <3>3. CASE CarryOut(r)
      <4>1. FilesWritten(left2, storage') /\ ManifestWritten(left2, manifest')
        BY <1>1, <2>3, <2>5, <3>1, <3>2, <3>3, WriteIsDone
      <4> QED
        BY <1>1, <4>1, WritingIsTruthful
    <3>4. CASE r.path = ManifestPath /\ manifest' = Corrupt
      BY <1>1, <3>4, ManifestLists DEF Truthful
    <3>5. CASE /\ r.path # ManifestPath /\ manifest' = manifest
               /\ storage' = (IF Carried(r) = storage THEN storage ELSE [storage EXCEPT ![r.path] = "torn"])
      <4>1. r.path \in Path
        BY <1>1, <2>5, <3>5, PlacesToMove DEF Places
      <4>2. CASE storage' = storage
        BY <1>5, <3>5, <4>2
      <4>3. CASE storage' = [storage EXCEPT ![r.path] = "torn"]
        <5>1. PICK p, man : p = r.path /\ man = manifest
          OBVIOUS
        <5>2. p \in Path \cap ToWrite /\ p \in left /\ ManifestWritten(left, man)
          BY <2>3, <2>5, <3>1, <4>1, <5>1
        <5>3. Truthful(man, [storage EXCEPT ![p] = "torn"])
          BY <1>1, <3>1, <5>2, TornIsTruthful
        <5>4. storage' = [storage EXCEPT ![p] = "torn"] /\ manifest' = man
          BY <3>5, <4>3, <5>1
        <5> QED
          BY <5>3, <5>4
      <4> QED
        BY <3>5, <4>2, <4>3
    <3> QED
      BY <1>3, <1>5, <3>3, <3>4, <3>5 DEF CarryOutInPart
  <2> QED
    BY <2>1, <2>4, <2>5
<1> QED
  BY <1>6, <1>7

(* It looks for the card and for the manifest.                               *)
LEMMA InstallLooks ==
    ASSUME UtilityBase, job.kind = "Assets", AssetsInv, SameHistory, card' = card, host' = host,
           NEW r, Fits(r), r \in LineRequests, r.do \notin {"remove", "write", "mkdir"}, CarryOut(r), OnFinished(r, TRUE)
    PROVE  /\ job'.state # "Finished" => AssetsInv'
           /\ job'.state = "Finished" => ~card'
           /\ UNCHANGED <<storage, manifest>>
           /\ job'.state = "Finished" => job'.manifest = job.manifest
<1>1. UtilityTypeOK /\ job \in Jobs
  BY DEF UtilityBase, UtilityTypeOK
<1>2. UNCHANGED <<storage, manifest>>
  BY <1>1, LookingChangesNothing
<1>3. ASSUME AsBefore, job'.state \in {"CheckingExtStorage", "CheckingDeviceManifest", "ReadingDeviceManifest"}, KnownManifest'
      PROVE  AssetsInv'
  BY <1>2, <1>3 DEF AssetsInv, At, AsBefore, SameHistory
<1>4. r.do \in {"info", "stat", "read"} /\ KnownManifest
  BY <1>1, RequestOfKind DEF AssetsInv
<1>5. CASE r.do = "info"
  <2>1. job.state = "CheckingExtStorage" /\ AsBefore
    BY <1>1, <1>5, InfoTells DEF AssetsInv
  <2>2. OnInfo(TRUE)
    BY <1>5 DEF OnFinished
  <2>3. CASE card
    <3>1. job' = Posted([job EXCEPT !.found = {}])
      BY <2>2, <2>3 DEF OnInfo, Goes
    <3>2. job'.state = "CheckingExtStorage" /\ job'.manifest = job.manifest
      BY <1>1, <2>1, <3>1 DEF Posted, Jobs
    <3> QED
      BY <1>2, <1>3, <1>4, <2>1, <3>2 DEF KnownManifest, SameHistory
  <2>4. CASE ~card
    <3>1. job' = Over(FALSE)
      BY <2>2, <2>4 DEF OnInfo, Goes
    <3> QED
      BY <1>1, <1>2, <2>4, <3>1, OverFacts
  <2> QED
    BY <2>3, <2>4
<1>6. CASE r.do = "stat"
  <2>1. job.state = "CheckingDeviceManifest" /\ AsBefore /\ r.path = ManifestPath
    BY <1>1, <1>6, StatTells DEF AssetsInv
  <2>2. OnManifestStat(r, TRUE)
    BY <1>6, <2>1 DEF OnFinished
  <2>3. \/ job' = Posted([job EXCEPT !.manifest = Readable(Empty)])
        \/ job' = Posted([job EXCEPT !.state = "ReadingDeviceManifest"])
    BY <2>2 DEF OnManifestStat, Goes
  <2>4. Readable(Empty).lists = Empty
    BY DEF Readable, Manifest
  <2>5. /\ job'.state \in {"CheckingDeviceManifest", "ReadingDeviceManifest"}
        /\ job'.manifest = job.manifest \/ job'.manifest.lists = Empty
    BY <1>1, <2>1, <2>3, <2>4 DEF Posted, Jobs
  <2>6. KnownManifest'
    BY <1>4, <2>5 DEF KnownManifest, SameHistory
  <2> QED
    BY <1>2, <1>3, <2>1, <2>5, <2>6
<1>7. CASE r.do = "read"
  <2>1. job.state = "ReadingDeviceManifest" /\ AsBefore /\ r.path = ManifestPath
    BY <1>1, <1>7, ReadTells DEF AssetsInv
  <2>2. OnRead(r)
    BY <1>7 DEF OnFinished
  <2>3. job' = Posted([job EXCEPT !.manifest = manifest])
    BY <2>1, <2>2 DEF OnRead, Goes
  <2>4. job'.state = "ReadingDeviceManifest" /\ job'.manifest = manifest
    BY <1>1, <2>1, <2>3 DEF Posted, Jobs
  <2>5. KnownManifest'
    BY <2>1, <2>4 DEF KnownManifest, AsBefore, SameHistory
  <2> QED
    BY <1>2, <1>3, <2>1, <2>4, <2>5
<1> QED
  BY <1>4, <1>5, <1>6, <1>7

(* It goes on, and at the end all is installed.                              *)
LEMMA InstallGoesOn ==
    ASSUME UtilityBase, job.kind = "Assets", GoesOn, AssetsInv
    PROVE  /\ job'.state # "Finished" => AssetsInv'
           /\ job'.state = "Finished" /\ ~job'.error => AssetsDone'
           /\ job'.state = "Finished" => job'.manifest = job.manifest /\ UNCHANGED <<host, storage, manifest>>
<1>1. UtilityTypeOK /\ job \in Jobs /\ SameHistory /\ KnownManifest
  BY DEF UtilityBase, UtilityTypeOK, GoesOn, AssetsInv
<1>2. CASE OtherStep
  <2>1. /\ job' = job /\ UNCHANGED <<host, storage, manifest>> /\ Left(line') = Left(line)
        /\ job.state # "Finished"
    BY <1>2 DEF OtherStep, SameWorld, GoesOn, Going
  <2>2. PICK left : left = Left(line)
    OBVIOUS
  <2>3. /\ (Deleting(left)' <=> Deleting(left)) /\ (Writing(left)' <=> Writing(left))
        /\ (Sound' <=> Sound) /\ KnownManifest' /\ (AsBefore' <=> AsBefore)
    BY <1>1, <2>1, SameInstall
  <2>4. AssetsInv'
    BY <2>1, <2>2, <2>3 DEF AssetsInv, At, Deleting, Writing
  <2> QED
    BY <2>1, <2>4
<1>3. CASE ToleratedStep
  <2>1. job' = Posted(job) /\ UNCHANGED <<host, storage, manifest>> /\ job.state = "ReadingDeviceManifest"
    BY <1>3 DEF ToleratedStep, At
  <2>2. job'.state = "ReadingDeviceManifest" /\ job'.manifest = job.manifest
    BY <1>1, <2>1 DEF Posted, Jobs
  <2>3. AsBefore
    BY <2>1 DEF AssetsInv
  <2> QED
    BY <1>1, <2>1, <2>2, <2>3 DEF AssetsInv, At, AsBefore, KnownManifest, SameHistory
<1>4. CASE NextStateLogic
  BY <1>1, <1>4, InstallMoves
<1>5. CASE RequestDone
  <2>1. PICK r : r = Head(line)
    OBVIOUS
  <2>2. line # <<>> /\ InService(r) /\ CarryOut(r) /\ OnFinished(r, TRUE) /\ UNCHANGED <<card, history>>
    BY <1>5, <2>1 DEF RequestDone
  <2>3. Fits(r) /\ r \in LineRequests
    BY <2>1, <2>2, HeadFacts
  <2>4. CASE r.do \notin {"remove", "write", "mkdir"}
    <3>1. r.do \in {"info", "stat", "read"}
      BY <1>1, <2>3, <2>4, RequestOfKind
    <3>2. r.do = "read" => r.path = ManifestPath
      BY <1>1, <2>3, ReadTells
    <3>3. host' = host
      BY <2>2, <3>1, <3>2 DEF OnFinished, OnInfo, OnManifestStat, OnRead, Goes
    <3>4. /\ job'.state # "Finished" => AssetsInv'
          /\ job'.state = "Finished" => ~card'
          /\ UNCHANGED <<storage, manifest>>
          /\ job'.state = "Finished" => job'.manifest = job.manifest
      BY <1>1, <2>2, <2>3, <2>4, <3>3, InstallLooks
    <3> QED
      BY <3>3, <3>4 DEF AssetsDone
  <2>5. CASE r.do \in {"remove", "write", "mkdir"}
    <3>1. World
      BY <1>1, <2>2, <2>3, CarryOutTypes DEF World, UtilityTypeOK, CarryOutInPart
    <3>2. Goes([job EXCEPT !.posted = r.last])
      BY <2>2, <2>5 DEF OnFinished
    <3>3. /\ host' = host /\ job'.state = job.state /\ job'.kind = job.kind
          /\ job'.manifest = job.manifest /\ line' = Tail(line)
      BY <2>1, <2>2, <2>5, <3>1, <3>2, MoveKeeps
    <3>4. \/ job.state = "DeletingFiles" /\ r.do = "remove" /\ r.path \in ToDelete
          \/ /\ job.state = "WritingFiles" /\ r.path \in ToWrite
             /\ r.do = IF r.path \in Path /\ IsDir(host, r.path) THEN "mkdir" ELSE "write"
      BY <1>1, <2>3, <2>5, MoveTells
    <3>5. PICK left, left2 : left = Left(line) /\ left2 = Left(Tail(line))
      OBVIOUS
    <3>6. left = left2 \cup {r.path} /\ (job.state # "GettingFileTree" => r.path \notin left2)
      BY <2>1, <2>2, <3>5, HeadFacts
    <3>7. KnownManifest' /\ (Sound' <=> Sound)
      BY <1>1, <3>3 DEF KnownManifest, Sound, Tells, Replaceable, SameHistory
    <3>8. /\ Deleted' = Deleted /\ Added' = Added /\ Replaced' = Replaced
          /\ ToDelete' = ToDelete /\ ToWrite' = ToWrite /\ NothingToDo' = NothingToDo
      BY <3>3, SameLists
    <3>9. Left(line') = left2
      BY <3>3, <3>5
    <3>10. CASE job.state = "DeletingFiles" /\ r.do = "remove" /\ r.path \in ToDelete
      <4>1. SUFFICES ASSUME Sound PROVE Deleting(left2)'
        BY <3>3, <3>7, <3>9, <3>10 DEF AssetsInv, At, Deleting
      <4>2. FilesDeleted(left, storage) /\ ManifestDeleted(left, manifest)
        BY <3>5, <3>10, <4>1 DEF AssetsInv, At, Deleting
      <4>3. ManifestPath \in left2 => r.path \notin Deleted
        BY <2>1, <2>2, <3>5, <3>10, HeadOfDeletions DEF At
      <4>4. FilesDeleted(left2, storage') /\ ManifestDeleted(left2, manifest')
        BY <1>1, <2>2, <3>6, <3>10, <4>1, <4>2, <4>3, DeletionIsDone
      <4> QED
        BY <1>1, <3>8, <4>4 DEF Deleting, FilesDeleted, ManifestDeleted, SameHistory
    <3>11. CASE /\ job.state = "WritingFiles" /\ r.path \in ToWrite
                /\ r.do = IF r.path \in Path /\ IsDir(host, r.path) THEN "mkdir" ELSE "write"
      <4>1. SUFFICES ASSUME Sound PROVE Writing(left2)'
        BY <3>3, <3>7, <3>9, <3>11 DEF AssetsInv, At, Writing
      <4>2. FilesWritten(left, storage) /\ ManifestWritten(left, manifest) /\ WritesReady(left)
        BY <3>5, <3>11, <4>1 DEF AssetsInv, At, Writing
      <4>3. /\ r.path \in Path => Parent(r.path) \notin left
            /\ r.path = ManifestPath => Added \cap left = {}
        BY <2>1, <2>2, <3>5, <3>11, HeadInOrder DEF At
      <4>4. /\ FilesWritten(left2, storage') /\ ManifestWritten(left2, manifest')
            /\ host' = host /\ ToWrite' = ToWrite => WritesReady(left2)'
        BY <1>1, <2>2, <3>6, <3>11, <4>1, <4>2, <4>3, WriteIsDone
      <4>5. WritesReady(left2)'
        BY <3>3, <3>8, <4>4
      <4> QED
        BY <1>1, <3>3, <3>8, <4>4, <4>5 DEF Writing, FilesWritten, ManifestWritten, SameHistory
    <3> QED
      BY <3>4, <3>10, <3>11
  <2> QED
    BY <2>4, <2>5
<1> QED
  BY <1>2, <1>3, <1>4, <1>5 DEF GoesOn

-----------------------------------------------------------------------------
(* The whole                                                                 *)

Progress ==
    Going =>
      /\ job.kind = "Assets" => AssetsInv
      /\ job.kind \in {"Upload", "Restore"} => UploadInv
      /\ job.kind \in {"Download", "Backup"} => FetchInv
      /\ job.kind = "Verify" => VerifyInv
      /\ job.kind = "PathCreate" => CreateInv
      /\ job.kind = "Refresh" => RefreshInv
OverIsTruthful ==
    job.kind = "Assets" /\ ~history.refused /\ (job.state = "Finished" \/ history.dropped) /\ Sound =>
      Truthful(manifest, storage)
UtilityInv == UtilityBase /\ BackupIsPart /\ Progress /\ WorkIsDone /\ OverIsTruthful

(* What an operation has done when it begins: nothing.                       *)
JustBegun ==
    /\ UtilityTypeOK /\ BackupIsPart
    /\ job = NewJob(job.kind, job.target)
    /\ history.device = storage /\ history.manifest = manifest
(* So all is still to be done.                                               *)
LEMMA BeginningIsSound == JustBegun => Progress
<1> SUFFICES ASSUME JustBegun PROVE Progress
  OBVIOUS
<1> USE DEF JustBegun
<1>1. job.state = "Ready" /\ job.found = {} /\ job.manifest = NoManifest
  BY DEF NewJob
<1>2. job.manifest.lists = Empty
  BY <1>1 DEF NoManifest, Manifest
<1>3. AssetsInv
  BY <1>1, <1>2 DEF AssetsInv, KnownManifest, AsBefore, At
<1>4. UploadInv
  <2>1. ASSUME SameTypes, NEW p \in There(host)
        PROVE  IsReady(p)
    <3>1. p \in Path /\ storage \in Tables
      BY BaseTypes
    <3>2. storage[p] = "dir" => p \in There(storage)
      BY <3>1 DEF There, Tables
    <3>3. storage[p] \in Values
      BY <3>1 DEF Tables
    <3>4. storage[p] \in Contents => p \in There(storage)
      BY <3>1 DEF There, Tables, Contents
    <3> QED
      BY <2>1, <3>2, <3>3, <3>4 DEF SameTypes, IsReady, IsDir, Values
  <2> QED
    BY <1>1, <2>1 DEF UploadInv, At
<1>5. job.kind \in {"Download", "Backup"} => FetchInv
  BY <1>1 DEF FetchInv, At, BackupIsPart
<1>6. VerifyInv /\ CreateInv /\ RefreshInv
  BY <1>1 DEF VerifyInv, CreateInv, RefreshInv, At
<1> QED
  BY <1>3, <1>4, <1>5, <1>6 DEF Progress

(* The same after a step.                                                    *)
LEMMA BeginsAgain == JustBegun' => Progress'
  BY BeginningIsSound, PTL

(* The first run of an operation.                                            *)
LEMMA InitIsSound == UtilityInit => UtilityInv
<1> SUFFICES ASSUME UtilityInit PROVE UtilityInv
  OBVIOUS
<1>1. UtilityBase
  BY InitBase
<1>2. PICK kind \in Kinds :
        /\ host \in (IF kind \in {"Backup", "PathCreate", "Refresh"} THEN {Empty} ELSE LocalTrees)
        /\ \E target \in (IF kind = "PathCreate" THEN {Chain(p) : p \in Path \cup {Root}} ELSE {<<>>}) :
             job = NewJob(kind, target)
        /\ history = Beginning(storage, manifest)
  BY DEF UtilityInit
<1>3. job = NewJob(job.kind, job.target) /\ job.kind = kind /\ job.state = "Ready"
  BY <1>2 DEF NewJob
<1>4. history.device = storage /\ history.manifest = manifest /\ ~history.dropped
  BY <1>2 DEF Beginning
<1>5. BackupIsPart
  BY <1>2, <1>3, EmptyIsTree DEF BackupIsPart, PartOf
<1>6. Progress
  BY <1>1, <1>3, <1>4, <1>5, BeginningIsSound DEF UtilityBase, JustBegun
<1>7. WorkIsDone /\ OverIsTruthful
  BY <1>3, <1>4 DEF WorkIsDone, Succeeded, OverIsTruthful
<1> QED
  BY <1>1, <1>5, <1>6, <1>7 DEF UtilityInv

(* A step of an operation of any kind.                                       *)
LEMMA KindsGoOn ==
    ASSUME UtilityBase, GoesOn, Progress, job'.kind = job.kind
    PROVE  Progress' /\ WorkIsDone'
<1>1. Going /\ job.kind \in Kinds
  BY BaseTypes DEF GoesOn, UtilityBase
<1>2. CASE job.kind = "Assets"
  <2>1. /\ job'.state # "Finished" => AssetsInv'
        /\ job'.state = "Finished" /\ ~job'.error => AssetsDone'
    BY <1>1, <1>2, InstallGoesOn DEF Progress
  <2> QED
    BY <1>2, <2>1 DEF Progress, Going, WorkIsDone, Succeeded
<1>3. CASE job.kind \in {"Upload", "Restore"}
  <2>1. /\ job'.state # "Finished" => UploadInv'
        /\ job'.state = "Finished" /\ ~job'.error => UploadDone'
    BY <1>1, <1>3, UploadGoesOn DEF Progress
  <2> QED
    BY <1>3, <2>1 DEF Progress, Going, WorkIsDone, Succeeded
<1>4. CASE job.kind \in {"Download", "Backup"}
  <2>1. /\ job'.state # "Finished" => FetchInv'
        /\ job'.state = "Finished" /\ ~job'.error => ReadDone'
    BY <1>1, <1>4, ReadGoesOn DEF Progress
  <2> QED
    BY <1>4, <2>1 DEF Progress, Going, WorkIsDone, Succeeded
<1>5. CASE job.kind = "Verify"
  <2>1. /\ job'.state # "Finished" => VerifyInv'
        /\ job'.state = "Finished" => VerifyDone'
    BY <1>1, <1>5, VerifyGoesOn DEF Progress
  <2> QED
    BY <1>5, <2>1 DEF Progress, Going, WorkIsDone, Succeeded
<1>6. CASE job.kind = "PathCreate"
  <2>1. /\ job'.state # "Finished" => CreateInv'
        /\ job'.state = "Finished" /\ ~job'.error => CreateDone'
    BY <1>1, <1>6, CreateGoesOn DEF Progress
  <2> QED
    BY <1>6, <2>1 DEF Progress, Going, WorkIsDone, Succeeded
<1>7. CASE job.kind = "Refresh"
  <2>1. /\ job'.state # "Finished" => RefreshInv'
        /\ job'.state = "Finished" => RefreshDone'
    BY <1>1, <1>7, RefreshGoesOn DEF Progress
  <2> QED
    BY <1>7, <2>1 DEF Progress, Going, WorkIsDone, Succeeded
<1> QED
  BY <1>1, <1>2, <1>3, <1>4, <1>5, <1>6, <1>7 DEF Kinds

(* Every step keeps it, also the one that begins again after an error.       *)
LEMMA SoundIsKept == UtilityInv /\ [UtilityStep]_utilityVars => UtilityInv'
<1> SUFFICES ASSUME UtilityInv, [UtilityStep]_utilityVars PROVE UtilityInv'
  OBVIOUS
<1>1. UtilityBase /\ BackupIsPart /\ Progress /\ WorkIsDone /\ OverIsTruthful /\ UtilityTypeOK
  BY DEF UtilityInv, UtilityBase
<1>2. UtilityBase' /\ BackupIsPart'
  BY <1>1, BaseIsKept, BackupStaysPart
<1>3. UtilityTypeOK'
  BY <1>2 DEF UtilityBase
<1>4. /\ job'.kind = job.kind /\ job'.target = job.target
      /\ StaysOver \/ TryAgain \/ history'.refused \/ GivesUp \/ IsDropped \/ GoesOn
  BY <1>1, StepsOfAnOperation
<1>5. job \in Jobs
  BY <1>1 DEF UtilityTypeOK
<1>6. ASSUME SameWorld, SameHistory
      PROVE  /\ WorkIsDone' <=> WorkIsDone
             /\ Sound' <=> Sound
             /\ Truthful(manifest, storage)' <=> Truthful(manifest, storage)
  BY <1>6 DEF SameWorld, SameHistory, WorkIsDone, Succeeded, AssetsDone, UploadDone, ReadDone, VerifyDone, CreateDone,
        RefreshDone, Answer, Sound, Tells, Replaceable, SameTypes, Installed, PathExists, Truthful
<1>7. CASE history'.refused
  <2>1. Progress' /\ WorkIsDone' /\ OverIsTruthful'
    BY <1>7 DEF Progress, Going, WorkIsDone, OverIsTruthful
  <2> QED
    BY <1>2, <2>1 DEF UtilityInv
<1>8. CASE StaysOver
  <2>1. job.state = "Finished" /\ job' = job /\ SameWorld /\ SameHistory
    BY <1>8 DEF StaysOver, SameWorld
  <2>2. Progress' /\ WorkIsDone'
    BY <1>1, <1>6, <2>1 DEF Progress, Going
  <2>3. OverIsTruthful'
    BY <1>1, <1>6, <2>1 DEF OverIsTruthful, SameHistory
  <2> QED
    BY <1>2, <2>2, <2>3 DEF UtilityInv
<1>9. CASE TryAgain
  <2>1. /\ job' = NewJob(job.kind, job.target)
        /\ history' = [Beginning(storage, manifest) EXCEPT !.tries = history.tries + 1]
        /\ UNCHANGED <<storage, manifest>>
    BY <1>9 DEF TryAgain
  <2>2. job'.state = "Ready" /\ job' = NewJob(job'.kind, job'.target)
    BY <1>4, <2>1 DEF NewJob
  <2>3. history'.device = storage' /\ history'.manifest = manifest' /\ ~history'.dropped
    BY <2>1 DEF Beginning
  <2>4. JustBegun'
    BY <1>2, <1>3, <2>2, <2>3 DEF JustBegun
  <2>5. Progress'
    BY <2>4, BeginsAgain
  <2>6. WorkIsDone' /\ OverIsTruthful'
    BY <2>2, <2>3 DEF WorkIsDone, Succeeded, OverIsTruthful
  <2> QED
    BY <1>2, <2>5, <2>6 DEF UtilityInv
<1>10. CASE GivesUp /\ ~history'.refused
  <2>1. job' = Over(TRUE) /\ SameHistory /\ RequestFailed
    BY <1>10 DEF GivesUp
  <2>2. job'.state = "Finished" /\ job'.error /\ job'.manifest = job.manifest
    BY <1>5, <2>1, OverFacts
  <2>3. host' = host /\ line # <<>> /\ InService(Head(line))
    BY <2>1 DEF RequestFailed
  <2>4. Going
    BY <1>1, <1>10, <2>1, <2>3, HeadFacts DEF Going, SameHistory
  <2>5. Sound' <=> Sound
    BY <2>1, <2>2, <2>3 DEF Sound, Tells, Replaceable, SameHistory
  <2>6. job.kind = "Assets" /\ Sound => Truthful(manifest', storage')
    BY <1>1, <1>10, <2>4, GivingUpIsTruthful DEF Progress
  <2>7. OverIsTruthful'
    BY <1>4, <2>1, <2>3, <2>5, <2>6 DEF OverIsTruthful, Truthful, SameHistory
  <2>8. Progress' /\ WorkIsDone'
    BY <2>2 DEF Progress, Going, WorkIsDone, Succeeded
  <2> QED
    BY <1>2, <2>7, <2>8 DEF UtilityInv
<1>11. CASE IsDropped /\ ~history'.refused
  <2>1. job.state # "Finished" /\ job' = job /\ SameWorld /\ SameHistory /\ history'.dropped
    BY <1>11 DEF IsDropped, SameWorld
  <2>2. job.kind = "Assets" /\ Sound => Truthful(manifest, storage)
    <3>1. CASE history.dropped
      BY <1>1, <1>11, <2>1, <3>1 DEF OverIsTruthful, SameHistory
    <3>2. CASE ~history.dropped
      BY <1>1, <1>11, <2>1, <3>2, InstallIsTruthful DEF Progress, Going, SameHistory
    <3> QED
      BY <3>1, <3>2
  <2>3. OverIsTruthful'
    BY <1>6, <2>1, <2>2 DEF OverIsTruthful
  <2>4. Progress' /\ WorkIsDone'
    BY <2>1 DEF Progress, Going, WorkIsDone, Succeeded
  <2> QED
    BY <1>2, <2>3, <2>4 DEF UtilityInv
<1>12. CASE GoesOn
  <2>1. Progress' /\ WorkIsDone'
    BY <1>1, <1>4, <1>12, KindsGoOn
  <2>2. Going /\ SameHistory /\ ~history'.dropped
    BY <1>12 DEF GoesOn
  <2>3. ASSUME job.kind = "Assets", job'.state = "Finished", Sound'
        PROVE  Truthful(manifest, storage)'
    <3>1. AssetsInv
      BY <1>1, <2>2, <2>3 DEF Progress
    <3>2. job'.manifest = job.manifest /\ UNCHANGED <<host, storage, manifest>>
      BY <1>1, <1>12, <2>3, <3>1, InstallGoesOn
    <3>3. Sound
      BY <2>2, <2>3, <3>2 DEF Sound, Tells, Replaceable, SameHistory
    <3>4. Truthful(manifest, storage)
      BY <1>1, <2>3, <3>1, <3>3, InstallIsTruthful
    <3> QED
      BY <2>2, <3>2, <3>4 DEF Truthful, SameHistory
  <2>4. OverIsTruthful'
    BY <1>4, <2>2, <2>3 DEF OverIsTruthful
  <2> QED
    BY <1>2, <2>1, <2>4 DEF UtilityInv
<1> QED
  BY <1>4, <1>7, <1>8, <1>9, <1>10, <1>11, <1>12

(* An install that is over or goes on has a manifest that tells the truth.   *)
LEMMA SoundIsTruthful == UtilityInv => ManifestTellsTruth
<1> SUFFICES ASSUME UtilityInv, job.kind = "Assets", ~history.refused, Sound
             PROVE  Truthful(manifest, storage)
  BY DEF ManifestTellsTruth, Truthful
<1>1. CASE job.state = "Finished" \/ history.dropped
  BY <1>1 DEF UtilityInv, OverIsTruthful
<1>2. CASE Going
  BY <1>2, InstallIsTruthful DEF UtilityInv, UtilityBase, Progress
<1> QED
  BY <1>1, <1>2 DEF Going

(* An operation of every kind is at every moment where its state says: what  *)
(* is done of its work and what is left in the line make up the whole of it, *)
(* whatever the order of its lists, and also when it is run again after it   *)
(* failed half-way.                                                          *)
THEOREM UtilityIsSound == UtilitySpec => []UtilityInv
  BY InitIsSound, SoundIsKept, SessionStepIsStep, PTL DEF UtilitySpec

(* An operation that ends without an error has done its work, when the       *)
(* device refused nothing: what was to be written is there, what was to be   *)
(* read is here, and the answer is the right one.                            *)
THEOREM WorkDone == UtilitySpec => []WorkIsDone
<1>1. UtilityInv => WorkIsDone
  BY DEF UtilityInv
<1> QED
  BY <1>1, UtilityIsSound, PTL

(* Wherever the installation of the resources is interrupted, the manifest   *)
(* on the device tells the truth about every file but those being replaced:  *)
(* the next install compares with it.                                        *)
THEOREM ManifestTrue == UtilitySpec => []ManifestTellsTruth
  BY SoundIsTruthful, UtilityIsSound, PTL

====
