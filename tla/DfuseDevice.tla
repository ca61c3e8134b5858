------------------------------ MODULE DfuseDevice ------------------------------
(***************************************************************************)
(* What recovery transactions do to a device: Recovery (backend/           *)
(* flipperzero/recovery.cpp), STM32WB55, DfuseDevice and USBDevice         *)
(* (src/dfu), request by request.                                          *)
(*                                                                         *)
(* A transaction is a sequence of calls, a call one of items, an item one  *)
(* control transfer, tried again as long as it fails.  What a failure      *)
(* drops depends on whether the caller looks at the result of the call.    *)
(*                                                                         *)
(* External: the DFU state machine of the device, after USB DFU 1.1 and    *)
(* DfuSe, its flash memory of pages, its option bytes.  A word of memory   *)
(* holds <<0>> (as before the transaction), <<1>> (erased) or data, which  *)
(* is <<element, position>>.                                               *)
(***************************************************************************)
EXTENDS Integers, Sequences, FiniteSets, SequencesExt

CONSTANTS
    Origin,         \* the address where the flash memory begins
    PageBanks,      \* its layout, a sequence of [count, size]
    TransferSize,   \* the words of a transfer
    Files,          \* the DfuSe files: sequences of elements [at, size]
    ImageSizes,     \* the sizes of wireless stack images
    PageSize,       \* the page size the wireless stack is placed by, 0x1000
    RetryCount      \* RETRY_COUNT, 25

ASSUME LayoutIsSound == /\ Origin \in Nat /\ PageSize \in Nat \ {0}
                        /\ TransferSize \in Nat \ {0} /\ RetryCount \in Nat \ {0}
                        /\ PageBanks \in Seq([count : Nat, size : Nat \ {0}])

(* Addresses and sizes are unsigned; an image that is empty is not opened.   *)
ASSUME FilesAreSound == /\ Files \subseteq Seq([at : Nat, size : Nat])
                        /\ ImageSizes \subseteq Nat \ {0}

-----------------------------------------------------------------------------
(* DFUMemoryLayout *)

BankStart[k \in 1..Len(PageBanks) + 1] ==
    IF k = 1 THEN Origin ELSE BankStart[k - 1] + PageBanks[k - 1].count * PageBanks[k - 1].size

PageStarts == UNION {{BankStart[k] + i * PageBanks[k].size : i \in 0..PageBanks[k].count - 1} : k \in DOMAIN PageBanks}
MemoryEnd == BankStart[Len(PageBanks) + 1]
Addresses == Origin..MemoryEnd - 1
PageOf(a) == CHOOSE p \in PageStarts : p <= a /\ \A q \in PageStarts : q <= a => q <= p

PagesToTheEnd(start, end) ==                                            \* mutant
    IF start < Origin \/ start > end \/ PageBanks = <<>> THEN {}
    ELSE {start} \cup {p \in PageStarts \cup {MemoryEnd} : start < p /\ p <= end}

PageAddresses(start, end) ==
    IF start < Origin \/ start > end \/ PageBanks = <<>> THEN {}
    ELSE {start} \cup {p \in PageStarts \cup {MemoryEnd} : start < p /\ p < end}

Ascending(S) == [i \in 1..Cardinality(S) |-> CHOOSE p \in S : Cardinality({q \in S : q < p}) = i - 1]

-----------------------------------------------------------------------------
(* The calls *)

Item(asks, arg) == [asks |-> asks, arg |-> arg]
Command(cmd, at, data) == [cmd |-> cmd, at |-> at, data |-> data]
Must(items) == [items |-> items, must |-> TRUE]
May(items) == [items |-> items, must |-> FALSE]

Alt(n) == <<Item("alt", n)>>
Prepare == <<Item("prepare", 0)>>
Abort == <<Item("abort", 0), Item("isIdle", 0)>>
PollWhileBusy == <<Item("poll", {"dnloadBusy"})>>
PollUntilIdle == <<Item("poll", {"dnloadBusy", "idle", "uploadIdle"})>>
Download(command) == <<Item("dnload", command)>>

SetAddressPointer(a) == Download(Command("pointer", a, <<>>)) \o PollWhileBusy
ErasePage(a) == Download(Command("erase", a, <<>>)) \o PollWhileBusy

(* The string descriptor of the interface holds the memory layout.           *)
Descriptor == <<Item("descriptor", 0)>>

(* erase(): the device is not told an alternate setting.                     *)
Erase(at, size) ==
    LET pages == Ascending(PageAddresses(at, at + size)) IN
    IF pages = <<>> THEN Prepare \o Descriptor \o <<Item("giveUp", 0)>>
    ELSE Prepare \o Descriptor \o FlattenSeq([i \in DOMAIN pages |-> ErasePage(pages[i])])

(* download(file, addr, alt): the blocks are numbered from 2.                *)
Data(k, size) == [i \in 1..size |-> <<k, i>>]
BlockCount(n) == (n + TransferSize - 1) \div TransferSize
Block(data, b) ==
    SubSeq(data, (b - 1) * TransferSize + 1, IF b * TransferSize < Len(data) THEN b * TransferSize ELSE Len(data))
Blocks(data) ==
    FlattenSeq([b \in 1..BlockCount(Len(data)) |-> Download(Command("write", b + 1, Block(data, b))) \o PollUntilIdle])
Write(at, data, alt) == Alt(alt) \o Prepare \o SetAddressPointer(at) \o Blocks(data)

(* upload(): nobody looks at the result of its second abort(), and its       *)
(* caller looks only at what has been read.                                  *)
Upload(at, alt) ==
    Alt(alt) \o Prepare \o Abort \o SetAddressPointer(at) \o <<Item("mayAbort", 0), Item("upload", 0)>>

FlashAlt == 0
OptionBytesAlt == 1
OptionBytesAt == MemoryEnd     \* an address beyond the flash memory
ReadOptionBytes == <<May(Upload(OptionBytesAt, OptionBytesAlt))>>
WriteOptionBytes(options) == <<May(Write(OptionBytesAt, <<options>>, OptionBytesAlt))>>

Leave ==
    <<Must(Alt(FlashAlt) \o Prepare \o Abort), May(SetAddressPointer(OptionBytesAt)),
      Must(Download(Command("leave", 0, <<>>))), May(<<Item("anyStatus", 0)>>)>>
Raw == Must(Alt(FlashAlt) \o Prepare \o Download(Command("raw", 0, <<>>)) \o PollWhileBusy)

Begin == <<Must(<<Item("claim", 0)>>)>>
End == <<Must(<<Item("release", 0)>>)>>
EndAnyway == <<May(<<Item("release", 0)>>)>>
Then(what) == <<Must(<<Item(what, 0)>>)>>

-----------------------------------------------------------------------------
(* The transactions *)

(* The image ends where the secure area begins, or less than a page below.   *)
TargetAddress(size, sfsa) == ((Origin + PageSize * sfsa - size) \div PageSize) * PageSize

(* download(file): everything is erased before anything is written.          *)
EraseAndWrite(file, k) == Erase(file[k].at, file[k].size) \o Write(file[k].at, Data(k, file[k].size), FlashAlt)
EachAfterTheOther(file) == FlattenSeq([k \in DOMAIN file |-> EraseAndWrite(file, k)])    \* mutant
DownloadFile(file) ==
    FlattenSeq([k \in DOMAIN file |-> Erase(file[k].at, file[k].size)])
    \o FlattenSeq([k \in DOMAIN file |-> Write(file[k].at, Data(k, file[k].size), FlashAlt)])

Transaction(kind, elements) == [kind |-> kind, elements |-> elements]

(* A file is read whole, with its targets and their elements, or is not      *)
(* valid: its size, a signature or its checksum is wrong.                    *)
FileTransactions == {Transaction("downloadFirmware", file) : file \in Files} \cup {Transaction("invalidFile", <<>>)}

Transactions ==
    FileTransactions
    \cup {Transaction("downloadWirelessStack", <<[at |-> 0, size |-> size]>>) : size \in ImageSizes}
    \cup {Transaction(kind, <<>>) : kind \in {"setOSBoot", "setRecoveryBoot", "downloadOptionBytes",
              "exitRecoveryMode", "wirelessStatus", "startFUS", "deleteWirelessStack", "upgradeWirelessStack",
              "checkWirelessStack"}}

Calls(t) ==
    Begin \o
    CASE t.kind = "downloadFirmware" -> (IF t.elements = <<>> THEN <<>> ELSE <<Must(DownloadFile(t.elements))>>) \o End
      [] t.kind = "invalidFile" -> Then("giveUp")
      [] t.kind = "downloadWirelessStack" -> ReadOptionBytes \o Then("place")
      [] t.kind \in {"setOSBoot", "setRecoveryBoot"} -> ReadOptionBytes \o Then("setValue")
      [] t.kind = "downloadOptionBytes" -> ReadOptionBytes \o Then("correct")
      [] t.kind = "exitRecoveryMode" -> Leave \o EndAnyway
      [] t.kind = "wirelessStatus" -> <<May(Upload(Origin, FlashAlt))>> \o Then("needed") \o End
      [] t.kind = "startFUS" -> <<May(Upload(Origin, FlashAlt))>> \o Then("needed") \o Then("startFUS")
      [] t.kind = "deleteWirelessStack" -> <<Raw>> \o End
      [] t.kind = "upgradeWirelessStack" -> <<Raw>> \o EndAnyway
      [] t.kind = "checkWirelessStack" ->
             <<May(Upload(Origin, FlashAlt)), May(Upload(Origin, FlashAlt))>> \o End

(* These end the transaction although it has failed; the others leave the    *)
(* interface claimed, by a handle that nobody has any more.                  *)
EndsAnyway(kind) == kind \in {"exitRecoveryMode", "startFUS", "upgradeWirelessStack", "downloadOptionBytes"}

-----------------------------------------------------------------------------

VARIABLES
    host,       \* the transaction under way: what it still has to do, and what it has read
    claimed,    \* who has claimed the interface: "none", "host", or a handle that was "lost"
    device,     \* the device
    faulted     \* something has gone wrong since the device came

dfuseVars == <<host, claimed, device, faulted>>

Old == <<0>>
Erased == <<1>>
NothingRead == [boot |-> "unknown", sfsa |-> 0, kept |-> FALSE]
SecureStarts == {n \in 1..MemoryEnd : Origin + PageSize * n \in PageStarts \cup {MemoryEnd}}
Options == [boot : {"os", "recovery"}, sfsa : SecureStarts, kept : {TRUE}]

Unchanged == [a \in Addresses |-> Old]
Idle == [job |-> Transaction("none", <<>>), todo |-> <<>>, tries |-> 0, read |-> NothingRead, result |-> "none",
         blind |-> FALSE]
Attached(options, memory) ==
    [state |-> "idle", alt |-> 0, pointer |-> Origin, cmd |-> Command("none", 0, <<>>),
     memory |-> memory, options |-> options]

DfuseInit ==
    /\ host = Idle
    /\ claimed = "none"
    /\ \E options \in Options : device = Attached(options, Unchanged)
    /\ faulted = FALSE

-----------------------------------------------------------------------------
(* What the device makes of a request *)

Answer(d, says) == [dev |-> d, says |-> says]
Stalls(d) == {Answer([d EXCEPT !.state = "error"], "nothing")}
Moves(d, state) == {Answer([d EXCEPT !.state = state], "ok")}
Says(d) == Answer(d, d.state)

InMemory(a, n) == a \in Addresses /\ a + n - 1 \in Addresses

(* The command is carried out when its status is asked for.                  *)
Executed(d) ==
    LET at == d.pointer + (d.cmd.at - 2) * TransferSize
        cells == at..at + Len(d.cmd.data) - 1
        error == [d EXCEPT !.state = "error"]
        done == [d EXCEPT !.state = "dnloadIdle"] IN
    CASE d.cmd.cmd = "pointer" -> [done EXCEPT !.pointer = d.cmd.at]
      [] d.cmd.cmd = "erase" ->
            IF d.cmd.at \in Addresses
            THEN [done EXCEPT !.memory = [a \in Addresses |-> IF PageOf(a) = PageOf(d.cmd.at) THEN Erased ELSE @[a]]]
            ELSE error
      [] d.cmd.cmd = "write" /\ d.alt = OptionBytesAlt ->            \* it restarts with them
            [d EXCEPT !.state = "gone", !.options = Head(d.cmd.data)]
      [] d.cmd.cmd = "write" /\ d.alt = FlashAlt ->
            IF InMemory(at, Len(d.cmd.data)) /\ \A a \in cells : d.memory[a] = Erased
            THEN [done EXCEPT !.memory = [a \in Addresses |-> IF a \in cells THEN d.cmd.data[a - at + 1] ELSE @[a]]]
            ELSE error
      [] d.cmd.cmd = "raw" -> done

GetStatus(d) ==
    CASE d.state = "dnloadSync" -> {Says([d EXCEPT !.state = "dnloadBusy"])}
      [] d.state = "dnloadBusy" -> {Says(d), Says(Executed(d))}
      [] d.state = "manifestSync" -> {Answer([d EXCEPT !.state = "gone"], "nothing")}
      [] OTHER -> {Says(d)}

Responses(d, item) ==
    IF d.state = "gone" THEN {Answer(d, "nothing")}
    ELSE
    CASE item.asks \in {"prepare", "isIdle", "poll", "anyStatus"} -> GetStatus(d)
      [] item.asks = "alt" -> {Answer([d EXCEPT !.alt = item.arg], "ok")}
      [] item.asks = "descriptor" -> {Answer(d, "ok")}
      [] item.asks = "dnload" ->
            IF d.state \in {"idle", "dnloadIdle"}
            THEN Moves([d EXCEPT !.cmd = item.arg], IF item.arg.cmd = "leave" THEN "manifestSync" ELSE "dnloadSync")
            ELSE Stalls(d)
      [] item.asks = "upload" -> IF d.state \in {"idle", "uploadIdle"} THEN Moves(d, "uploadIdle") ELSE Stalls(d)
      [] item.asks \in {"abort", "mayAbort"} -> IF d.state \in {"dnloadBusy", "error"} THEN Stalls(d) ELSE Moves(d, "idle")
      [] item.asks = "clear" -> IF d.state = "error" THEN Moves(d, "idle") ELSE Stalls(d)

(* The transfer fails before the device sees it or after, the device fails   *)
(* or goes away.                                                             *)
Faults(d, item) ==
    {Answer(d, "nothing"), Answer([d EXCEPT !.state = "gone"], "nothing")}
      \cup {Answer(r.dev, "nothing") : r \in Responses(d, item)}
      \cup (IF d.state = "dnloadBusy" /\ item.asks = "poll" THEN {Says([d EXCEPT !.state = "error"])} ELSE {})

-----------------------------------------------------------------------------
(* The host *)

Busy == host.todo # <<>>
Due == Head(Head(host.todo).items)
Instead(items) == <<[Head(host.todo) EXCEPT !.items = items \o Tail(@)]>> \o Tail(host.todo)
Rest == IF Len(Head(host.todo).items) = 1 THEN Tail(host.todo) ELSE Instead(<<>>)

Proceed(todo) ==
    [host EXCEPT !.todo = todo, !.tries = 0,
                 !.result = IF todo = <<>> /\ @ = "running" THEN "ok" ELSE @]
CallFails ==
    IF Head(host.todo).must
    THEN [host EXCEPT !.todo = IF EndsAnyway(host.job.kind) THEN EndAnyway ELSE <<>>, !.tries = 0, !.result = "failed"]
    ELSE Proceed(Tail(host.todo))

(* prepare() after its status.  One that could not be had counts as an error. *)
PrepareOnErrorOnly(state) ==                                            \* mutant
    IF state \in {"nothing", "error"} THEN Instead(<<Item("clear", 0)>>) ELSE Rest
AfterPrepare(state) ==
    CASE state \in {"nothing", "error"} -> Instead(<<Item("clear", 0)>>)
      [] state = "idle" -> Rest
      [] OTHER -> Instead(Abort)

(* What the host makes of the answer to its last try.                        *)
After(says) ==
    CASE Due.asks = "prepare" -> Proceed(AfterPrepare(says))
      [] Due.asks = "isIdle" -> IF says = "idle" THEN Proceed(Rest) ELSE CallFails
      [] Due.asks = "mayAbort" -> Proceed(IF says = "nothing" THEN Rest ELSE Instead(<<Item("anyStatus", 0)>>))
      [] Due.asks = "anyStatus" -> Proceed(Rest)
      [] Due.asks = "poll" ->
            IF says \in {"nothing", "error"} THEN CallFails
            ELSE IF says \in Due.arg THEN [host EXCEPT !.tries = 0] ELSE Proceed(Rest)
      [] Due.asks = "upload" -> IF says = "nothing" THEN CallFails ELSE [Proceed(Rest) EXCEPT !.read = device.options]
      [] OTHER -> IF says = "nothing" THEN CallFails ELSE Proceed(Rest)

Takes(r) ==
    /\ device' = r.dev
    /\ host' = IF r.says = "nothing" /\ host.tries + 1 < RetryCount /\ Due.asks # "descriptor"
               THEN [host EXCEPT !.tries = @ + 1]
               ELSE After(r.says)

LocalItems == {"claim", "release", "giveUp", "needed", "place", "setValue", "correct", "startFUS"}

Transfer ==
    /\ Busy /\ Due.asks \notin LocalItems
    /\ \/ \E r \in Responses(device, Due) : Takes(r) /\ UNCHANGED faulted
       \/ device.state # "gone" /\ \E r \in Faults(device, Due) : Takes(r) /\ faulted' = TRUE
    /\ UNCHANGED claimed

(* beginTransaction() and endTransaction() *)
Claim ==
    /\ Busy /\ Due.asks = "claim"
    /\ \/ /\ device.state # "gone" /\ claimed = "none"
          /\ claimed' = "host" /\ host' = Proceed(Rest) /\ UNCHANGED faulted
       \/ /\ device.state = "gone" \/ claimed = "lost"
          /\ host' = CallFails /\ UNCHANGED <<claimed, faulted>>
    /\ UNCHANGED device

Release ==
    /\ Busy /\ Due.asks = "release"
    /\ claimed' = IF claimed = "host" THEN "none" ELSE claimed
    /\ host' = IF device.state = "gone" THEN CallFails ELSE Proceed(Rest)
    /\ UNCHANGED <<device, faulted>>

(* What depends on what was read.                                            *)
WroteElsewhere(at) ==
    LET size == host.job.elements[1].size IN
    [Proceed(<<Must(Erase(at, size) \o Write(at, Data(1, size), FlashAlt))>> \o End)
        EXCEPT !.job.elements[1].at = at]
BootOption(kind) == IF kind = "setRecoveryBoot" THEN "recovery" ELSE "os"
Corrected == [host.read EXCEPT !.boot = BootOption(host.job.kind)]

Local ==
    /\ Busy
    /\ \/ Due.asks = "giveUp" /\ host' = CallFails
       \/ /\ Due.asks \in {"needed", "place", "setValue"}
          /\ host.read = NothingRead
          /\ host' = CallFails
       \/ /\ Due.asks = "needed" /\ host.read # NothingRead
          /\ host' = Proceed(Rest)
       \/ /\ Due.asks = "setValue" /\ host.read # NothingRead
          /\ host' = Proceed(WriteOptionBytes(Corrected) \o EndAnyway)
       \/ /\ Due.asks = "correct"
          /\ host' = [Proceed((IF host.read = Corrected THEN Leave ELSE WriteOptionBytes(Corrected)) \o EndAnyway)
                         EXCEPT !.blind = @ \/ host.read = NothingRead]
       \/ /\ Due.asks = "startFUS"
          /\ host' \in {Proceed(Leave \o EndAnyway), Proceed(<<May(Upload(Origin, FlashAlt))>> \o EndAnyway), CallFails}
    /\ UNCHANGED <<claimed, device, faulted>>

(* Where the memory begins is read from the string descriptor, once, and     *)
(* nobody looks whether it could be read: if not, the variable holds any     *)
(* value, and the stack is placed at whatever page that gives, or beyond.    *)
Anywhere == {PageSize * n : n \in 0..(MemoryEnd \div PageSize)}
Place ==
    /\ Busy /\ Due.asks = "place" /\ host.read # NothingRead
    /\ \/ /\ device.state # "gone"
          /\ host' = WroteElsewhere(TargetAddress(host.job.elements[1].size, host.read.sfsa))
          /\ UNCHANGED faulted
       \/ \E at \in Anywhere : host' = WroteElsewhere(at) /\ faulted' = TRUE
    /\ UNCHANGED <<claimed, device>>

(* What the device holds when a transaction begins is what it is to keep.    *)
Start ==
    /\ ~Busy /\ device.state \notin {"gone", "dnloadBusy"}
    /\ \E t \in Transactions :
          host' = [Idle EXCEPT !.job = t, !.todo = Calls(t), !.result = "running", !.blind = host.blind]
    /\ claimed' = IF claimed = "host" THEN "lost" ELSE claimed
    /\ device' = [device EXCEPT !.memory = Unchanged]
    /\ UNCHANGED faulted

(* Between two transactions the device ends what it is busy with, and may    *)
(* restart.                                                                  *)
DeviceSettles ==
    /\ ~Busy /\ device.state = "dnloadBusy"
    /\ device' = Executed(device)
    /\ UNCHANGED <<host, claimed, faulted>>
Disconnects ==
    /\ ~Busy /\ device.state # "gone"
    /\ device' = [device EXCEPT !.state = "gone"]
    /\ UNCHANGED <<host, claimed, faulted>>
Reconnects ==
    /\ ~Busy /\ device.state = "gone"
    /\ device' = Attached([device.options EXCEPT !.kept = TRUE], Unchanged)
    /\ claimed' = "none" /\ faulted' = FALSE
    /\ host' = Idle

DfuseNext == Start \/ Transfer \/ Claim \/ Release \/ Local \/ Place \/ DeviceSettles \/ Disconnects \/ Reconnects

DfuseSpec == DfuseInit /\ [][DfuseNext]_dfuseVars

-----------------------------------------------------------------------------
(* Properties *)

Writes == host.job.kind \in {"downloadFirmware", "downloadWirelessStack"}
Cells(element) == element.at..element.at + element.size - 1
Touched(element) == {element.at} \cup Cells(element)

(* When a download is reported as done every element of the file is in       *)
(* memory, whole and each block in its place, also after transfers that were *)
(* lost or repeated, and where two elements share a page.                    *)
SuccessMeansWritten ==
    Writes /\ host.result = "ok" =>
        \A k \in DOMAIN host.job.elements :
            LET element == host.job.elements[k] IN
            \A a \in Cells(element) : device.memory[a] = <<k, a - element.at + 1>>

(* Whatever fails and wherever it ends, a transaction alters no page that    *)
(* its elements have no part in, and no option byte but the one it is about, *)
(* unless the option bytes could not be read before they were corrected.  An *)
(* element of no words still has the page erased where it begins.  A stack   *)
(* is kept out of the secure area, unless it went astray: its address was    *)
(* worked out from a descriptor that could not be read (see Place).          *)
Astray == host.job.elements[1].at # TargetAddress(host.job.elements[1].size, device.options.sfsa)
NothingElseTouched ==
    /\ \A a \in Addresses :
          device.memory[a] # Old =>
              Writes /\ \E k \in DOMAIN host.job.elements :
                            \E b \in Touched(host.job.elements[k]) : PageOf(a) = PageOf(b)
    /\ host.job.kind = "downloadWirelessStack" /\ ~Astray => \A a \in Addresses :
          device.memory[a] # Old => a < Origin + PageSize * device.options.sfsa
    /\ ~device.options.kept => host.blind

(* As long as nothing has gone wrong since the device came the host asks it  *)
(* for nothing it has to refuse, in whatever state the last transaction left *)
(* it, and every transaction ends as it should - unless one that failed (its *)
(* file was not valid, say) has left the interface claimed for good.  No     *)
(* stack goes astray then.                                                   *)
Feasible ==
    /\ host.job.kind \notin {"invalidFile", "startFUS"}
    /\ host.job.kind = "downloadWirelessStack" => TargetAddress(host.job.elements[1].size, device.options.sfsa) >= Origin
FaultlessSucceeds ==
    ~faulted =>
        /\ device.state # "error"
        /\ host.result = "failed" => ~Feasible \/ claimed = "lost"
        /\ host.result = "ok" /\ host.job.kind \in {"setOSBoot", "setRecoveryBoot", "downloadOptionBytes"} =>
              device.options.boot = BootOption(host.job.kind)
        /\ host.result = "ok" /\ host.job.kind = "downloadWirelessStack" => ~Astray

=============================================================================
