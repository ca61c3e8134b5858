--------------------------- MODULE ProtobufSession ---------------------------
(***************************************************************************)
(* The RPC session of one Flipper Zero (src/backend/flipperzero/           *)
(* protobufsession.cpp) with the operations it runs (rpc/                  *)
(* abstractprotobufoperation.cpp, abstractoperation.cpp).                  *)
(*                                                                         *)
(* All of it lives in one thread: an action is one slot run by the event   *)
(* loop.  QTimer::singleShot(0, ...) is Append(posted, event), and the     *)
(* loop runs the posted events in the order in which they were posted.     *)
(* Serial port signals, the operations' 30 s timers, the callers and the   *)
(* deferred deletions (deleteLater) may come between any two of them.      *)
(*                                                                         *)
(* An operation is named by the id that getAndIncrementCounter() gave it;  *)
(* 0, which is never given, stands for the null pointer.                   *)
(***************************************************************************)
EXTENDS Naturals, Sequences

CONSTANTS
    CounterMax,     \* the largest value of the counter (UINT32_MAX in the code)
    Replied,        \* the kinds of operation the firmware sends an answer to
    MaxQueue,       \* bound: callers queue no more operations than this
    MaxPosted,      \* bound: nothing but the loop moves while so many events are posted
    MaxReceived     \* bound: unprocessed messages in m_receivedData

Kinds == {"request",    \* finishes on the last part of the device's answer
          "oneWay",     \* encodeRequest() calls finishLater(): reboot, factory reset, frame
          "local"}      \* begin() fails (a file that cannot be opened)

ASSUME CounterAssumption == CounterMax \in Nat \ {0}
ASSUME RepliedAssumption == Replied \subseteq Kinds
ASSUME BoundsAssumption == MaxQueue \in Nat /\ MaxPosted \in Nat /\ MaxReceived \in Nat

Ids == 1..CounterMax
NoOp == 0
Broadcast == 0                       \* the message id of unsolicited messages
SessionStates == {"Starting", "Idle", "Running", "Stopped"}
Phases == {"free", "ready", "started", "finished"}
Ops == [phase : Phases, kind : Kinds, failed : BOOLEAN, doomed : BOOLEAN]
Events == [slot : {"processQueue", "doStopSession", "readyRead"}, op : {NoOp}]
              \cup [slot : {"finish"}, op : Ids]
Responses == [id : Ids \cup {Broadcast}, verdict : {"next", "last", "error"}]
Extras == {<<>>, <<[id |-> Broadcast, verdict |-> "last"]>>}    \* behind it in the port's buffer

VARIABLES
    sessionState,   \* m_sessionState
    isError,        \* Failable: error() # NoError
    plugin,         \* m_plugin # nullptr
    port,           \* m_serialPort: "null", "open", or "dangling" after deleteLater()
    connected,      \* the port's signals are connected to the session
    helpers,        \* SerialInitHelpers still running
    counter,        \* m_counter
    queue,          \* m_queue
    current,        \* m_currentOperation
    op,             \* the operation objects; doomed: deleteLater() was called
    posted,         \* what singleShot(0) posted to the session and its operations
    received,       \* m_receivedData, as whole messages
    owed,           \* requests the device has yet to answer
    fault,          \* a null or dangling pointer was used: the process is gone
    dirtyStop       \* history: a doStopSession() ran with work outstanding

opVars == <<queue, current, op>>
linkVars == <<plugin, port, connected, helpers>>
vars == <<sessionState, isError, linkVars, counter, opVars, posted, received, owed, fault, dirtyStop>>

NoObject == [phase |-> "free", kind |-> "request", failed |-> FALSE, doomed |-> FALSE]
NewOperation(kind) == [phase |-> "ready", kind |-> kind, failed |-> FALSE, doomed |-> FALSE]
Event(slot) == [slot |-> slot, op |-> NoOp]
FinishEvent(o) == [slot |-> "finish", op |-> o]
Pending(slot) == \E i \in DOMAIN posted : posted[i].slot = slot
Queued == {queue[i] : i \in DOMAIN queue}

IsSessionUp == sessionState \in {"Idle", "Running"}

(* QTimer::singleShot(0, this, &ProtobufSession::processQueue)              *)
PostNothing(events) == events                                         \* mutant
PostProcessQueue(events) == Append(events, Event("processQueue"))

TypeOK ==
    /\ sessionState \in SessionStates
    /\ isError \in BOOLEAN
    /\ plugin \in BOOLEAN
    /\ port \in {"null", "open", "dangling"}
    /\ connected \in BOOLEAN
    /\ helpers \in Nat
    /\ counter \in Ids \cup {0}
    /\ queue \in Seq(Ids)
    /\ current \in Ids \cup {NoOp}
    /\ op \in [Ids -> Ops]
    /\ posted \in Seq(Events)
    /\ received \in Seq(Responses)
    /\ owed \subseteq Ids
    /\ fault \in BOOLEAN
    /\ dirtyStop \in BOOLEAN

Init ==
    /\ sessionState = "Stopped"
    /\ isError = FALSE
    /\ plugin = FALSE
    /\ port = "null"
    /\ connected = FALSE
    /\ helpers = 0
    /\ counter = 0
    /\ queue = <<>>
    /\ current = NoOp
    /\ op = [i \in Ids |-> NoObject]
    /\ posted = <<>>
    /\ received = <<>>
    /\ owed = {}
    /\ fault = FALSE
    /\ dirtyStop = FALSE

-----------------------------------------------------------------------------
(* Callers *)

Increment(c) == IF c = CounterMax THEN 0 ELSE c + 1     \* uint32_t ++c

UncheckedCounter == Increment(counter)                                \* mutant
GetAndIncrementCounter ==
    LET c == Increment(counter) IN IF c = Broadcast THEN Increment(c) ELSE c

(* Of 2^32 - 1 ids the one given next is never still in use.               *)
Fresh(id) ==
    /\ id \notin {i \in Ids : op[i].phase # "free"}
    /\ id \notin owed
    /\ \A i \in DOMAIN posted : posted[i].op # id
    /\ \A i \in DOMAIN received : received[i].id # id

(* enqueueOperation() has to wake up an idle session only.                  *)
WakesAnySession == IsSessionUp                                        \* mutant
WakesSession == sessionState = "Idle"

QueueJoinedBy(id) == Append(queue, id)

(* rebootToOS(), storageRead(), ...: create an operation and queue it.     *)
EnqueueOperation(kind) ==
    LET id == GetAndIncrementCounter IN
    /\ ~fault
    /\ Len(queue) < MaxQueue
    /\ Len(posted) < MaxPosted
    /\ Fresh(id)
    /\ counter' = id
    /\ op' = [op EXCEPT ![id] = NewOperation(kind)]
    /\ queue' = QueueJoinedBy(id)
    /\ IF WakesSession
       THEN posted' = PostProcessQueue(posted) /\ sessionState' = "Running"
       ELSE UNCHANGED <<posted, sessionState>>
    /\ UNCHANGED <<isError, linkVars, current, received, owed, fault, dirtyStop>>

(* loadProtobufPlugin() fails: no plugin for the device's protocol version. *)
StartSession(pluginLoads) ==
    /\ ~fault
    /\ sessionState = "Stopped"
    /\ helpers < 2
    /\ received' = <<>>
    /\ isError' = ~pluginLoads
    /\ plugin' = (pluginLoads \/ plugin)
    /\ sessionState' = IF pluginLoads THEN "Starting" ELSE "Stopped"
    /\ helpers' = IF pluginLoads THEN helpers + 1 ELSE helpers
    /\ UNCHANGED <<port, connected, counter, opVars, posted, owed, fault, dirtyStop>>

StopSession ==
    /\ ~fault
    /\ IsSessionUp
    /\ Len(posted) < MaxPosted
    /\ posted' = Append(posted, Event("doStopSession"))
    /\ UNCHANGED <<sessionState, isError, linkVars, counter, opVars, received, owed, fault, dirtyStop>>

-----------------------------------------------------------------------------
(* Finishing an operation *)

DeleteLater(ops, doomed) ==
    [i \in Ids |-> IF i \in doomed THEN [ops[i] EXCEPT !.doomed = TRUE] ELSE ops[i]]

(* AbstractOperation::finish() of o, which runs onCurrentOperationFinished() *)
(* at once.  That slot looks at m_currentOperation, whoever emitted; ops is  *)
(* op as the caller left it, before and after the events it leaves posted    *)
(* ahead of and posts behind those of the slot.                              *)
Finish(o, ops, before, after) ==
    LET finished == [ops EXCEPT ![o].phase = "finished"]
        dropped == IF finished[current].failed THEN Queued ELSE {}
    IN IF current = NoOp
       THEN /\ fault' = TRUE
            /\ op' = finished
            /\ posted' = before
            /\ UNCHANGED <<queue, current>>
       ELSE /\ queue' = IF finished[current].failed THEN <<>> ELSE queue
            /\ current' = NoOp
            /\ op' = DeleteLater(finished, dropped \cup {current})
            /\ posted' = PostProcessQueue(before) \o after
            /\ UNCHANGED fault

Failed(o) == [op EXCEPT ![o].failed = TRUE]             \* finishWithError()

(* m_timeoutTimer runs from start() to finish().                            *)
TimerNeverStops(o) == op[o].phase \in {"started", "finished"}          \* mutant
TimerNeverStarts(o) == FALSE                                          \* mutant
TimerRuns(o) ==
    /\ op[o].phase = "started"
    /\ ~op[o].doomed
    /\ \A i \in DOMAIN posted : posted[i] # FinishEvent(o)     \* due in 0 s, not in 30

(* onOperationTimeout(): nothing was heard of a started operation for 30 s. *)
Timeout(o) ==
    /\ ~fault
    /\ TimerRuns(o)
    /\ Finish(o, Failed(o), posted, <<>>)
    /\ UNCHANGED <<sessionState, isError, linkVars, counter, received, owed, dirtyStop>>

(* The event loop carries out a deleteLater(). *)
Delete(o) ==
    /\ ~fault
    /\ op[o].doomed
    /\ op' = [op EXCEPT ![o] = NoObject]
    /\ UNCHANGED <<sessionState, isError, linkVars, counter, queue, current, posted, received, owed,
                   fault, dirtyStop>>

-----------------------------------------------------------------------------
(* The serial port *)

(* A slot that uses the port when the object behind m_serialPort may be gone *)
(* may take the process down: the other outcome of each slot below.          *)
UseOfDanglingPort ==
    /\ port # "open"
    /\ fault' = TRUE
    /\ UNCHANGED <<sessionState, isError, linkVars, counter, opVars, posted, received, owed, dirtyStop>>

(* SerialInitHelper::finished. *)
HelperFinished(success) ==
    /\ ~fault
    /\ helpers > 0
    /\ Len(posted) < MaxPosted
    /\ helpers' = helpers - 1
    /\ IF success
       THEN /\ port' = "open"
            /\ connected' = TRUE
            /\ sessionState' = IF queue # <<>> THEN "Running" ELSE "Idle"
            /\ posted' = IF queue # <<>> THEN PostProcessQueue(posted) ELSE posted
            /\ UNCHANGED isError
       ELSE /\ isError' = TRUE
            /\ sessionState' = "Stopped"
            /\ UNCHANGED <<port, connected, posted>>
    /\ UNCHANGED <<plugin, counter, opVars, received, owed, fault, dirtyStop>>

OnSerialPortErrorOccured ==
    /\ ~fault
    /\ connected
    /\ Len(posted) < MaxPosted
    /\ connected' = FALSE
    /\ posted' = IF IsSessionUp THEN Append(posted, Event("doStopSession")) ELSE posted
    /\ UNCHANGED <<sessionState, isError, plugin, port, helpers, counter, opVars, received, owed,
                   fault, dirtyStop>>

(* onSerialPortReadyRead() with data buffered and events posted: one message *)
(* is taken, and the slot is posted again for what is left.                  *)
ReadyRead(data, events) ==
    /\ UNCHANGED <<sessionState, isError, port, connected, helpers, counter, dirtyStop>>
    /\ IF ~IsSessionUp \/ data = <<>>
       THEN /\ received' = IF IsSessionUp THEN data ELSE received
            /\ posted' = events
            /\ UNCHANGED <<plugin, opVars, fault>>
       ELSE LET response == Head(data)
                again == IF Tail(data) = <<>> THEN <<>> ELSE <<Event("readyRead")>>
                matched == current # NoOp /\ response.id = current
            IN /\ received' = Tail(data)
               /\ plugin' = TRUE                    \* loaded again if it was unloaded
               /\ CASE matched /\ response.verdict = "last"  -> Finish(current, op, events, again)
                    [] matched /\ response.verdict = "error" -> Finish(current, Failed(current), events, again)
                    [] OTHER -> posted' = events \o again /\ UNCHANGED <<opVars, fault>>

(* The device answers a request, or sends a message of its own: the port     *)
(* emits readyRead() with it and, perhaps, a second message in the buffer.   *)
DeviceSends(response, more) ==
    /\ ~fault
    /\ connected
    /\ Len(posted) < MaxPosted
    /\ response.id \in owed \/ (response.id = Broadcast /\ response.verdict = "last")
    /\ Len(received) + Len(more) < MaxReceived
    /\ owed' = IF response.verdict = "next" THEN owed ELSE owed \ {response.id}
    /\ ReadyRead((received \o <<response>>) \o more, posted)

-----------------------------------------------------------------------------
(* The posted slots; events are those that stay posted *)

(* writeToPort(): encodeRequest() of the operation o just started, write(),  *)
(* flush().                                                                  *)
WriteToPort(o, events) ==
    LET finishLater == IF op[o].kind = "oneWay" THEN <<FinishEvent(o)>> ELSE <<>>
        stopSession == IF IsSessionUp THEN <<Event("doStopSession")>> ELSE <<>>
    IN \/ /\ ~plugin
          /\ posted' = events
          /\ UNCHANGED <<isError, owed>>
       \/ /\ plugin                                  \* written
          /\ posted' = events \o finishLater
          /\ owed' = IF op[o].kind \in Replied THEN owed \cup {o} ELSE owed
          /\ UNCHANGED isError
       \/ /\ plugin                                  \* short write: "Serial buffer overflow"
          /\ posted' = events \o finishLater
          /\ UNCHANGED <<isError, owed>>
       \/ /\ plugin                                  \* write() or flush() failed
          /\ posted' = (events \o finishLater) \o stopSession
          /\ isError' = TRUE
          /\ UNCHANGED owed

ProcessQueue(events) ==
    /\ UNCHANGED <<linkVars, counter, received, fault, dirtyStop>>
    /\ IF queue = <<>>
       THEN /\ sessionState' = "Idle"
            /\ posted' = events
            /\ UNCHANGED <<isError, opVars, owed>>
       ELSE LET o == Head(queue) IN
            /\ current' = o
            /\ queue' = Tail(queue)
            /\ UNCHANGED sessionState
            /\ IF op[o].kind = "local"
               THEN /\ op' = Failed(o)                \* begin() failed: finishLater()
                    /\ posted' = Append(events, FinishEvent(o))
                    /\ UNCHANGED <<isError, owed>>
               ELSE /\ op' = [op EXCEPT ![o].phase = "started"]
                    /\ WriteToPort(o, events)

(* Nothing queued, running or posted: what the code takes for granted when   *)
(* it stops a session.                                                       *)
Quiet(events) ==
    /\ sessionState = "Idle"
    /\ current = NoOp
    /\ queue = <<>>
    /\ \A i \in DOMAIN events : events[i].slot = "finish"

PortLeftOpen == port                                                  \* mutant
PortClosed == IF port = "null" THEN "null" ELSE "dangling"

DoStopSession(events) ==
    /\ IF current = NoOp
       THEN posted' = events /\ UNCHANGED <<opVars, fault>>
       ELSE Finish(current, Failed(current), events, <<>>)         \* abort()
    /\ port' = PortClosed
    /\ connected' = FALSE
    /\ plugin' = FALSE
    /\ sessionState' = "Stopped"
    /\ dirtyStop' = (dirtyStop \/ ~Quiet(events))
    /\ UNCHANGED <<isError, helpers, counter, received, owed>>

(* AbstractOperation::finish() posted by finishLater(): it is discarded with *)
(* an operation that is gone, and emits again for one that has finished.     *)
FinishLater(o, events) ==
    /\ IF op[o].phase = "free"
       THEN posted' = events /\ UNCHANGED <<opVars, fault>>
       ELSE Finish(o, op, events, <<>>)
    /\ UNCHANGED <<sessionState, isError, linkVars, counter, received, owed, dirtyStop>>

(* The event loop runs the event that was posted first.                      *)
Dispatch ==
    /\ ~fault
    /\ posted # <<>>
    /\ LET slot == Head(posted).slot IN
       \/ slot = "processQueue" /\ ProcessQueue(Tail(posted))
       \/ slot = "doStopSession" /\ DoStopSession(Tail(posted))
       \/ slot = "readyRead" /\ ReadyRead(received, Tail(posted)) /\ UNCHANGED owed
       \/ slot = "finish" /\ FinishLater(Head(posted).op, Tail(posted))
       \/ /\ \/ slot = "readyRead"
             \/ slot = "doStopSession" /\ port # "null"
             \/ slot = "processQueue" /\ queue # <<>> /\ plugin
          /\ UseOfDanglingPort

-----------------------------------------------------------------------------

Callers ==
    \/ \E kind \in Kinds : EnqueueOperation(kind)
    \/ \E pluginLoads \in BOOLEAN : StartSession(pluginLoads)
    \/ StopSession

Device ==
    \/ \E success \in BOOLEAN : HelperFinished(success)
    \/ OnSerialPortErrorOccured
    \/ \E response \in Responses, more \in Extras : DeviceSends(response, more)

Next ==
    \/ Callers
    \/ Device
    \/ Dispatch
    \/ \E o \in Ids : Timeout(o) \/ Delete(o)

Spec == Init /\ [][Next]_vars

(* feedResponse() restarts the timer of the operation o with each part of    *)
(* the answer that announces another one.                                    *)
RestartTimeout(o) ==
    /\ TimerRuns(o)
    /\ current = o
    /\ \E more \in Extras : DeviceSends([id |-> o, verdict |-> "next"], more)

(* The event loop keeps running, so posted events and deferred deletions get *)
(* their turn, and a timer that runs ends or is started anew; a              *)
(* SerialInitHelper gives up after 20 tries.  Nothing makes a device that    *)
(* sends part after part come to the last one.                               *)
FairSpec ==
    /\ Spec
    /\ WF_vars(Dispatch)
    /\ WF_vars(\E success \in BOOLEAN : HelperFinished(success))
    /\ \A o \in Ids : WF_vars(Timeout(o) \/ RestartTimeout(o)) /\ WF_vars(Delete(o))

-----------------------------------------------------------------------------
(* Properties of every session *)

(* A session that says it is running has an operation under way or is about  *)
(* to look at its queue, and an idle one has nothing queued: no operation is *)
(* forgotten in m_queue of a session that is up.                             *)
NeverStalls ==
    /\ sessionState = "Idle" => queue = <<>>
    /\ sessionState = "Running" /\ ~fault => current # NoOp \/ Pending("processQueue")

(* Operations are run in the order in which they were queued: the current    *)
(* one and the queued ones are the latest ids, in sequence, even across the  *)
(* wrap of the counter and the clearing of the queue by an error.            *)
Successor(i) == IF Increment(i) = Broadcast THEN Increment(Increment(i)) ELSE Increment(i)
InOrder ==
    LET line == IF current = NoOp THEN queue ELSE <<current>> \o queue IN
    /\ \A i \in 1..(Len(line) - 1) : line[i + 1] = Successor(line[i])
    /\ line # <<>> => line[Len(line)] = counter

-----------------------------------------------------------------------------
(* Properties of a session that was never stopped with work outstanding *)

(* At most one operation is in flight, m_currentOperation, and it is over    *)
(* before processQueue() takes another: no request is sent and no response   *)
(* matched while another operation waits for its own.                        *)
OneAtATime ==
    ~dirtyStop =>
      /\ \A o \in Ids : op[o].phase = "started" => o = current
      /\ current # NoOp => ~Pending("processQueue")

(* A session that is up has its port and its plugin; a stopped one has given *)
(* the port up, so that the next start can open it.                          *)
PortMatchesState ==
    ~dirtyStop =>
      /\ IsSessionUp => port = "open" /\ plugin
      /\ sessionState = "Stopped" => port # "open" /\ ~connected

(* Losing the port or failing to write to it gets the session stopped.       *)
LostPortStops ==
    ~dirtyStop => (sessionState # "Starting" /\ port = "open" /\ (isError \/ ~connected) => Pending("doStopSession"))

(* Port, plugin and state of the session agree, also on the way to its stop. *)
PortIsSound == PortMatchesState /\ LostPortStops

(* No slot runs without the operation or the port it uses, in spite of late  *)
(* responses, timeouts and finishes that were posted before.                 *)
NeverFaults == ~dirtyStop => ~fault

(* Whatever is posted, in whatever order: no slot meets an operation that is *)
(* gone, or a second one in flight.                                          *)
SlotsAreSafe == OneAtATime /\ NeverFaults

-----------------------------------------------------------------------------
(* Refinement *)

(* Until it is stopped with work outstanding, a session executes operations  *)
(* one at a time, in the order in which they were queued, and an error gives *)
(* up those behind it: it does what a SerialExecutor does.                   *)
Executor == INSTANCE SerialExecutor
                WITH Job <- Ids, None <- NoOp, waiting <- queue, running <- current
ImplementsExecutor ==
    Executor!ExecutorInit /\ [][dirtyStop' \/ Executor!ExecutorNext]_Executor!executorVars

-----------------------------------------------------------------------------
(* Liveness, under FairSpec *)

(* Every operation that was started comes to an end, whatever the device     *)
(* answers or fails to answer, but for one whose answer never ends: each     *)
(* part that announces another starts its 30 s anew, and no limit is set on  *)
(* how many there are.                                                       *)
StartedOperationsEnd ==
    \A o \in Ids :
        \/ (op[o].phase = "started" /\ ~fault) ~> (op[o].phase # "started" \/ fault)
        \/ []<><<RestartTimeout(o)>>_vars

(* While the session stays up, whatever is queued gets its turn (or is       *)
(* dropped because an operation before it failed), unless one operation      *)
(* stays the current one for ever.                                           *)
QueuedOperationsLeave ==
    \A o \in Ids :
        \/ (o \in Queued /\ IsSessionUp) ~> (o \notin Queued \/ ~IsSessionUp \/ fault)
        \/ \E p \in Ids : <>[](current = p)

(* A session that lost its port ends up stopped.                             *)
LostPortIsStopped ==
    (~dirtyStop /\ IsSessionUp /\ ~connected) ~> (sessionState = "Stopped" \/ fault)

(* Nothing stays as it is for ever: no operation, in the queue or under way, *)
(* save behind or during an answer without end, and no session without a     *)
(* port.                                                                     *)
SessionSettles == StartedOperationsEnd /\ QueuedOperationsLeave /\ LostPortIsStopped

-----------------------------------------------------------------------------
(* What the code promises and does not keep *)

(* stopSession() is asynchronous "in order to give processQueue() time to    *)
(* finish its job", and doStopSession() reports "RPC session stopped         *)
(* successfully.": a stopped session stays stopped until it is started.      *)
StoppedUntilStarted ==
    [][sessionState = "Stopped" => sessionState' \in {"Stopped", "Starting"}]_vars

=============================================================================
