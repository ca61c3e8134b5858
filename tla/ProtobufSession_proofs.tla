------------------------ MODULE ProtobufSession_proofs ------------------------
(***************************************************************************)
(* Theorems about ProtobufSession, for every width of the counter and      *)
(* every bound on the environment.                                         *)
(***************************************************************************)
EXTENDS ProtobufSession, SequenceTheorems, TLAPS

(* deleteLater() on a set of operations leaves every one in its type. *)
LEMMA DoomedType ==
    ASSUME NEW ops \in [Ids -> Ops], NEW S PROVE DeleteLater(ops, S) \in [Ids -> Ops]
BY DEF DeleteLater, Ops

(* ops is op after one of its operations changed: the type of a finish.    *)
LEMMA FinishTypes ==
    ASSUME NEW o \in Ids, NEW ops \in [Ids -> Ops],
           NEW before \in Seq(Events), NEW after \in Seq(Events),
           TypeOK, Finish(o, ops, before, after)
    PROVE  /\ queue' \in Seq(Ids)
           /\ current' \in Ids \cup {NoOp}
           /\ op' \in [Ids -> Ops]
           /\ posted' \in Seq(Events)
           /\ fault' \in BOOLEAN
<1> DEFINE finished == [ops EXCEPT ![o].phase = "finished"]
<1>1. finished \in [Ids -> Ops]
  BY DEF Ops, Phases
<1>2. CASE current = NoOp
  BY <1>1, <1>2 DEF Finish, TypeOK
<1>3. CASE current # NoOp
  <2> DEFINE dropped == IF finished[current].failed THEN Queued ELSE {}
  <2>1. Event("processQueue") \in Events
    BY DEF Event, Events
  <2>2. /\ queue' = IF finished[current].failed THEN <<>> ELSE queue
        /\ current' = NoOp
        /\ op' = DeleteLater(finished, dropped \cup {current})
        /\ posted' = PostProcessQueue(before) \o after
        /\ UNCHANGED fault
    BY <1>3 DEF Finish
  <2>3. op' \in [Ids -> Ops]
    BY <1>1, <2>2, DoomedType
  <2>4. posted' \in Seq(Events)
    BY <2>1, <2>2 DEF PostProcessQueue
  <2>5. queue' \in Seq(Ids)
    BY <2>2 DEF TypeOK
  <2> QED
    BY <2>2, <2>3, <2>4, <2>5 DEF TypeOK
<1> QED
  BY <1>2, <1>3

(* An operation finished with an error stays in its type. *)
LEMMA FailedType == ASSUME TypeOK, NEW o \in Ids PROVE Failed(o) \in [Ids -> Ops]
BY DEF TypeOK, Failed, Ops

(* getAndIncrementCounter() skips 0 and wraps to a valid id.               *)
LEMMA CounterType == ASSUME TypeOK PROVE GetAndIncrementCounter \in Ids
BY CounterAssumption DEF TypeOK, GetAndIncrementCounter, Increment, Ids, Broadcast

(* Head and tail of a nonempty sequence stay in its set. *)
LEMMA HeadTailTypes ==
    ASSUME NEW S, NEW s \in Seq(S), s # <<>> PROVE Head(s) \in S /\ Tail(s) \in Seq(S)
BY HeadTailProperties

(* The events that carry no operation are events. *)
LEMMA EventTypes ==
    /\ Event("processQueue") \in Events
    /\ Event("doStopSession") \in Events
    /\ Event("readyRead") \in Events
    /\ <<>> \in Seq(Events)
BY DEF Event, Events

(* A message that the device sends on its own, behind another.             *)
LEMMA MoreTypes ==
    ASSUME NEW more \in Extras PROVE more \in Seq(Responses)
<1> DEFINE message == [id |-> Broadcast, verdict |-> "last"]
<1>1. message \in Responses
  BY DEF Responses
<1> HIDE DEF message
<1>2. <<>> \in Seq(Responses) /\ <<message>> \in Seq(Responses)
  BY <1>1
<1> QED
  BY <1>2 DEF message, Extras

(* onSerialPortReadyRead() keeps the types. *)
LEMMA ReadyReadTypes ==
    ASSUME TypeOK, NEW data \in Seq(Responses), NEW events \in Seq(Events),
           ReadyRead(data, events), owed' \subseteq Ids
    PROVE  TypeOK'
<1>1. /\ sessionState' \in SessionStates /\ isError' \in BOOLEAN
      /\ port' \in {"null", "open", "dangling"} /\ connected' \in BOOLEAN
      /\ helpers' \in Nat /\ counter' \in Ids \cup {0} /\ dirtyStop' \in BOOLEAN
  BY DEF TypeOK, ReadyRead
<1>2. CASE ~IsSessionUp \/ data = <<>>
  BY <1>1, <1>2 DEF TypeOK, opVars, ReadyRead
<1>3. CASE ~(~IsSessionUp \/ data = <<>>)
  <2> DEFINE again == IF Tail(data) = <<>> THEN <<>> ELSE <<Event("readyRead")>>
  <2>1. Tail(data) \in Seq(Responses)
    BY <1>3, HeadTailTypes
  <2>2. again \in Seq(Events)
    BY EventTypes
  <2>3. /\ received' = Tail(data)
        /\ plugin' = TRUE
        /\ \/ current # NoOp /\ Finish(current, op, events, again)
           \/ current # NoOp /\ Finish(current, Failed(current), events, again)
           \/ posted' = events \o again /\ UNCHANGED <<opVars, fault>>
    BY <1>3 DEF ReadyRead
  <2> HIDE DEF again
  <2>4. CASE current # NoOp /\ (Finish(current, op, events, again) \/ Finish(current, Failed(current), events, again))
    <3>1. current \in Ids /\ op \in [Ids -> Ops] /\ Failed(current) \in [Ids -> Ops]
      BY <2>4, FailedType DEF TypeOK
    <3>2. /\ queue' \in Seq(Ids) /\ current' \in Ids \cup {NoOp} /\ op' \in [Ids -> Ops]
          /\ posted' \in Seq(Events) /\ fault' \in BOOLEAN
      BY <2>2, <2>4, <3>1, FinishTypes
    <3> QED
      BY <1>1, <2>1, <2>3, <3>2 DEF TypeOK
  <2>5. CASE posted' = events \o again /\ UNCHANGED <<opVars, fault>>
    <3>1. posted' \in Seq(Events)
      BY <2>2, <2>5
    <3> QED
      BY <1>1, <2>1, <2>3, <2>5, <3>1 DEF TypeOK, opVars
  <2> QED
    BY <2>3, <2>4, <2>5
<1> QED
  BY <1>2, <1>3

(* processQueue() keeps the types. *)
LEMMA ProcessQueueTypes ==
    ASSUME TypeOK, NEW events \in Seq(Events), ProcessQueue(events)
    PROVE  TypeOK'
<1>1. /\ UNCHANGED <<linkVars, counter, received, fault, dirtyStop>>
  BY DEF ProcessQueue
<1>2. CASE queue = <<>>
  BY <1>1, <1>2 DEF ProcessQueue, TypeOK, linkVars, opVars, SessionStates
<1>3. CASE queue # <<>>
  <2> DEFINE o == Head(queue)
  <2>1. o \in Ids /\ Tail(queue) \in Seq(Ids)
    BY <1>3, HeadTailTypes DEF TypeOK
  <2>2. current' = o /\ queue' = Tail(queue) /\ UNCHANGED sessionState
    BY <1>3 DEF ProcessQueue
  <2>3. FinishEvent(o) \in Events
    BY <2>1 DEF FinishEvent, Events
  <2>4. op' \in [Ids -> Ops] /\ posted' \in Seq(Events) /\ isError' \in BOOLEAN /\ owed' \subseteq Ids
    <3>1. CASE op[o].kind = "local"
      <4>1. op' = Failed(o) /\ posted' = Append(events, FinishEvent(o)) /\ UNCHANGED <<isError, owed>>
        BY <1>3, <3>1 DEF ProcessQueue
      <4> QED
        BY <2>1, <2>3, <4>1, FailedType DEF TypeOK
    <3>2. CASE op[o].kind # "local"
      <4>1. op' = [op EXCEPT ![o].phase = "started"] /\ WriteToPort(o, events)
        BY <1>3, <3>2 DEF ProcessQueue
      <4>2. op' \in [Ids -> Ops]
        BY <2>1, <4>1 DEF TypeOK, Ops, Phases
      <4>3. posted' \in Seq(Events) /\ isError' \in BOOLEAN /\ owed' \subseteq Ids
        <5> DEFINE later == IF op[o].kind = "oneWay" THEN <<FinishEvent(o)>> ELSE <<>>
                   stop == IF IsSessionUp THEN <<Event("doStopSession")>> ELSE <<>>
        <5>1. later \in Seq(Events) /\ stop \in Seq(Events)
          BY <2>3, EventTypes
        <5>2. \/ posted' = events
              \/ posted' = events \o later
              \/ posted' = (events \o later) \o stop
          BY <4>1 DEF WriteToPort
        <5>3. posted' \in Seq(Events)
          <6> HIDE DEF later, stop
          <6>1. events \o later \in Seq(Events)
            BY <5>1, ConcatProperties
          <6> QED
            BY <5>1, <5>2, <6>1, ConcatProperties
        <5>4. isError' \in BOOLEAN /\ owed' \subseteq Ids
          BY <2>1, <4>1 DEF TypeOK, WriteToPort
        <5> QED
          BY <5>3, <5>4
      <4> QED
        BY <4>2, <4>3
    <3> QED
      BY <3>1, <3>2
  <2> QED
    BY <1>1, <2>1, <2>2, <2>4 DEF TypeOK, linkVars
<1> QED
  BY <1>2, <1>3

(* doStopSession() keeps the types. *)
LEMMA DoStopSessionTypes ==
    ASSUME TypeOK, NEW events \in Seq(Events), DoStopSession(events)
    PROVE  TypeOK'
<1>1. /\ sessionState' \in SessionStates /\ isError' \in BOOLEAN /\ plugin' \in BOOLEAN
      /\ port' \in {"null", "open", "dangling"} /\ connected' \in BOOLEAN
      /\ helpers' \in Nat /\ counter' \in Ids \cup {0} /\ dirtyStop' \in BOOLEAN
      /\ received' \in Seq(Responses) /\ owed' \subseteq Ids
  BY DEF TypeOK, DoStopSession, PortClosed, SessionStates
<1>2. CASE current = NoOp
  BY <1>1, <1>2 DEF TypeOK, DoStopSession, opVars
<1>3. CASE current # NoOp
  <2>1. Finish(current, Failed(current), events, <<>>)
    BY <1>3 DEF DoStopSession
  <2>2. current \in Ids /\ Failed(current) \in [Ids -> Ops]
    BY <1>3, FailedType DEF TypeOK
  <2>3. /\ queue' \in Seq(Ids) /\ current' \in Ids \cup {NoOp} /\ op' \in [Ids -> Ops]
        /\ posted' \in Seq(Events) /\ fault' \in BOOLEAN
    BY <2>1, <2>2, FinishTypes, EventTypes
  <2> QED
    BY <1>1, <2>3 DEF TypeOK
<1> QED
  BY <1>2, <1>3

(* The queued end of an operation keeps the types. *)
LEMMA FinishLaterTypes ==
    ASSUME TypeOK, NEW events \in Seq(Events), NEW o \in Ids, FinishLater(o, events)
    PROVE  TypeOK'
<1>1. UNCHANGED <<sessionState, isError, linkVars, counter, received, owed, dirtyStop>>
  BY DEF FinishLater
<1>2. CASE op[o].phase = "free"
  BY <1>1, <1>2 DEF FinishLater, TypeOK, opVars, linkVars
<1>3. CASE op[o].phase # "free"
  <2>1. /\ queue' \in Seq(Ids) /\ current' \in Ids \cup {NoOp} /\ op' \in [Ids -> Ops]
        /\ posted' \in Seq(Events) /\ fault' \in BOOLEAN
    BY <1>3, FinishTypes, EventTypes DEF FinishLater, TypeOK
  <2> QED
    BY <1>1, <2>1 DEF TypeOK, linkVars
<1> QED
  BY <1>2, <1>3

(* Any posted event keeps the types when it is dispatched. *)
LEMMA DispatchTypes == ASSUME TypeOK, Dispatch PROVE TypeOK'
<1> DEFINE event == Head(posted)
           events == Tail(posted)
<1>1. event \in Events /\ events \in Seq(Events)
  BY HeadTailTypes DEF Dispatch, TypeOK
<1>2. CASE event.slot = "processQueue" /\ ProcessQueue(events)
  BY <1>1, <1>2, ProcessQueueTypes
<1>3. CASE event.slot = "doStopSession" /\ DoStopSession(events)
  BY <1>1, <1>3, DoStopSessionTypes
<1>4. CASE event.slot = "readyRead" /\ ReadyRead(received, events) /\ UNCHANGED owed
  <2>1. received \in Seq(Responses) /\ owed' \subseteq Ids
    BY <1>4 DEF TypeOK
  <2> QED
    BY <1>1, <1>4, <2>1, ReadyReadTypes
<1>5. CASE event.slot = "finish" /\ FinishLater(event.op, events)
  <2>1. event.op \in Ids
    BY <1>1, <1>5 DEF Events
  <2> QED
    BY <1>1, <1>5, <2>1, FinishLaterTypes
<1>6. CASE UseOfDanglingPort
  BY <1>6 DEF UseOfDanglingPort, TypeOK, linkVars, opVars
<1> QED
  BY <1>2, <1>3, <1>4, <1>5, <1>6 DEF Dispatch

(* The types of the state variables are preserved by every step: no slot   *)
(* ever names an operation by the id that is reserved for broadcasts.      *)
THEOREM TypeCorrect == Spec => []TypeOK
<1>1. Init => TypeOK
  <2> SUFFICES ASSUME Init PROVE TypeOK
    OBVIOUS
  <2>1. NoObject \in Ops
    BY DEF NoObject, Ops, Phases, Kinds
  <2>2. op \in [Ids -> Ops]
    BY <2>1 DEF Init
  <2>3. queue \in Seq(Ids) /\ posted \in Seq(Events) /\ received \in Seq(Responses)
    BY DEF Init
  <2>4. sessionState \in SessionStates /\ counter \in Ids \cup {0} /\ current \in Ids \cup {NoOp}
    BY DEF Init, SessionStates
  <2> QED
    BY <2>2, <2>3, <2>4 DEF Init, TypeOK
<1>2. TypeOK /\ [Next]_vars => TypeOK'
  <2> SUFFICES ASSUME TypeOK, [Next]_vars PROVE TypeOK'
    OBVIOUS
  <2>1. CASE \E kind \in Kinds : EnqueueOperation(kind)
    <3> PICK kind \in Kinds : EnqueueOperation(kind)
      BY <2>1
    <3>1. counter' \in Ids /\ counter' = GetAndIncrementCounter
      BY CounterType DEF EnqueueOperation
    <3>2. NewOperation(kind) \in Ops
      BY DEF NewOperation, Ops, Phases
    <3>3. queue' \in Seq(Ids)
      BY <3>1 DEF EnqueueOperation, QueueJoinedBy, TypeOK
    <3>4. op' \in [Ids -> Ops]
      BY <3>1, <3>2 DEF EnqueueOperation, TypeOK
    <3>5. posted' \in Seq(Events) /\ sessionState' \in SessionStates
      <4>1. CASE WakesSession
        BY SMTT(20), ZenonT(30), <4>1, EventTypes DEF EnqueueOperation, TypeOK, PostProcessQueue, SessionStates
      <4>2. CASE ~WakesSession
        BY <4>2 DEF EnqueueOperation, TypeOK
      <4> QED
        BY <4>1, <4>2
    <3> QED
      BY <3>1, <3>3, <3>4, <3>5 DEF EnqueueOperation, TypeOK, linkVars
  <2>2. CASE \E pluginLoads \in BOOLEAN : StartSession(pluginLoads)
    BY <2>2 DEF StartSession, TypeOK, opVars, SessionStates
  <2>3. CASE StopSession
    BY <2>3, EventTypes DEF StopSession, TypeOK, opVars, linkVars
  <2>4. CASE \E success \in BOOLEAN : HelperFinished(success)
    <3> PICK success \in BOOLEAN : HelperFinished(success)
      BY <2>4
    <3>1. posted' \in Seq(Events)
      BY EventTypes DEF HelperFinished, PostProcessQueue, TypeOK
    <3>2. helpers' \in Nat
      BY DEF HelperFinished, TypeOK
    <3>3. /\ sessionState' \in SessionStates /\ isError' \in BOOLEAN /\ connected' \in BOOLEAN
          /\ port' \in {"null", "open", "dangling"}
      BY DEF HelperFinished, TypeOK, SessionStates
    <3> QED
      BY <3>1, <3>2, <3>3 DEF HelperFinished, TypeOK, opVars
  <2>5. CASE OnSerialPortErrorOccured
    <3>1. posted' \in Seq(Events)
      BY <2>5, EventTypes DEF OnSerialPortErrorOccured, TypeOK
    <3> QED
      BY <2>5, <3>1 DEF OnSerialPortErrorOccured, TypeOK, opVars
  <2>6. ASSUME NEW response \in Responses,
               NEW more \in Extras,
               DeviceSends(response, more)
        PROVE  TypeOK'
    <3>1. more \in Seq(Responses)
      BY MoreTypes
    <3>2. (received \o <<response>>) \o more \in Seq(Responses)
      BY <3>1 DEF TypeOK
    <3>3. owed' \subseteq Ids
      BY <2>6 DEF DeviceSends, TypeOK
    <3>4. ReadyRead((received \o <<response>>) \o more, posted) /\ posted \in Seq(Events)
      BY <2>6 DEF DeviceSends, TypeOK
    <3> QED
      BY <3>2, <3>3, <3>4, ReadyReadTypes
  <2>7. CASE Dispatch
    BY <2>7, DispatchTypes
  <2>8. ASSUME NEW o \in Ids, Timeout(o) PROVE TypeOK'
    <3>1. /\ queue' \in Seq(Ids) /\ current' \in Ids \cup {NoOp} /\ op' \in [Ids -> Ops]
          /\ posted' \in Seq(Events) /\ fault' \in BOOLEAN
      BY <2>8, FinishTypes, FailedType, EventTypes DEF Timeout, TypeOK
    <3> QED
      BY <2>8, <3>1 DEF Timeout, TypeOK, linkVars
  <2>9. ASSUME NEW o \in Ids, Delete(o) PROVE TypeOK'
    <3>1. NoObject \in Ops
      BY DEF NoObject, Ops, Phases, Kinds
    <3> QED
      BY <2>9, <3>1 DEF Delete, TypeOK, linkVars
  <2>10. CASE UNCHANGED vars
    BY <2>10 DEF vars, TypeOK, opVars, linkVars
  <2> QED
    BY <2>1, <2>2, <2>3, <2>4, <2>5, <2>6, <2>7, <2>8, <2>9, <2>10 DEF Next, Callers, Device
<1> QED
  BY <1>1, <1>2, PTL DEF Spec

-----------------------------------------------------------------------------
(* Posted events: which slots a sequence of them holds, and what taking the *)
(* first or posting another changes.                                       *)

None(events, slot) == \A i \in DOMAIN events : events[i].slot # slot
AtMostOne(events, slot) ==
    \A i, j \in DOMAIN events : events[i].slot = slot /\ events[j].slot = slot => i = j
FinishesOnly(events, o) == \A i \in DOMAIN events : events[i].slot = "finish" => events[i].op = o

(* The elements of a tail are those of the sequence, one place down. *)
LEMMA TailElements ==
    ASSUME NEW S, NEW s \in Seq(S), s # <<>>
    PROVE  /\ Tail(s) \in Seq(S)
           /\ \A i \in DOMAIN Tail(s) : i + 1 \in DOMAIN s /\ Tail(s)[i] = s[i + 1]
           /\ \A i \in DOMAIN s : i # 1 => i - 1 \in DOMAIN Tail(s)
           /\ 1 \in DOMAIN s /\ Head(s) = s[1]
BY HeadTailProperties

(* Appending an element to a sequence leaves the others where they were. *)
LEMMA AppendElements ==
    ASSUME NEW S, NEW s \in Seq(S), NEW e \in S
    PROVE  /\ Append(s, e) \in Seq(S)
           /\ DOMAIN Append(s, e) = DOMAIN s \cup {Len(s) + 1}
           /\ Len(s) + 1 \notin DOMAIN s
           /\ \A i \in DOMAIN s : Append(s, e)[i] = s[i]
           /\ Append(s, e)[Len(s) + 1] = e
BY AppendProperties

(* Concatenating one element is appending it; concatenating none changes nothing. *)
LEMMA ConcatOne ==
    ASSUME NEW S, NEW s \in Seq(S), NEW e \in S
    PROVE  s \o <<>> = s /\ s \o <<e>> = Append(s, e)
BY ConcatEmptySeq, AppendIsConcat

(* What the first event leaves of None, AtMostOne and FinishesOnly when it is taken. *)
LEMMA TailEvents ==
    ASSUME NEW events \in Seq(Events), events # <<>>, NEW slot
    PROVE  /\ None(events, slot) => None(Tail(events), slot)
           /\ AtMostOne(events, slot) => AtMostOne(Tail(events), slot)
           /\ AtMostOne(events, slot) /\ Head(events).slot = slot => None(Tail(events), slot)
           /\ None(Tail(events), slot) /\ Head(events).slot # slot => None(events, slot)
           /\ \A o : FinishesOnly(events, o) => FinishesOnly(Tail(events), o)
<1>1. /\ \A i \in DOMAIN Tail(events) : i + 1 \in DOMAIN events /\ Tail(events)[i] = events[i + 1]
      /\ \A i \in DOMAIN events : i # 1 => i - 1 \in DOMAIN Tail(events)
      /\ 1 \in DOMAIN events /\ Head(events) = events[1]
      /\ DOMAIN events \subseteq Nat /\ DOMAIN Tail(events) \subseteq Nat
  BY TailElements
<1>2. None(events, slot) => None(Tail(events), slot)
  BY <1>1 DEF None
<1>3. AtMostOne(events, slot) => AtMostOne(Tail(events), slot)
  BY <1>1 DEF AtMostOne
<1>4. AtMostOne(events, slot) /\ Head(events).slot = slot => None(Tail(events), slot)
  <2> SUFFICES ASSUME AtMostOne(events, slot), Head(events).slot = slot,
                      NEW i \in DOMAIN Tail(events), Tail(events)[i].slot = slot
               PROVE  FALSE
    BY DEF None
  <2>1. i + 1 \in DOMAIN events /\ events[i + 1].slot = slot /\ events[1].slot = slot /\ 1 \in DOMAIN events
    BY <1>1
  <2> QED
    BY <1>1, <2>1 DEF AtMostOne
<1>5. None(Tail(events), slot) /\ Head(events).slot # slot => None(events, slot)
  <2> SUFFICES ASSUME None(Tail(events), slot), Head(events).slot # slot,
                      NEW i \in DOMAIN events, events[i].slot = slot
               PROVE  FALSE
    BY DEF None
  <2>1. i # 1 /\ i - 1 \in DOMAIN Tail(events)
    BY <1>1
  <2>2. Tail(events)[i - 1] = events[i]
    BY <1>1, <2>1
  <2> QED
    BY <2>1, <2>2 DEF None
<1>6. \A o : FinishesOnly(events, o) => FinishesOnly(Tail(events), o)
  BY <1>1 DEF FinishesOnly
<1> QED
  BY <1>2, <1>3, <1>4, <1>5, <1>6

(* What one more event does to None, AtMostOne and FinishesOnly. *)
LEMMA AppendEvents ==
    ASSUME NEW events \in Seq(Events), NEW e \in Events, NEW slot
    PROVE  /\ None(Append(events, e), slot) <=> None(events, slot) /\ e.slot # slot
           /\ AtMostOne(events, slot) /\ e.slot # slot => AtMostOne(Append(events, e), slot)
           /\ None(events, slot) => AtMostOne(Append(events, e), slot)
           /\ \A o : FinishesOnly(events, o) /\ (e.slot = "finish" => e.op = o)
                     => FinishesOnly(Append(events, e), o)
BY AppendElements DEF None, AtMostOne, FinishesOnly

(* An event is pending exactly when it is not absent. *)
LEMMA PendingIsNotNone == ASSUME NEW slot PROVE Pending(slot) <=> ~None(posted, slot)
BY DEF Pending, None

-----------------------------------------------------------------------------
(* A session that is up looks at its queue: the argument needs no more than *)
(* the types.  Whoever clears m_currentOperation posts processQueue(), and  *)
(* only processQueue() takes that event away, leaving Running or an         *)
(* operation under way.                                                     *)

(* A finish either faults or leaves processQueue() posted.                  *)
LEMMA FinishPosts ==
    ASSUME NEW o \in Ids, NEW ops \in [Ids -> Ops], NEW before \in Seq(Events),
           NEW after \in {<<>>, <<Event("readyRead")>>}, Finish(o, ops, before, after)
    PROVE  queue' \in {queue, <<>>} /\ (fault' \/ ~None(posted', "processQueue"))
<1>1. CASE current = NoOp
  BY <1>1 DEF Finish
<1>2. CASE current # NoOp
  <2>1. posted' = PostProcessQueue(before) \o after /\ queue' \in {queue, <<>>}
    BY <1>2 DEF Finish
  <2>2. PostProcessQueue(before) \in Seq(Events)
    BY EventTypes DEF PostProcessQueue
  <2>3. ~None(PostProcessQueue(before), "processQueue")
    BY AppendEvents, EventTypes DEF PostProcessQueue, Event
  <2>4. PostProcessQueue(before) \o after \in {PostProcessQueue(before), Append(PostProcessQueue(before), Event("readyRead"))}
    BY <2>2, ConcatOne, EventTypes
  <2>5. ~None(Append(PostProcessQueue(before), Event("readyRead")), "processQueue")
    BY <2>2, <2>3, AppendEvents, EventTypes
  <2> QED
    BY <2>1, <2>3, <2>4, <2>5
<1> QED
  BY <1>1, <1>2

(* The slots that take no event but their own leave processQueue() posted.  *)
LEMMA ReadyReadStalls ==
    ASSUME TypeOK, NeverStalls, NEW data \in Seq(Responses), NEW events \in Seq(Events),
           ~None(posted, "processQueue") => ~None(events, "processQueue"),
           ~fault, ReadyRead(data, events)
    PROVE  NeverStalls'
<1>1. UNCHANGED sessionState
  BY DEF ReadyRead
<1>2. \/ posted' = events /\ UNCHANGED opVars
      \/ posted' = Append(events, Event("readyRead")) /\ UNCHANGED opVars
      \/ queue' \in {queue, <<>>} /\ (fault' \/ ~None(posted', "processQueue"))
  <2>1. CASE ~IsSessionUp \/ data = <<>>
    BY <2>1 DEF ReadyRead
  <2>2. CASE ~(~IsSessionUp \/ data = <<>>)
    <3> DEFINE again == IF Tail(data) = <<>> THEN <<>> ELSE <<Event("readyRead")>>
    <3>1. \/ current # NoOp /\ Finish(current, op, events, again)
          \/ current # NoOp /\ Finish(current, Failed(current), events, again)
          \/ posted' = events \o again /\ UNCHANGED <<opVars, fault>>
      BY <2>2 DEF ReadyRead
    <3>2. again \in {<<>>, <<Event("readyRead")>>}
      OBVIOUS
    <3> HIDE DEF again
    <3>3. events \o again \in {events, Append(events, Event("readyRead"))}
      BY <3>2, ConcatOne, EventTypes
    <3>4. current # NoOp => current \in Ids /\ op \in [Ids -> Ops] /\ Failed(current) \in [Ids -> Ops]
      BY FailedType DEF TypeOK
    <3>5. CASE current # NoOp /\ (Finish(current, op, events, again) \/ Finish(current, Failed(current), events, again))
      BY <3>2, <3>4, <3>5, FinishPosts
    <3>6. CASE posted' = events \o again /\ UNCHANGED <<opVars, fault>>
      BY <3>3, <3>6
    <3> QED
      BY <3>1, <3>5, <3>6
  <2> QED
    BY <2>1, <2>2
<1>3. ~None(events, "processQueue") => ~None(Append(events, Event("readyRead")), "processQueue")
  BY AppendEvents, EventTypes
<1>4. Pending("processQueue")' <=> ~None(posted', "processQueue")
  BY DEF Pending, None
<1> QED
  BY <1>1, <1>2, <1>3, <1>4, PendingIsNotNone DEF NeverStalls, opVars

(* Any posted event keeps NeverStalls when it is dispatched. *)
LEMMA DispatchStalls == ASSUME TypeOK, NeverStalls, Dispatch PROVE NeverStalls'
<1> DEFINE event == Head(posted)
           events == Tail(posted)
<1>1. event \in Events /\ events \in Seq(Events) /\ posted \in Seq(Events) /\ posted # <<>> /\ ~fault
  BY HeadTailTypes DEF Dispatch, TypeOK
<1>2. event.slot # "processQueue" /\ ~None(posted, "processQueue") => ~None(events, "processQueue")
  BY <1>1, TailEvents
<1>3. Pending("processQueue")' <=> ~None(posted', "processQueue")
  BY DEF Pending, None
<1> HIDE DEF event, events
<1>4. CASE event.slot = "processQueue" /\ ProcessQueue(events)
  <2>1. CASE queue = <<>>
    BY <1>4, <2>1 DEF ProcessQueue, NeverStalls, opVars
  <2>2. CASE queue # <<>>
    <3>1. current' = Head(queue) /\ UNCHANGED sessionState
      BY <1>4, <2>2 DEF ProcessQueue
    <3>2. current' \in Ids
      BY <2>2, <3>1, HeadTailTypes DEF TypeOK
    <3>3. current' # NoOp
      BY <3>2 DEF Ids, NoOp
    <3> QED
      BY <3>1, <3>3, <2>2 DEF NeverStalls
  <2> QED
    BY <2>1, <2>2
<1>5. CASE event.slot = "doStopSession" /\ DoStopSession(events)
  BY <1>5 DEF DoStopSession, NeverStalls
<1>6. CASE event.slot = "readyRead" /\ ReadyRead(received, events)
  BY <1>1, <1>2, <1>6, ReadyReadStalls DEF TypeOK
<1>7. CASE event.slot = "finish" /\ FinishLater(event.op, events)
  <2>1. UNCHANGED sessionState
    BY <1>7 DEF FinishLater
  <2>2. CASE posted' = events /\ UNCHANGED <<opVars, fault>>
    BY <1>2, <1>3, <1>7, <2>1, <2>2, PendingIsNotNone DEF NeverStalls, opVars
  <2>3. CASE Finish(event.op, op, events, <<>>)
    <3>1. event.op \in Ids /\ op \in [Ids -> Ops]
      BY <1>1, <1>7 DEF Events, TypeOK
    <3>2. queue' \in {queue, <<>>} /\ (fault' \/ ~None(posted', "processQueue"))
      BY <1>1, <2>3, <3>1, FinishPosts
    <3> QED
      BY <1>3, <2>1, <3>2 DEF NeverStalls, Finish
  <2> QED
    BY <1>7, <2>2, <2>3 DEF FinishLater
<1>8. CASE UseOfDanglingPort
  BY <1>8 DEF UseOfDanglingPort, NeverStalls, opVars
<1> QED
  BY <1>4, <1>5, <1>6, <1>7, <1>8 DEF Dispatch, event, events

(* No operation is forgotten: a running session has one under way or is     *)
(* about to look at m_queue, an idle one has nothing queued.                *)
THEOREM NoStall == Spec => []NeverStalls
<1>1. Init => NeverStalls
  BY DEF Init, NeverStalls
<1>2. TypeOK /\ NeverStalls /\ [Next]_vars => NeverStalls'
  <2> SUFFICES ASSUME TypeOK, NeverStalls, [Next]_vars PROVE NeverStalls'
    OBVIOUS
  <2>1. Pending("processQueue")' <=> ~None(posted', "processQueue")
    BY DEF Pending, None
  <2>2. posted \in Seq(Events) /\ ~None(PostProcessQueue(posted), "processQueue")
    BY AppendEvents, EventTypes DEF PostProcessQueue, Event, TypeOK
  <2>3. ~None(posted, "processQueue") => ~None(Append(posted, Event("doStopSession")), "processQueue")
    BY <2>2, AppendEvents, EventTypes
  <2>4. ASSUME NEW kind \in Kinds, EnqueueOperation(kind) PROVE NeverStalls'
    <3>1. CASE WakesSession
      BY <2>1, <2>2, <2>4, <3>1 DEF EnqueueOperation, NeverStalls
    <3>2. CASE ~WakesSession
      BY <2>1, <2>4, <3>2, PendingIsNotNone DEF EnqueueOperation, WakesSession, NeverStalls
    <3> QED
      BY <3>1, <3>2
  <2>5. CASE \E pluginLoads \in BOOLEAN : StartSession(pluginLoads)
    BY <2>5 DEF StartSession, NeverStalls, opVars
  <2>6. CASE StopSession
    BY <2>1, <2>3, <2>6, PendingIsNotNone DEF StopSession, NeverStalls, opVars
  <2>7. CASE \E success \in BOOLEAN : HelperFinished(success)
    BY <2>1, <2>2, <2>7 DEF HelperFinished, NeverStalls, opVars
  <2>8. CASE OnSerialPortErrorOccured
    BY <2>1, <2>3, <2>8, PendingIsNotNone DEF OnSerialPortErrorOccured, NeverStalls, opVars
  <2>9. ASSUME NEW response \in Responses,
               NEW more \in Extras,
               DeviceSends(response, more)
        PROVE  NeverStalls'
    <3>1. (received \o <<response>>) \o more \in Seq(Responses)
      <4>1. more \in Seq(Responses)
        BY MoreTypes
      <4> QED
        BY <4>1 DEF TypeOK
    <3> QED
      BY <2>2, <2>9, <3>1, ReadyReadStalls DEF DeviceSends
  <2>10. CASE Dispatch
    BY <2>10, DispatchStalls
  <2>11. ASSUME NEW o \in Ids, Timeout(o) PROVE NeverStalls'
    <3>1. queue' \in {queue, <<>>} /\ (fault' \/ ~None(posted', "processQueue"))
      BY <2>2, <2>11, FinishPosts, FailedType DEF Timeout
    <3> QED
      BY <2>1, <2>11, <3>1 DEF Timeout, NeverStalls
  <2>12. ASSUME NEW o \in Ids, Delete(o) PROVE NeverStalls'
    BY <2>1, <2>12, PendingIsNotNone DEF Delete, NeverStalls
  <2>13. CASE UNCHANGED vars
    BY <2>1, <2>13, PendingIsNotNone DEF vars, NeverStalls, opVars
  <2> QED
    BY <2>4, <2>5, <2>6, <2>7, <2>8, <2>9, <2>10, <2>11, <2>12, <2>13 DEF Next, Callers, Device
<1> QED
  BY <1>1, <1>2, TypeCorrect, PTL DEF Spec

-----------------------------------------------------------------------------
(* A session that was never stopped with work outstanding.  Everything that *)
(* is wanted of it follows from one invariant; each part says what one      *)
(* member of the class means for the others.                                *)

ClosedInv ==                            \* nothing is left of a session that is not up
    ~IsSessionUp =>
      /\ posted = <<>> /\ current = NoOp
      /\ port # "open" /\ ~connected
      /\ sessionState = "Starting" => helpers = 1 /\ plugin /\ ~isError
      /\ sessionState = "Stopped" => helpers = 0

OpenInv ==                              \* what it has while it is, and who will stop it
    IsSessionUp =>
      /\ port = "open" /\ plugin /\ helpers = 0
      /\ isError \/ ~connected => ~None(posted, "doStopSession")

TurnInv ==                              \* processQueue() waits for its turn
    /\ current # NoOp => sessionState = "Running" /\ None(posted, "processQueue")
    /\ sessionState # "Running" => None(posted, "processQueue")
    /\ AtMostOne(posted, "processQueue")

CurrentInv ==
    /\ current # NoOp => op[current].phase \in {"ready", "started"} /\ ~op[current].doomed
    /\ \A o \in Ids : op[o].phase = "started" => o = current

FinishInv ==                            \* one finish at most, and of an unanswered operation
    /\ AtMostOne(posted, "finish")
    /\ FinishesOnly(posted, current)
    /\ current # NoOp /\ op[current].kind = "request" => None(posted, "finish")

QueueInv ==
    /\ \A i \in DOMAIN queue :
         op[queue[i]].phase = "ready" /\ ~op[queue[i]].doomed /\ queue[i] # current
    /\ \A i, j \in DOMAIN queue : queue[i] = queue[j] => i = j

Answered(o) == op[o].phase # "free" => op[o].kind = "request" /\ op[o].phase # "ready"

AnswerInv ==                            \* only requests that were sent are answered
    /\ \A o \in owed : Answered(o)
    /\ \A i \in DOMAIN received : received[i].id # Broadcast => Answered(received[i].id)

CleanInv ==
    /\ ~fault
    /\ ClosedInv /\ OpenInv
    /\ TurnInv /\ CurrentInv /\ FinishInv /\ QueueInv /\ AnswerInv

IInv == ~dirtyStop => CleanInv

(* Only requests are answered: what a one-way operation sends, the device   *)
(* takes without a word.                                                    *)
OnlyRequestsReplied == Replied \subseteq {"request"}

(* A message answers an operation's id or carries that of broadcasts. *)
LEMMA MessageIds ==
    ASSUME NEW messages \in Seq(Responses), NEW i \in DOMAIN messages
    PROVE  messages[i].id \in Ids \cup {Broadcast}
<1>1. messages[i] \in Responses
  OBVIOUS
<1> QED
  BY <1>1 DEF Responses

(* No operation has the id of broadcasts, nor the value that stands for no operation. *)
LEMMA NoOpIsNoId == \A o \in Ids : o # NoOp /\ o # Broadcast
BY DEF Ids, NoOp, Broadcast

(* The current operation finishes, by the answer, by its 30 s timer or by   *)
(* the finish it posted.                                                    *)
LEMMA FinishClean ==
    ASSUME TypeOK, CleanInv, current # NoOp,
           NEW events \in Seq(Events), NEW after \in {<<>>, <<Event("readyRead")>>},
           NEW ops \in {op, Failed(current)},
           Finish(current, ops, events, after),
           None(events, "finish"), None(events, "processQueue"),
           ~None(posted, "doStopSession") => ~None(events, "doStopSession"),
           UNCHANGED <<sessionState, isError, port, connected, helpers>>, plugin => plugin',
           \A o \in owed' : Answered(o), owed' \subseteq Ids,
           received' \in Seq(Responses),
           \A i \in DOMAIN received' : received'[i].id # Broadcast => Answered(received'[i].id)
    PROVE  CleanInv'
<1> DEFINE finished == [ops EXCEPT ![current].phase = "finished"]
           dropped == IF finished[current].failed THEN Queued ELSE {}
<1>1. /\ sessionState = "Running" /\ current \in Ids
      /\ op \in [Ids -> Ops] /\ queue \in Seq(Ids)
  BY DEF CleanInv, TurnInv, TypeOK
<1>2. /\ queue' = IF finished[current].failed THEN <<>> ELSE queue
      /\ current' = NoOp
      /\ op' = DeleteLater(finished, dropped \cup {current})
      /\ posted' = PostProcessQueue(events) \o after
      /\ fault' = fault
  BY DEF Finish
<1>3. finished \in [Ids -> Ops] /\ ops \in [Ids -> Ops]
  <2>1. ops \in [Ids -> Ops]
    BY <1>1, FailedType
  <2> QED
    BY <1>1, <2>1 DEF Ops, Phases
<1>4. \A o \in Ids : /\ op'[o].kind = op[o].kind
                     /\ o = current => op'[o].phase = "finished"
                     /\ o # current => op'[o].phase = op[o].phase
                     /\ o # current /\ o \notin dropped => op'[o] = op[o]
  BY <1>1, <1>2, <1>3 DEF DeleteLater, Failed, Ops
<1>5. /\ None(posted', "finish")
      /\ AtMostOne(posted', "processQueue")
      /\ ~None(posted, "doStopSession") => ~None(posted', "doStopSession")
  <2> DEFINE pq == Append(events, Event("processQueue"))
  <2>1. pq \in Seq(Events) /\ None(pq, "finish") /\ AtMostOne(pq, "processQueue")
        /\ (~None(posted, "doStopSession") => ~None(pq, "doStopSession"))
    BY AppendEvents, EventTypes DEF Event
  <2>2. posted' \in {pq, Append(pq, Event("readyRead"))}
    BY <1>2, <2>1, ConcatOne, EventTypes DEF PostProcessQueue
  <2> HIDE DEF pq
  <2>3. LET e == Append(pq, Event("readyRead")) IN
        None(e, "finish") /\ AtMostOne(e, "processQueue")
        /\ (~None(posted, "doStopSession") => ~None(e, "doStopSession"))
    BY <2>1, AppendEvents, EventTypes DEF Event
  <2> QED
    BY <2>1, <2>2, <2>3
<1>6. ClosedInv' /\ OpenInv'
  BY <1>1, <1>5 DEF CleanInv, ClosedInv, OpenInv, IsSessionUp
<1>7. TurnInv'
  BY <1>1, <1>2, <1>5 DEF TurnInv
<1>8. CurrentInv'
  BY SMTT(20), ZenonT(30), <1>1, <1>2, <1>4 DEF CleanInv, CurrentInv
<1>9. FinishInv'
  BY <1>2, <1>5 DEF FinishInv, None, AtMostOne, FinishesOnly
<1>10. QueueInv'
  <2>1. CASE finished[current].failed
    BY <1>2, <2>1 DEF QueueInv
  <2>2. CASE ~finished[current].failed
    <3>1. queue' = queue /\ dropped = {}
      BY <1>2, <2>2
    <3>2. \A j \in DOMAIN queue : queue[j] \in Ids /\ queue[j] # current
      BY <1>1 DEF CleanInv, QueueInv
    <3>3. \A j \in DOMAIN queue : op'[queue[j]] = op[queue[j]] /\ queue[j] # current'
      BY <1>2, <1>4, <3>1, <3>2, NoOpIsNoId
    <3> QED
      BY <3>1, <3>3 DEF CleanInv, QueueInv
  <2> QED
    BY <2>1, <2>2
<1>11. AnswerInv'
  <2>1. ASSUME NEW o \in Ids, Answered(o) PROVE Answered(o)'
    BY <1>1, <1>4, <2>1 DEF Answered, CleanInv, CurrentInv
  <2>2. \A j \in DOMAIN received' : received'[j].id # Broadcast => received'[j].id \in Ids
    BY MessageIds
  <2> QED
    BY <2>1, <2>2 DEF AnswerInv
<1> QED
  BY <1>2, <1>6, <1>7, <1>8, <1>9, <1>10, <1>11 DEF CleanInv

(* A step that leaves the operations and the queue as they are, and takes   *)
(* no event from those posted but readyRead().                              *)
LEMMA QuietStepClean ==
    ASSUME TypeOK, CleanInv, UNCHANGED <<opVars, sessionState, fault, port, helpers>>,
           plugin => plugin',
           posted' \in Seq(Events),
           sessionState \in {"Starting", "Stopped"} => UNCHANGED <<posted, connected, plugin, isError>>,
           \A slot \in {"finish", "processQueue"} :
               /\ None(posted, slot) => None(posted', slot)
               /\ AtMostOne(posted, slot) => AtMostOne(posted', slot),
           FinishesOnly(posted, current) => FinishesOnly(posted', current),
           ~None(posted, "doStopSession") \/ isError' # isError \/ connected' # connected
               => ~None(posted', "doStopSession"),
           \A o \in owed' : Answered(o),
           \A i \in DOMAIN received' : received'[i].id # Broadcast => Answered(received'[i].id)
    PROVE  CleanInv'
<1>1. ClosedInv'
  BY DEF CleanInv, ClosedInv, IsSessionUp, TypeOK, SessionStates, opVars
<1>2. OpenInv'
  BY DEF CleanInv, OpenInv, IsSessionUp, TypeOK
<1>3. TurnInv' /\ FinishInv'
  BY DEF CleanInv, TurnInv, FinishInv, opVars
<1>4. CurrentInv' /\ QueueInv'
  BY DEF CleanInv, CurrentInv, QueueInv, opVars
<1>5. AnswerInv'
  BY DEF AnswerInv, Answered, opVars
<1> QED
  BY <1>1, <1>2, <1>3, <1>4, <1>5 DEF CleanInv

(* onSerialPortReadyRead() on answers to requests that were sent keeps CleanInv. *)
LEMMA ReadyReadClean ==
    ASSUME TypeOK, CleanInv, IsSessionUp,
           NEW data \in Seq(Responses), NEW events \in Seq(Events),
           ReadyRead(data, events), owed' \subseteq owed,
           \A i \in DOMAIN data : data[i].id # Broadcast => Answered(data[i].id),
           \A slot \in {"finish", "processQueue"} :
               /\ None(posted, slot) => None(events, slot)
               /\ AtMostOne(posted, slot) => AtMostOne(events, slot),
           FinishesOnly(posted, current) => FinishesOnly(events, current),
           ~None(posted, "doStopSession") => ~None(events, "doStopSession")
    PROVE  CleanInv'
<1>1. UNCHANGED <<sessionState, isError, port, connected, helpers, counter, dirtyStop>>
  BY DEF ReadyRead
<1>2. \A o \in owed' : Answered(o)
  BY DEF CleanInv, AnswerInv
<1>3. sessionState \notin {"Starting", "Stopped"}
  BY DEF IsSessionUp
<1>4. CASE data = <<>>
  <2>1. received' = data /\ posted' = events /\ UNCHANGED <<plugin, opVars, fault>>
    BY <1>4 DEF ReadyRead
  <2> QED
    BY <1>1, <1>2, <1>3, <2>1, QuietStepClean
<1>5. CASE data # <<>>
  <2> DEFINE again == IF Tail(data) = <<>> THEN <<>> ELSE <<Event("readyRead")>>
             matched == current # NoOp /\ Head(data).id = current
  <2>1. /\ received' = Tail(data) /\ plugin' = TRUE
        /\ \/ matched /\ Finish(current, op, events, again)
           \/ matched /\ Finish(current, Failed(current), events, again)
           \/ posted' = events \o again /\ UNCHANGED <<opVars, fault>>
    BY <1>5 DEF ReadyRead
  <2>2. /\ Tail(data) \in Seq(Responses)
        /\ \A i \in DOMAIN Tail(data) : Tail(data)[i].id # Broadcast => Answered(Tail(data)[i].id)
        /\ Head(data).id # Broadcast => Answered(Head(data).id)
    BY <1>5, TailElements
  <2>3. again \in {<<>>, <<Event("readyRead")>>}
    OBVIOUS
  <2> HIDE DEF again
  <2>4. CASE matched /\ (Finish(current, op, events, again) \/ Finish(current, Failed(current), events, again))
    <3>1. current \in Ids /\ Head(data).id # Broadcast
      BY <2>4, NoOpIsNoId DEF TypeOK
    <3>2. op[current].kind = "request"
      BY <2>2, <2>4, <3>1 DEF Answered, CleanInv, CurrentInv
    <3>3. None(events, "finish") /\ None(events, "processQueue")
      BY <2>4, <3>2 DEF CleanInv, FinishInv, TurnInv
    <3>4. owed' \subseteq Ids /\ received' \in Seq(Responses)
      BY <2>1, <2>2 DEF TypeOK
    <3> QED
      BY <1>1, <1>2, <2>1, <2>2, <2>3, <2>4, <3>3, <3>4, FinishClean
  <2>5. CASE posted' = events \o again /\ UNCHANGED <<opVars, fault>>
    <3>1. posted' \in {events, Append(events, Event("readyRead"))}
      BY <2>3, <2>5, ConcatOne, EventTypes
    <3>2. /\ posted' \in Seq(Events)
          /\ \A slot \in {"finish", "processQueue"} :
               /\ None(posted, slot) => None(posted', slot)
               /\ AtMostOne(posted, slot) => AtMostOne(posted', slot)
          /\ FinishesOnly(posted, current) => FinishesOnly(posted', current)
          /\ ~None(posted, "doStopSession") => ~None(posted', "doStopSession")
      <4> DEFINE e == Event("readyRead")
                 more == Append(events, e)
      <4>1. e \in Events /\ e.slot = "readyRead"
        BY EventTypes DEF Event
      <4> HIDE DEF e
      <4>2. \A slot : /\ None(events, slot) /\ slot # "readyRead" => None(more, slot)
                      /\ AtMostOne(events, slot) /\ slot # "readyRead" => AtMostOne(more, slot)
                      /\ ~None(events, slot) => ~None(more, slot)
        BY <4>1, AppendEvents
      <4>3. FinishesOnly(events, current) => FinishesOnly(more, current)
        BY <4>1, AppendEvents
      <4>4. more \in Seq(Events) /\ posted' \in {events, more}
        BY <3>1, <4>1 DEF e
      <4> HIDE DEF more
      <4> QED
        BY <4>2, <4>3, <4>4
    <3> QED
      BY <1>1, <1>2, <1>3, <2>1, <2>2, <2>5, <3>2, QuietStepClean
  <2> QED
    BY <2>1, <2>4, <2>5
<1> QED
  BY <1>4, <1>5

(* processQueue(), in a running session with nothing in flight, keeps CleanInv. *)
LEMMA ProcessQueueClean ==
    ASSUME OnlyRequestsReplied, TypeOK, CleanInv, NEW events \in Seq(Events), ProcessQueue(events),
           sessionState = "Running", current = NoOp,
           None(events, "processQueue"), None(events, "finish"),
           ~None(posted, "doStopSession") => ~None(events, "doStopSession")
    PROVE  CleanInv'
<1>1. UNCHANGED <<linkVars, counter, received, fault, dirtyStop>>
  BY DEF ProcessQueue
<1>2. CASE queue = <<>>
  <2>1. sessionState' = "Idle" /\ posted' = events /\ UNCHANGED <<isError, opVars, owed>>
    BY <1>2 DEF ProcessQueue
  <2>2. ClosedInv' /\ OpenInv' /\ TurnInv' /\ FinishInv'
    BY <1>1, <2>1 DEF CleanInv, ClosedInv, OpenInv, TurnInv, FinishInv, IsSessionUp, linkVars, opVars,
                      None, AtMostOne, FinishesOnly
  <2>3. CurrentInv' /\ QueueInv' /\ AnswerInv'
    BY <1>1, <2>1 DEF CleanInv, CurrentInv, QueueInv, AnswerInv, Answered, opVars
  <2> QED
    BY <1>1, <2>2, <2>3 DEF CleanInv
<1>3. CASE queue # <<>>
  <2> DEFINE o == Head(queue)
  <2>1. /\ o \in Ids /\ o # NoOp
        /\ Tail(queue) \in Seq(Ids)
        /\ \A i \in DOMAIN Tail(queue) : i + 1 \in DOMAIN queue /\ Tail(queue)[i] = queue[i + 1]
        /\ 1 \in DOMAIN queue /\ o = queue[1]
        /\ queue \in Seq(Ids) /\ op \in [Ids -> Ops]
    <3>1. o \in Ids /\ queue \in Seq(Ids) /\ op \in [Ids -> Ops]
      BY <1>3, HeadTailTypes DEF TypeOK
    <3> QED
      BY <1>3, <3>1, TailElements, NoOpIsNoId
  <2>2. op[o].phase = "ready" /\ ~op[o].doomed
    BY <2>1 DEF CleanInv, QueueInv
  <2>3. current' = o /\ queue' = Tail(queue) /\ UNCHANGED sessionState
    BY <1>3 DEF ProcessQueue
  <2> DEFINE later == IF op[o].kind # "request" THEN <<FinishEvent(o)>> ELSE <<>>
             stop == <<Event("doStopSession")>>
  <2>4. /\ op' \in {Failed(o), [op EXCEPT ![o].phase = "started"]}
        /\ \/ posted' \in {events, events \o later} /\ UNCHANGED isError
           \/ posted' = (events \o later) \o stop /\ isError' = TRUE
        /\ \/ UNCHANGED owed
           \/ owed' = owed \cup {o} /\ op[o].kind = "request" /\ op' = [op EXCEPT ![o].phase = "started"]
    <3>1. CASE op[o].kind = "local"
      <4>1. op' = Failed(o) /\ posted' = Append(events, FinishEvent(o)) /\ UNCHANGED <<isError, owed>>
        BY <1>3, <3>1 DEF ProcessQueue
      <4>2. FinishEvent(o) \in Events
        BY <2>1 DEF FinishEvent, Events
      <4>3. posted' = events \o later
        BY <3>1, <4>1, <4>2, ConcatOne
      <4> QED
        BY <4>1, <4>3
    <3>2. CASE op[o].kind # "local"
      <4>1. op' = [op EXCEPT ![o].phase = "started"] /\ WriteToPort(o, events)
        BY <1>3, <3>2 DEF ProcessQueue
      <4>2. later = IF op[o].kind = "oneWay" THEN <<FinishEvent(o)>> ELSE <<>>
        <5>1. op[o].kind \in Kinds
          BY <2>1 DEF Ops
        <5> QED
          BY <3>2, <5>1 DEF Kinds
      <4>3. IsSessionUp
        BY DEF IsSessionUp
      <4> HIDE DEF later
      <4> QED
        BY <4>1, <4>2, <4>3 DEF WriteToPort, OnlyRequestsReplied
    <3> QED
      BY <3>1, <3>2
  <2>5. \A x \in Ids : x # o => op'[x] = op[x]
    BY <2>1, <2>4 DEF Failed
  <2>6. /\ op'[o].phase \in {"ready", "started"} /\ ~op'[o].doomed /\ op'[o].kind = op[o].kind
        /\ owed' # owed => op'[o].phase = "started"
    BY SMTT(20), ZenonT(30), <2>1, <2>2, <2>4 DEF Failed, Ops
  <2>7. /\ None(posted', "processQueue")
        /\ AtMostOne(posted', "finish")
        /\ FinishesOnly(posted', o)
        /\ op[o].kind = "request" => None(posted', "finish")
        /\ isError' # isError \/ ~None(posted, "doStopSession") => ~None(posted', "doStopSession")
    <3> DEFINE f == FinishEvent(o)
               d == Event("doStopSession")
               e1 == events \o later
               e2 == e1 \o stop
    <3>1. f \in Events /\ f.slot = "finish" /\ f.op = o /\ d \in Events /\ d.slot = "doStopSession"
      BY <2>1, EventTypes DEF FinishEvent, Event, Events
    <3>2. AtMostOne(events, "finish") /\ FinishesOnly(events, o)
      BY DEF None, AtMostOne, FinishesOnly
    <3>3. \/ e1 = events /\ op[o].kind = "request"
          \/ e1 = Append(events, f) /\ op[o].kind # "request"
      <4>1. events \o <<>> = events /\ events \o <<FinishEvent(o)>> = Append(events, f)
        BY <3>1, ConcatOne
      <4> QED
        BY <4>1
    <3> HIDE DEF f, d, later
    <3>4. /\ e1 \in Seq(Events) /\ None(e1, "processQueue") /\ AtMostOne(e1, "finish") /\ FinishesOnly(e1, o)
          /\ op[o].kind = "request" => None(e1, "finish")
          /\ ~None(posted, "doStopSession") => ~None(e1, "doStopSession")
      <4> DEFINE a == Append(events, f)
      <4>1. \A slot : /\ None(events, slot) /\ slot # "finish" => None(a, slot)
                      /\ None(events, slot) => AtMostOne(a, slot)
                      /\ ~None(events, slot) => ~None(a, slot)
        BY <3>1, AppendEvents
      <4>2. a \in Seq(Events) /\ FinishesOnly(a, o)
        BY <3>1, <3>2, AppendEvents
      <4> HIDE DEF a
      <4> QED
        BY <3>2, <3>3, <4>1, <4>2 DEF a
    <3>5. e2 = Append(e1, d)
      BY <3>1, <3>4, ConcatOne DEF d
    <3> HIDE DEF e1, e2
    <3>6. /\ None(e2, "processQueue") /\ AtMostOne(e2, "finish") /\ FinishesOnly(e2, o)
          /\ op[o].kind = "request" => None(e2, "finish")
          /\ ~None(e2, "doStopSession")
      <4>1. \A slot : /\ None(e1, slot) /\ slot # "doStopSession" => None(e2, slot)
                      /\ AtMostOne(e1, slot) /\ slot # "doStopSession" => AtMostOne(e2, slot)
                      /\ ~None(e2, "doStopSession")
        BY <3>1, <3>4, <3>5, AppendEvents
      <4>2. FinishesOnly(e2, o)
        BY <3>1, <3>4, <3>5, AppendEvents
      <4> QED
        BY <3>4, <4>1, <4>2
    <3>7. (posted' \in {events, e1} /\ UNCHANGED isError) \/ posted' = e2
      BY <2>4 DEF e1, e2
    <3> QED
      BY <3>2, <3>4, <3>6, <3>7
  <2> HIDE DEF o
  <2>8. ClosedInv' /\ OpenInv'
    BY <1>1, <2>3, <2>7 DEF CleanInv, ClosedInv, OpenInv, IsSessionUp, linkVars
  <2>9. TurnInv' /\ FinishInv'
    BY <2>3, <2>6, <2>7 DEF TurnInv, FinishInv, None, AtMostOne
  <2>10. CurrentInv'
    <3>1. ASSUME NEW x \in Ids, op'[x].phase = "started" PROVE x = current'
      BY <2>3, <2>5, <3>1, NoOpIsNoId DEF CleanInv, CurrentInv
    <3> QED
      BY <2>3, <2>6, <3>1 DEF CurrentInv
  <2>11. QueueInv'
    <3>1. \A i \in DOMAIN queue' : i + 1 \in DOMAIN queue /\ queue'[i] = queue[i + 1] /\ queue'[i] \in Ids
      BY <2>1, <2>3
    <3>2. \A i \in DOMAIN queue' : queue'[i] # o
      <4>1. DOMAIN queue' \subseteq Nat \ {0}
        BY <2>1, <2>3
      <4> QED
        BY <2>1, <3>1, <4>1 DEF CleanInv, QueueInv
    <3>3. DOMAIN queue' \subseteq Nat
      BY <2>1, <2>3
    <3> QED
      BY <2>3, <2>5, <3>1, <3>2, <3>3 DEF CleanInv, QueueInv
  <2>12. AnswerInv'
    <3>1. ASSUME NEW x \in Ids, Answered(x) PROVE Answered(x)'
      BY <2>1, <2>2, <2>5, <3>1 DEF Answered
    <3>2. ASSUME NEW x \in owed' PROVE Answered(x)'
      <4>1. CASE x \in owed
        BY <3>1, <4>1 DEF CleanInv, AnswerInv, TypeOK
      <4>2. CASE x \notin owed
        BY <2>4, <2>6, <3>2, <4>2 DEF Answered
      <4> QED
        BY <4>1, <4>2
    <3>3. received' = received /\ received \in Seq(Responses)
      BY <1>1 DEF TypeOK
    <3>4. \A i \in DOMAIN received : received[i].id # Broadcast => received[i].id \in Ids
      BY <3>3, MessageIds
    <3> QED
      BY <3>1, <3>2, <3>3, <3>4 DEF CleanInv, AnswerInv
  <2> QED
    BY <1>1, <2>8, <2>9, <2>10, <2>11, <2>12 DEF CleanInv
<1> QED
  BY <1>2, <1>3

(* A session stopped while nothing is queued, running or posted.            *)
LEMMA DoStopSessionClean ==
    ASSUME TypeOK, CleanInv, NEW events \in Seq(Events), DoStopSession(events), Quiet(events),
           FinishesOnly(events, NoOp)
    PROVE  CleanInv'
<1>1. current = NoOp /\ queue = <<>> /\ sessionState = "Idle"
  BY DEF Quiet
<1>2. events = <<>>
  <2> SUFFICES ASSUME events # <<>> PROVE FALSE
    OBVIOUS
  <2>1. 1 \in DOMAIN events /\ events[1] \in Events
    BY TailElements
  <2>2. events[1].slot = "finish" /\ events[1].op = NoOp
    BY <2>1 DEF Quiet, FinishesOnly
  <2>3. events[1].op \in Ids
    BY <2>1, <2>2 DEF Events
  <2> QED
    BY <2>2, <2>3, NoOpIsNoId
<1>3. /\ posted' = <<>> /\ UNCHANGED <<opVars, fault, helpers, received, owed>>
      /\ port' # "open" /\ ~connected' /\ sessionState' = "Stopped"
  BY <1>1, <1>2 DEF DoStopSession, PortClosed
<1>4. ClosedInv' /\ OpenInv' /\ TurnInv' /\ FinishInv'
  BY <1>1, <1>3 DEF CleanInv, ClosedInv, OpenInv, TurnInv, FinishInv, IsSessionUp, opVars,
                    None, AtMostOne, FinishesOnly
<1>5. CurrentInv' /\ QueueInv' /\ AnswerInv'
  BY <1>3 DEF CleanInv, CurrentInv, QueueInv, AnswerInv, Answered, opVars
<1> QED
  BY <1>3, <1>4, <1>5 DEF CleanInv

(* Any posted event keeps CleanInv, unless it stops the session with work outstanding. *)
LEMMA DispatchClean ==
    ASSUME OnlyRequestsReplied, TypeOK, CleanInv, Dispatch, ~dirtyStop'
    PROVE  CleanInv'
<1> DEFINE event == Head(posted)
           events == Tail(posted)
<1>1. event \in Events /\ events \in Seq(Events) /\ posted \in Seq(Events) /\ posted # <<>> /\ ~fault
  BY HeadTailTypes DEF Dispatch, TypeOK
<1>2. \A slot : /\ None(posted, slot) => None(events, slot)
                /\ AtMostOne(posted, slot) => AtMostOne(events, slot)
                /\ AtMostOne(posted, slot) /\ event.slot = slot => None(events, slot)
                /\ event.slot # slot /\ ~None(posted, slot) => ~None(events, slot)
  BY <1>1, TailEvents
<1>3. FinishesOnly(events, current)
  BY <1>1, TailEvents DEF CleanInv, FinishInv
<1>4. event = posted[1] /\ 1 \in DOMAIN posted
  BY <1>1, TailElements
<1>5. IsSessionUp /\ port = "open"
  BY <1>1 DEF CleanInv, ClosedInv, OpenInv
<1> HIDE DEF event, events
<1>6. CASE event.slot = "processQueue" /\ ProcessQueue(events)
  <2>1. sessionState = "Running" /\ current = NoOp
    BY <1>4, <1>6 DEF CleanInv, TurnInv, None
  <2>2. None(events, "processQueue")
    BY <1>2, <1>6 DEF CleanInv, TurnInv
  <2>3. None(events, "finish")
    <3> SUFFICES ASSUME NEW i \in DOMAIN events, events[i].slot = "finish" PROVE FALSE
      BY DEF None
    <3>1. events[i] \in Events /\ events[i].op = NoOp
      BY <1>1, <1>3, <2>1 DEF FinishesOnly
    <3> QED
      BY <3>1, NoOpIsNoId DEF Events
  <2>4. ~None(posted, "doStopSession") => ~None(events, "doStopSession")
    BY <1>2, <1>6
  <2> QED
    BY <1>1, <1>6, <2>1, <2>2, <2>3, <2>4, ProcessQueueClean
<1>7. CASE event.slot = "doStopSession" /\ DoStopSession(events)
  <2>1. Quiet(events)
    BY <1>7 DEF DoStopSession
  <2>2. FinishesOnly(events, NoOp)
    BY <1>3, <2>1 DEF Quiet
  <2> QED
    BY <1>1, <1>7, <2>1, <2>2, DoStopSessionClean
<1>8. CASE event.slot = "readyRead" /\ ReadyRead(received, events) /\ UNCHANGED owed
  <2>1. received \in Seq(Responses) /\ owed' \subseteq owed
    BY <1>8 DEF TypeOK
  <2>2. /\ \A slot \in {"finish", "processQueue"} :
             /\ None(posted, slot) => None(events, slot)
             /\ AtMostOne(posted, slot) => AtMostOne(events, slot)
        /\ ~None(posted, "doStopSession") => ~None(events, "doStopSession")
    BY <1>2, <1>8
  <2>3. \A i \in DOMAIN received : received[i].id # Broadcast => Answered(received[i].id)
    BY DEF CleanInv, AnswerInv
  <2> QED
    BY <1>1, <1>3, <1>5, <1>8, <2>1, <2>2, <2>3, ReadyReadClean
<1>9. CASE event.slot = "finish" /\ FinishLater(event.op, events)
  <2>1. event.op = current /\ current \in Ids /\ current # NoOp
    <3>1. event.op = current
      BY <1>4, <1>9 DEF CleanInv, FinishInv, FinishesOnly
    <3>2. event.op \in Ids
      BY <1>1, <1>9 DEF Events
    <3> QED
      BY <3>1, <3>2, NoOpIsNoId
  <2>2. Finish(current, op, events, <<>>)
    BY <1>9, <2>1 DEF FinishLater, CleanInv, CurrentInv
  <2>3. UNCHANGED <<sessionState, isError, linkVars, counter, received, owed, dirtyStop>>
    BY <1>9 DEF FinishLater
  <2>4. None(events, "finish") /\ (~None(posted, "doStopSession") => ~None(events, "doStopSession"))
    BY <1>2, <1>9 DEF CleanInv, FinishInv
  <2>5. None(events, "processQueue")
    BY <1>2, <2>1 DEF CleanInv, TurnInv
  <2>6. /\ \A o \in owed' : Answered(o)
        /\ owed' \subseteq Ids /\ received' \in Seq(Responses)
        /\ \A i \in DOMAIN received' : received'[i].id # Broadcast => Answered(received'[i].id)
    BY <2>3 DEF CleanInv, AnswerInv, TypeOK
  <2> QED
    BY <1>1, <2>1, <2>2, <2>3, <2>4, <2>5, <2>6, FinishClean DEF linkVars
<1> QED
  BY <1>5, <1>6, <1>7, <1>8, <1>9 DEF Dispatch, UseOfDanglingPort, event, events

(* The steps that are not the loop's.                                       *)
LEMMA EnqueueClean ==
    ASSUME TypeOK, CleanInv, NEW kind \in Kinds, EnqueueOperation(kind)
    PROVE  CleanInv'
<1> DEFINE id == GetAndIncrementCounter
<1>1. /\ id \in Ids /\ id # NoOp
      /\ queue \in Seq(Ids) /\ op \in [Ids -> Ops] /\ posted \in Seq(Events)
      /\ received \in Seq(Responses)
  BY CounterType, NoOpIsNoId DEF TypeOK
<1>2. /\ op[id].phase = "free" /\ id \notin owed
      /\ \A i \in DOMAIN posted : posted[i].op # id
      /\ \A i \in DOMAIN received : received[i].id # id
  BY <1>1 DEF EnqueueOperation, Fresh
<1>3. /\ op' = [op EXCEPT ![id] = NewOperation(kind)]
      /\ queue' = Append(queue, id)
      /\ UNCHANGED <<isError, linkVars, current, received, owed, fault, dirtyStop>>
  BY DEF EnqueueOperation, QueueJoinedBy
<1> HIDE DEF id
<1>4. /\ op'[id].phase = "ready" /\ ~op'[id].doomed
      /\ \A o \in Ids : o # id => op'[o] = op[o]
      /\ current # id
  BY <1>1, <1>2, <1>3 DEF NewOperation, CleanInv, CurrentInv
<1>5. /\ sessionState' = IF sessionState = "Idle" THEN "Running" ELSE sessionState
      /\ posted' = IF sessionState = "Idle" THEN Append(posted, Event("processQueue")) ELSE posted
  BY DEF EnqueueOperation, WakesSession, PostProcessQueue
<1>6. /\ TurnInv'
      /\ AtMostOne(posted', "finish") /\ FinishesOnly(posted', current)
      /\ None(posted, "finish") => None(posted', "finish")
      /\ ~None(posted, "doStopSession") => ~None(posted', "doStopSession")
  <2>1. CASE sessionState = "Idle"
    <3> DEFINE e == Event("processQueue")
               pq == Append(posted, e)
    <3>1. e \in Events /\ e.slot = "processQueue"
      BY EventTypes DEF Event
    <3> HIDE DEF e
    <3>2. \A slot : /\ None(posted, slot) /\ slot # "processQueue" => None(pq, slot)
                    /\ AtMostOne(posted, slot) /\ slot # "processQueue" => AtMostOne(pq, slot)
                    /\ None(posted, slot) => AtMostOne(pq, slot)
                    /\ ~None(posted, slot) => ~None(pq, slot)
      BY <1>1, <3>1, AppendEvents
    <3>3. FinishesOnly(pq, current)
      BY <1>1, <3>1, AppendEvents DEF CleanInv, FinishInv
    <3>4. current = NoOp /\ None(posted, "processQueue") /\ posted' = pq /\ sessionState' = "Running"
      BY <1>5, <2>1 DEF CleanInv, TurnInv, e
    <3> HIDE DEF pq
    <3> QED
      BY <1>3, <3>2, <3>3, <3>4 DEF CleanInv, TurnInv, FinishInv
  <2>2. CASE sessionState # "Idle"
    BY <1>3, <1>5, <2>2 DEF CleanInv, TurnInv, FinishInv
  <2> QED
    BY <2>1, <2>2
<1>7. ClosedInv' /\ OpenInv'
  BY <1>3, <1>5, <1>6 DEF CleanInv, ClosedInv, OpenInv, IsSessionUp, linkVars
<1>8. CurrentInv'
  BY <1>3, <1>4 DEF CleanInv, CurrentInv, TypeOK
<1>9. FinishInv'
  BY <1>1, <1>3, <1>4, <1>6 DEF CleanInv, FinishInv, TypeOK
<1>10. QueueInv'
  <2>1. /\ DOMAIN queue' = DOMAIN queue \cup {Len(queue) + 1}
        /\ \A i \in DOMAIN queue : queue'[i] = queue[i] /\ queue[i] \in Ids
        /\ queue'[Len(queue) + 1] = id
        /\ Len(queue) + 1 \notin DOMAIN queue
    BY <1>1, <1>3, AppendElements
  <2>2. \A i \in DOMAIN queue : queue[i] # id
    BY <1>2 DEF CleanInv, QueueInv
  <2> QED
    BY <1>3, <1>4, <2>1, <2>2 DEF CleanInv, QueueInv
<1>11. AnswerInv'
  <2>1. ASSUME NEW o \in Ids, o # id, Answered(o) PROVE Answered(o)'
    BY <1>4, <2>1 DEF Answered
  <2>2. \A i \in DOMAIN received : received[i].id # Broadcast => received[i].id \in Ids
    BY <1>1, MessageIds
  <2> QED
    BY <1>2, <1>3, <2>1, <2>2 DEF CleanInv, AnswerInv, TypeOK
<1> QED
  BY <1>3, <1>6, <1>7, <1>8, <1>9, <1>10, <1>11 DEF CleanInv

(* The end of the helper that opens the port and starts RPC keeps CleanInv. *)
LEMMA HelperClean ==
    ASSUME TypeOK, CleanInv, NEW success \in BOOLEAN, HelperFinished(success)
    PROVE  CleanInv'
<1>1. ~IsSessionUp /\ sessionState = "Starting" /\ helpers = 1
  BY DEF HelperFinished, CleanInv, OpenInv, ClosedInv, IsSessionUp, TypeOK, SessionStates
<1>2. posted = <<>> /\ current = NoOp /\ port # "open" /\ ~connected /\ plugin /\ ~isError
  BY <1>1 DEF CleanInv, ClosedInv
<1>3. UNCHANGED <<plugin, counter, opVars, received, owed, fault, dirtyStop>> /\ helpers' = 0
  BY <1>1 DEF HelperFinished
<1>4. CurrentInv' /\ QueueInv' /\ AnswerInv'
  BY <1>3 DEF CleanInv, CurrentInv, QueueInv, AnswerInv, Answered, opVars
<1>5. CASE success /\ queue # <<>>
  <2> DEFINE e == Event("processQueue")
  <2>1. posted' = <<e>> /\ sessionState' = "Running" /\ port' = "open" /\ connected' = TRUE /\ UNCHANGED isError
    BY <1>2, <1>5 DEF HelperFinished, PostProcessQueue
  <2>2. e.slot = "processQueue"
    BY DEF Event
  <2> HIDE DEF e
  <2>3. None(posted', "finish") /\ AtMostOne(posted', "processQueue")
    BY <2>1, <2>2 DEF None, AtMostOne
  <2>4. ClosedInv' /\ OpenInv' /\ TurnInv'
    BY <1>2, <1>3, <2>1, <2>3 DEF ClosedInv, OpenInv, TurnInv, IsSessionUp, opVars
  <2>5. FinishInv'
    BY <1>2, <1>3, <2>3 DEF FinishInv, None, AtMostOne, FinishesOnly, opVars
  <2> QED
    BY <1>3, <1>4, <2>4, <2>5 DEF CleanInv
<1>6. CASE ~(success /\ queue # <<>>)
  <2>1. /\ posted' = <<>>
        /\ \/ sessionState' = "Idle" /\ port' = "open" /\ connected' = TRUE /\ UNCHANGED isError
           \/ sessionState' = "Stopped" /\ UNCHANGED <<port, connected>>
    BY <1>2, <1>6 DEF HelperFinished
  <2>2. ClosedInv' /\ OpenInv' /\ TurnInv' /\ FinishInv'
    BY <1>2, <1>3, <2>1 DEF ClosedInv, OpenInv, TurnInv, FinishInv, IsSessionUp, opVars,
                            None, AtMostOne, FinishesOnly
  <2> QED
    BY <1>3, <1>4, <2>2 DEF CleanInv
<1> QED
  BY <1>5, <1>6

(* doStopSession() is posted, with or without the port's signals.           *)
LEMMA PostStopClean ==
    ASSUME TypeOK, CleanInv, IsSessionUp,
           posted' = Append(posted, Event("doStopSession")),
           UNCHANGED <<sessionState, isError, plugin, port, helpers, opVars, received, owed, fault>>
    PROVE  CleanInv'
<1> DEFINE e == Event("doStopSession")
<1>1. e \in Events /\ e.slot = "doStopSession" /\ posted \in Seq(Events)
  BY EventTypes DEF Event, TypeOK
<1>2. posted' = Append(posted, e)
  OBVIOUS
<1> HIDE DEF e
<1>3. /\ posted' \in Seq(Events)
      /\ \A slot \in {"finish", "processQueue"} :
             /\ None(posted, slot) => None(posted', slot)
             /\ AtMostOne(posted, slot) => AtMostOne(posted', slot)
      /\ FinishesOnly(posted, current) => FinishesOnly(posted', current)
      /\ ~None(posted', "doStopSession")
  BY <1>1, <1>2, AppendEvents
<1>4. sessionState \notin {"Starting", "Stopped"}
  BY DEF IsSessionUp
<1>5. /\ \A o \in owed' : Answered(o)
      /\ \A i \in DOMAIN received' : received'[i].id # Broadcast => Answered(received'[i].id)
  BY DEF CleanInv, AnswerInv
<1> QED
  BY <1>3, <1>4, <1>5, QuietStepClean

(* A stop with work outstanding is not taken back.                          *)
LEMMA DirtyStays == ASSUME dirtyStop, [Next]_vars PROVE dirtyStop'
<1>1. Dispatch => dirtyStop'
  BY DEF Dispatch, ProcessQueue, DoStopSession, ReadyRead, FinishLater, UseOfDanglingPort
<1> QED
  BY <1>1 DEF Next, Callers, Device, EnqueueOperation, StartSession, StopSession, HelperFinished,
              OnSerialPortErrorOccured, DeviceSends, ReadyRead, Timeout, Delete, vars

(* IInv is inductive. *)
LEMMA CleanStep ==
    ASSUME OnlyRequestsReplied, TypeOK, IInv, [Next]_vars PROVE IInv'
<1> SUFFICES ASSUME ~dirtyStop' PROVE CleanInv'
  BY DEF IInv
<1>1. ~dirtyStop
  BY DirtyStays
<1>2. CleanInv
  BY <1>1 DEF IInv
<1>3. CASE \E kind \in Kinds : EnqueueOperation(kind)
  BY <1>2, <1>3, EnqueueClean
<1>4. CASE \E pluginLoads \in BOOLEAN : StartSession(pluginLoads)
  <2> PICK pluginLoads \in BOOLEAN : StartSession(pluginLoads)
    BY <1>4
  <2>1. ~IsSessionUp /\ helpers = 0 /\ posted = <<>> /\ current = NoOp /\ port # "open" /\ ~connected
    BY <1>2 DEF StartSession, IsSessionUp, CleanInv, ClosedInv
  <2>2. /\ UNCHANGED <<port, connected, counter, opVars, posted, owed, fault>> /\ received' = <<>>
        /\ \/ sessionState' = "Starting" /\ helpers' = 1 /\ plugin' /\ ~isError'
           \/ sessionState' = "Stopped" /\ helpers' = 0
    <3>1. CASE pluginLoads = TRUE
      <4>1. StartSession(TRUE)
        BY <3>1
      <4>2. UNCHANGED <<port, connected, counter, opVars, posted, owed, fault>> /\ received' = <<>>
        BY <4>1 DEF StartSession
      <4>3. sessionState' = "Starting"
        BY <4>1 DEF StartSession
      <4>4. helpers' = 1
        BY <2>1, <4>1 DEF StartSession
      <4>5. plugin'
        BY <4>1, Zenon DEF StartSession
      <4>6. ~isError'
        BY <4>1, Zenon DEF StartSession
      <4> QED
        BY <4>2, <4>3, <4>4, <4>5, <4>6
    <3>2. CASE pluginLoads = FALSE
      BY <2>1, <3>2 DEF StartSession
    <3> QED
      BY <3>1, <3>2
  <2>3. ClosedInv' /\ OpenInv' /\ TurnInv' /\ FinishInv'
    BY <2>1, <2>2 DEF ClosedInv, OpenInv, TurnInv, FinishInv, IsSessionUp, opVars,
                      None, AtMostOne, FinishesOnly
  <2>4. CurrentInv' /\ QueueInv' /\ AnswerInv'
    BY <1>2, <2>2 DEF CleanInv, CurrentInv, QueueInv, AnswerInv, Answered, opVars
  <2> QED
    BY <1>2, <2>2, <2>3, <2>4 DEF CleanInv
<1>5. CASE StopSession
  BY <1>2, <1>5, PostStopClean DEF StopSession, linkVars
<1>6. CASE \E success \in BOOLEAN : HelperFinished(success)
  BY <1>2, <1>6, HelperClean
<1>7. CASE OnSerialPortErrorOccured
  <2>1. IsSessionUp
    BY <1>2, <1>7 DEF OnSerialPortErrorOccured, CleanInv, ClosedInv
  <2> QED
    BY <1>2, <1>7, <2>1, PostStopClean DEF OnSerialPortErrorOccured
<1>8. ASSUME NEW response \in Responses,
             NEW more \in Extras,
             DeviceSends(response, more)
      PROVE  CleanInv'
  <2> DEFINE data == (received \o <<response>>) \o more
  <2>1. IsSessionUp
    BY <1>2, <1>8 DEF DeviceSends, CleanInv, ClosedInv
  <2>2. /\ more \in Seq(Responses) /\ received \in Seq(Responses)
        /\ received \o <<response>> = Append(received, response)
    BY MoreTypes, ConcatOne DEF TypeOK
  <2>3. response.id # Broadcast => Answered(response.id)
    BY <1>2, <1>8 DEF DeviceSends, CleanInv, AnswerInv
  <2>4. more = <<>> \/ more = <<[id |-> Broadcast, verdict |-> "last"]>>
    BY DEF Extras
  <2>5. /\ data \in Seq(Responses)
        /\ \A i \in DOMAIN data : data[i].id # Broadcast => Answered(data[i].id)
    <3> DEFINE first == Append(received, response)
    <3>1. /\ first \in Seq(Responses)
          /\ \A i \in DOMAIN first : first[i].id # Broadcast => Answered(first[i].id)
      BY <1>2, <2>2, <2>3, AppendElements DEF CleanInv, AnswerInv
    <3> DEFINE message == [id |-> Broadcast, verdict |-> "last"]
    <3>2. message \in Responses /\ message.id = Broadcast
      BY DEF Responses
    <3>3. data \in {first, Append(first, message)}
      <4> HIDE DEF first, message
      <4>1. first \o <<>> = first /\ first \o <<message>> = Append(first, message)
        BY <3>1, <3>2, ConcatOne
      <4>2. data \in {first \o <<>>, first \o <<message>>}
        BY <2>2, <2>4 DEF first, message
      <4> QED
        BY <4>1, <4>2
    <3> HIDE DEF first, message, data
    <3> QED
      BY <3>1, <3>2, <3>3, AppendElements
  <2>6. ReadyRead(data, posted) /\ owed' \subseteq owed /\ posted \in Seq(Events)
    BY <1>8 DEF DeviceSends, TypeOK
  <2> HIDE DEF data
  <2> QED
    BY <1>2, <2>1, <2>5, <2>6, ReadyReadClean
<1>9. CASE Dispatch
  BY <1>2, <1>9, DispatchClean
<1>10. ASSUME NEW o \in Ids, Timeout(o) PROVE CleanInv'
  <2>1. o = current /\ current # NoOp /\ current \in Ids
    BY <1>2, <1>10, NoOpIsNoId DEF Timeout, TimerRuns, CleanInv, CurrentInv
  <2>2. Finish(current, Failed(current), posted, <<>>) /\ posted \in Seq(Events)
    BY <1>10, <2>1 DEF Timeout, TypeOK
  <2>3. None(posted, "finish")
    <3> SUFFICES ASSUME NEW i \in DOMAIN posted, posted[i].slot = "finish" PROVE FALSE
      BY DEF None
    <3>1. posted[i].op = current
      BY <1>2 DEF CleanInv, FinishInv, FinishesOnly
    <3>2. posted[i] \in Events
      BY <2>2
    <3>3. posted[i] = FinishEvent(current)
      BY <3>1, <3>2 DEF FinishEvent, Events
    <3> QED
      BY <1>10, <2>1, <3>3 DEF Timeout, TimerRuns
  <2>4. None(posted, "processQueue")
    BY <1>2, <2>1 DEF CleanInv, TurnInv
  <2>5. UNCHANGED <<sessionState, isError, linkVars, counter, received, owed, dirtyStop>>
    BY <1>10 DEF Timeout
  <2>6. /\ \A x \in owed' : Answered(x)
        /\ owed' \subseteq Ids /\ received' \in Seq(Responses)
        /\ \A i \in DOMAIN received' : received'[i].id # Broadcast => Answered(received'[i].id)
    BY <1>2, <2>5 DEF CleanInv, AnswerInv, TypeOK
  <2> QED
    BY <1>2, <2>1, <2>2, <2>3, <2>4, <2>5, <2>6, FinishClean DEF linkVars
<1>11. ASSUME NEW o \in Ids, Delete(o) PROVE CleanInv'
  <2>1. op' = [op EXCEPT ![o] = NoObject] /\ op[o].doomed
        /\ UNCHANGED <<sessionState, isError, linkVars, counter, queue, current, posted, received, owed, fault>>
        /\ op \in [Ids -> Ops] /\ queue \in Seq(Ids) /\ received \in Seq(Responses)
    BY <1>11 DEF Delete, TypeOK
  <2>2. op'[o].phase = "free" /\ \A x \in Ids : x # o => op'[x] = op[x]
    BY <2>1 DEF NoObject
  <2>3. ClosedInv' /\ OpenInv' /\ TurnInv'
    BY <1>2, <2>1 DEF CleanInv, ClosedInv, OpenInv, TurnInv, IsSessionUp, linkVars
  <2>4. current # NoOp => current # o /\ current \in Ids
    BY <1>2, <2>1 DEF CleanInv, CurrentInv, TypeOK
  <2>5. CurrentInv' /\ FinishInv'
    BY <1>2, <2>1, <2>2, <2>4 DEF CleanInv, CurrentInv, FinishInv
  <2>6. \A i \in DOMAIN queue : queue[i] # o /\ queue[i] \in Ids
    BY <1>2, <2>1 DEF CleanInv, QueueInv
  <2>7. QueueInv'
    BY <1>2, <2>1, <2>2, <2>6 DEF CleanInv, QueueInv
  <2>8. AnswerInv'
    <3>1. ASSUME NEW x \in Ids, Answered(x) PROVE Answered(x)'
      BY <2>2, <3>1 DEF Answered
    <3>2. \A i \in DOMAIN received : received[i].id # Broadcast => received[i].id \in Ids
      BY <2>1, MessageIds
    <3> QED
      BY <1>2, <2>1, <3>1, <3>2 DEF CleanInv, AnswerInv, TypeOK
  <2> QED
    BY <1>2, <2>1, <2>3, <2>5, <2>7, <2>8 DEF CleanInv
<1>12. CASE UNCHANGED vars
  BY <1>2, <1>12 DEF vars, linkVars, opVars, CleanInv, ClosedInv, OpenInv, TurnInv, CurrentInv,
                     FinishInv, QueueInv, AnswerInv, Answered, IsSessionUp
<1> QED
  BY <1>3, <1>4, <1>5, <1>6, <1>7, <1>8, <1>9, <1>10, <1>11, <1>12 DEF Next, Callers, Device

(* As long as a session is only ever stopped while it is idle with nothing  *)
(* queued or posted, and the device answers requests only, IInv holds.      *)
THEOREM CleanSession == ASSUME OnlyRequestsReplied PROVE Spec => []IInv
<1>1. Init => IInv
  <2> SUFFICES ASSUME Init PROVE CleanInv
    BY DEF IInv
  <2>1. \A o \in Ids : op[o].phase = "free"
    BY DEF Init, NoObject
  <2>2. ClosedInv /\ OpenInv /\ TurnInv /\ CurrentInv /\ FinishInv /\ QueueInv /\ AnswerInv
    BY <2>1 DEF Init, ClosedInv, OpenInv, TurnInv, CurrentInv, FinishInv, QueueInv, AnswerInv,
                IsSessionUp, None, AtMostOne, FinishesOnly
  <2> QED
    BY <2>2 DEF Init, CleanInv
<1>2. TypeOK /\ IInv /\ [Next]_vars => IInv'
  BY CleanStep
<1> QED
  BY <1>1, <1>2, TypeCorrect, PTL DEF Spec

-----------------------------------------------------------------------------
(* What follows for the callers of a session                                *)

(* One operation in flight at a time: it is over before the next is taken.  *)
THEOREM OneOperation == ASSUME OnlyRequestsReplied PROVE Spec => []OneAtATime
<1>1. IInv => OneAtATime
  BY DEF IInv, CleanInv, CurrentInv, TurnInv, OneAtATime, Pending, None
<1> QED
  BY <1>1, CleanSession, PTL

(* The port and the plugin are there for as long as the session is up, and  *)
(* the port is given up when it is stopped.                                 *)
THEOREM PortFollowsState == ASSUME OnlyRequestsReplied PROVE Spec => []PortMatchesState
<1>1. IInv => PortMatchesState
  BY DEF IInv, CleanInv, ClosedInv, OpenInv, IsSessionUp, PortMatchesState
<1> QED
  BY <1>1, CleanSession, PTL

(* A lost port or a failed write has doStopSession() posted.                *)
THEOREM LostPortNoticed == ASSUME OnlyRequestsReplied PROVE Spec => []LostPortStops
<1>1. TypeOK /\ IInv => LostPortStops
  BY DEF TypeOK, SessionStates, IInv, CleanInv, ClosedInv, OpenInv, IsSessionUp, LostPortStops, Pending, None
<1> QED
  BY <1>1, TypeCorrect, CleanSession, PTL

(* No slot runs without the operation or the port it uses.                  *)
THEOREM NoFault == ASSUME OnlyRequestsReplied PROVE Spec => []NeverFaults
<1>1. IInv => NeverFaults
  BY DEF IInv, CleanInv, NeverFaults
<1> QED
  BY <1>1, CleanSession, PTL

(* A session that is up has what it uses, and one that has lost it is on    *)
(* the way to its stop.                                                     *)
THEOREM PortSound == ASSUME OnlyRequestsReplied PROVE Spec => []PortIsSound
BY PortFollowsState, LostPortNoticed, PTL DEF PortIsSound

(* No slot meets an operation that is gone or a second one in flight.       *)
THEOREM SafeSlots == ASSUME OnlyRequestsReplied PROVE Spec => []SlotsAreSafe
BY OneOperation, NoFault, PTL DEF SlotsAreSafe

-----------------------------------------------------------------------------
(* The session executes its operations like a SerialExecutor                *)

(* The end of an operation is Complete or GiveUp of SerialExecutor, or nothing to it. *)
LEMMA FinishExecutes ==
    ASSUME NEW o, NEW ops, NEW before, NEW after, Finish(o, ops, before, after)
    PROVE  Executor!Complete \/ Executor!GiveUp \/ UNCHANGED <<queue, current>>
BY DEF Finish, Executor!Complete, Executor!GiveUp

(* onSerialPortReadyRead() is Complete or GiveUp of SerialExecutor, or nothing to it. *)
LEMMA ReadyReadExecutes ==
    ASSUME NEW data, NEW events, ReadyRead(data, events)
    PROVE  Executor!Complete \/ Executor!GiveUp \/ UNCHANGED <<queue, current>>
<1>1. CASE ~IsSessionUp \/ data = <<>>
  BY <1>1 DEF ReadyRead, opVars
<1>2. CASE ~(~IsSessionUp \/ data = <<>>)
  <2> DEFINE again == IF Tail(data) = <<>> THEN <<>> ELSE <<Event("readyRead")>>
  <2>1. \/ Finish(current, op, events, again)
        \/ Finish(current, Failed(current), events, again)
        \/ UNCHANGED opVars
    BY <1>2 DEF ReadyRead
  <2> HIDE DEF again
  <2> QED
    BY <2>1, FinishExecutes DEF opVars
<1> QED
  BY <1>1, <1>2

(* A step of a clean session is a step of SerialExecutor or leaves its variables alone. *)
LEMMA StepExecutes ==
    ASSUME TypeOK, CleanInv, Next
    PROVE  Executor!ExecutorNext \/ UNCHANGED <<queue, current>>
<1>1. ASSUME NEW kind \in Kinds, EnqueueOperation(kind) PROVE Executor!ExecutorNext
  <2> DEFINE id == GetAndIncrementCounter
  <2>1. id \in Ids /\ id # NoOp /\ op[id].phase = "free"
    BY <1>1, CounterType, NoOpIsNoId DEF EnqueueOperation, Fresh
  <2>2. queue' = Append(queue, id) /\ current' = current
    BY <1>1 DEF EnqueueOperation, QueueJoinedBy
  <2> HIDE DEF id
  <2>3. current # id
    BY <2>1 DEF CleanInv, CurrentInv
  <2>4. id \notin Executor!Waiting
    BY <2>1 DEF Executor!Waiting, CleanInv, QueueInv
  <2>5. Executor!HandOver(id)
    BY <2>2, <2>3, <2>4 DEF Executor!HandOver
  <2> QED
    BY <2>1, <2>5 DEF Executor!ExecutorNext
<1>2. CASE Dispatch
  <2>1. CASE Head(posted).slot = "processQueue" /\ ProcessQueue(Tail(posted))
    <3>1. current = NoOp
      <4>1. posted \in Seq(Events) /\ posted # <<>>
        BY <1>2 DEF Dispatch, TypeOK
      <4>2. 1 \in DOMAIN posted /\ posted[1].slot = "processQueue"
        BY <2>1, <4>1, TailElements
      <4> QED
        BY <4>2 DEF CleanInv, TurnInv, None
    <3>2. CASE queue = <<>>
      BY <2>1, <3>2 DEF ProcessQueue, opVars
    <3>3. CASE queue # <<>>
      BY <2>1, <3>1, <3>3 DEF ProcessQueue, Executor!ExecutorNext, Executor!Begin
    <3> QED
      BY <3>2, <3>3
  <2>2. CASE DoStopSession(Tail(posted))
    BY <2>2, FinishExecutes DEF DoStopSession, opVars, Executor!ExecutorNext
  <2>3. CASE ReadyRead(received, Tail(posted))
    BY <2>3, ReadyReadExecutes DEF Executor!ExecutorNext
  <2>4. CASE FinishLater(Head(posted).op, Tail(posted))
    BY <2>4, FinishExecutes DEF FinishLater, opVars, Executor!ExecutorNext
  <2>5. CASE UseOfDanglingPort
    BY <2>5 DEF UseOfDanglingPort, opVars
  <2> QED
    BY <1>2, <2>1, <2>2, <2>3, <2>4, <2>5 DEF Dispatch
<1>3. ASSUME NEW response, NEW more, DeviceSends(response, more)
      PROVE  Executor!ExecutorNext \/ UNCHANGED <<queue, current>>
  BY <1>3, ReadyReadExecutes DEF DeviceSends, Executor!ExecutorNext
<1>4. ASSUME NEW o \in Ids, Timeout(o)
      PROVE  Executor!ExecutorNext \/ UNCHANGED <<queue, current>>
  BY <1>4, FinishExecutes DEF Timeout, Executor!ExecutorNext
<1>5. ASSUME NEW o \in Ids, Delete(o) PROVE UNCHANGED <<queue, current>>
  BY <1>5 DEF Delete
<1>6. ASSUME \/ \E pluginLoads \in BOOLEAN : StartSession(pluginLoads)
             \/ StopSession
             \/ \E success \in BOOLEAN : HelperFinished(success)
             \/ OnSerialPortErrorOccured
      PROVE  UNCHANGED <<queue, current>>
  BY <1>6 DEF StartSession, StopSession, HelperFinished, OnSerialPortErrorOccured, opVars
<1> QED
  BY <1>1, <1>2, <1>3, <1>4, <1>5, <1>6 DEF Next, Callers, Device

(* Until the session is stopped with work outstanding, its operations are   *)
(* executed one at a time, in the order in which they were queued, and an   *)
(* error gives up those behind it: whatever the device answers, however     *)
(* late, and however often the port is lost.                                *)
THEOREM SessionImplementsExecutor ==
    ASSUME OnlyRequestsReplied PROVE Spec => ImplementsExecutor
<1>1. Init => Executor!ExecutorInit
  BY DEF Init, Executor!ExecutorInit
<1>2. [Next]_vars /\ ~dirtyStop' => ~dirtyStop
  BY DirtyStays
<1>3. TypeOK /\ IInv /\ [Next]_vars => [dirtyStop' \/ Executor!ExecutorNext]_Executor!executorVars
  <2> SUFFICES ASSUME TypeOK, IInv, [Next]_vars, ~dirtyStop'
               PROVE  [Executor!ExecutorNext]_Executor!executorVars
    OBVIOUS
  <2>0. CleanInv
    BY <1>2 DEF IInv
  <2>1. CASE Next
    BY <2>0, <2>1, StepExecutes DEF Executor!executorVars
  <2>2. CASE UNCHANGED vars
    BY <2>2 DEF vars, opVars, Executor!executorVars
  <2> QED
    BY <2>1, <2>2
<1> QED
  BY <1>1, <1>3, TypeCorrect, CleanSession, PTL DEF Spec, ImplementsExecutor

-----------------------------------------------------------------------------
(* The order of the operations: the argument needs no more than the types.   *)

(* Ids in sequence, the last of which is the last that was given.            *)
InSequence(ids, last) ==
    /\ \A i \in 1..(Len(ids) - 1) : ids[i + 1] = Successor(ids[i])
    /\ ids # <<>> => ids[Len(ids)] = last

(* The queue is in sequence, and the current operation comes before it.      *)
LineInv ==
    /\ InSequence(queue, counter)
    /\ current # NoOp => IF queue = <<>> THEN current = counter ELSE queue[1] = Successor(current)

(* The next operation is taken, and a new one is queued.                     *)
LEMMA SequenceChanges ==
    ASSUME NEW ids \in Seq(Ids), NEW last \in Ids \cup {0}, InSequence(ids, last)
    PROVE  /\ Successor(last) \in Ids => InSequence(Append(ids, Successor(last)), Successor(last))
           /\ ids # <<>> => /\ InSequence(Tail(ids), last)
                            /\ IF Tail(ids) = <<>> THEN Head(ids) = last ELSE Tail(ids)[1] = Successor(Head(ids))
<1> DEFINE n == Len(ids)
<1>1. n \in Nat /\ (ids # <<>> => n > 0)
  BY EmptySeq
<1>2. ASSUME Successor(last) \in Ids PROVE InSequence(Append(ids, Successor(last)), Successor(last))
  <2> DEFINE next == Successor(last)
             t == Append(ids, next)
  <2>1. t # <<>> /\ Len(t) = n + 1 /\ t[n + 1] = next /\ \A i \in 1..n : t[i] = ids[i]
    BY <1>2, AppendProperties
  <2> HIDE DEF t, next
  <2>2. ASSUME NEW i \in 1..n PROVE t[i + 1] = Successor(t[i])
    <3>1. CASE i = n
      <4>1. ids # <<>> /\ t[n] = last
        BY <1>1, <2>1, <3>1 DEF InSequence
      <4> QED
        BY <2>1, <3>1, <4>1 DEF next
    <3>2. CASE i # n
      <4>1. i \in 1..(n - 1) /\ i + 1 \in 1..n
        BY <1>1, <3>2
      <4>2. ids[i + 1] = Successor(ids[i])
        BY <4>1 DEF InSequence
      <4> QED
        BY <2>1, <4>1, <4>2
    <3> QED
      BY <3>1, <3>2
  <2>3. InSequence(t, next)
    BY <1>1, <2>1, <2>2 DEF InSequence
  <2> QED
    BY <2>3 DEF t, next
<1>3. ASSUME ids # <<>>
      PROVE  /\ InSequence(Tail(ids), last)
             /\ IF Tail(ids) = <<>> THEN Head(ids) = last ELSE Tail(ids)[1] = Successor(Head(ids))
  <2> DEFINE t == Tail(ids)
  <2>1. /\ t \in Seq(Ids) /\ Len(t) = n - 1 /\ \A i \in 1..(n - 1) : t[i] = ids[i + 1]
        /\ Head(ids) = ids[1] /\ ids[n] = last /\ n \in Nat \ {0}
        /\ (t = <<>> <=> n = 1)
    <3>1. /\ t \in Seq(Ids) /\ Len(t) = n - 1 /\ \A i \in 1..(n - 1) : t[i] = ids[i + 1]
          /\ Head(ids) = ids[1] /\ ids[n] = last /\ n \in Nat \ {0}
      BY <1>1, <1>3, HeadTailProperties DEF InSequence
    <3>2. t = <<>> <=> Len(t) = 0
      BY <3>1, EmptySeq
    <3> QED
      BY <3>1, <3>2
  <2> HIDE DEF t
  <2>2. ASSUME NEW i \in 1..(n - 1 - 1) PROVE t[i + 1] = Successor(t[i])
    <3>1. i \in 1..(n - 1) /\ i + 1 \in 1..(n - 1) /\ i + 1 + 1 \in 1..n
      BY <2>1
    <3>2. t[i] = ids[i + 1] /\ t[i + 1] = ids[i + 1 + 1]
      BY <2>1, <3>1
    <3>3. ids[(i + 1) + 1] = Successor(ids[i + 1])
      BY <3>1 DEF InSequence
    <3> QED
      BY <3>2, <3>3
  <2>3. t # <<>> => t[n - 1] = last
    <3>1. ASSUME t # <<>> PROVE n - 1 \in 1..(n - 1) /\ n - 1 + 1 = n
      BY <2>1, <3>1
    <3> QED
      BY <2>1, <3>1
  <2>4. InSequence(t, last)
    BY <2>1, <2>2, <2>3 DEF InSequence
  <2>5. CASE n = 1
    BY <2>1, <2>4, <2>5 DEF t
  <2>6. CASE n # 1
    <3>1. 1 \in 1..(n - 1) /\ t # <<>>
      BY <2>1, <2>6
    <3>2. t[1] = ids[1 + 1] /\ ids[1 + 1] = Successor(ids[1])
      BY <2>1, <3>1 DEF InSequence
    <3> QED
      BY <2>1, <2>4, <3>1, <3>2 DEF t
  <2> QED
    BY <2>5, <2>6
<1> QED
  BY <1>2, <1>3

(* What a step does to the queue and the current operation.                  *)
LEMMA LineSteps ==
    ASSUME TypeOK, [Next]_vars
    PROVE  \/ UNCHANGED <<queue, current, counter>>
           \/ queue' = Append(queue, Successor(counter)) /\ counter' = Successor(counter) /\ UNCHANGED current
           \/ queue # <<>> /\ current' = Head(queue) /\ queue' = Tail(queue) /\ UNCHANGED counter
           \/ queue' \in {queue, <<>>} /\ current' = NoOp /\ UNCHANGED counter
<1> DEFINE Ends == queue' \in {queue, <<>>} /\ current' \in {current, NoOp}
                     /\ (queue' # queue => current' = NoOp) /\ UNCHANGED counter
<1>1. ASSUME NEW o, NEW ops, NEW before, NEW after, Finish(o, ops, before, after), UNCHANGED counter PROVE Ends
  BY <1>1 DEF Finish
<1>2. ASSUME NEW data, NEW events, ReadyRead(data, events) PROVE Ends
  <2>1. CASE UNCHANGED opVars
    BY <1>2, <2>1 DEF ReadyRead, opVars
  <2>2. CASE ~UNCHANGED opVars
    <3>1. UNCHANGED counter
      BY <1>2 DEF ReadyRead
    <3>2. \E ops, after : Finish(current, ops, events, after)
      BY <1>2, <2>2 DEF ReadyRead
    <3> QED
      BY <1>1, <3>1, <3>2
  <2> QED
    BY <2>1, <2>2
<1>3. CASE Callers
  <2>1. ASSUME NEW kind \in Kinds, EnqueueOperation(kind)
        PROVE  queue' = Append(queue, Successor(counter)) /\ counter' = Successor(counter) /\ UNCHANGED current
    BY <2>1 DEF EnqueueOperation, QueueJoinedBy, GetAndIncrementCounter, Successor
  <2> QED
    BY <1>3, <2>1 DEF Callers, StartSession, StopSession, opVars
<1>4. CASE Device
  BY <1>2, <1>4 DEF Device, HelperFinished, OnSerialPortErrorOccured, DeviceSends, opVars
<1>5. CASE Dispatch
  <2>1. CASE ProcessQueue(Tail(posted))
    BY <2>1 DEF ProcessQueue, opVars
  <2>2. CASE DoStopSession(Tail(posted))
    BY <1>1, <2>2 DEF DoStopSession, opVars
  <2>3. CASE FinishLater(Head(posted).op, Tail(posted))
    BY <1>1, <2>3 DEF FinishLater, opVars
  <2> QED
    BY <1>2, <1>5, <2>1, <2>2, <2>3 DEF Dispatch, UseOfDanglingPort, opVars
<1>6. ASSUME NEW o \in Ids, Timeout(o) \/ Delete(o) PROVE Ends
  BY <1>1, <1>6 DEF Timeout, Delete
<1> QED
  BY <1>3, <1>4, <1>5, <1>6 DEF Next, vars, opVars

(* Operations are run in the order in which they were queued, whatever the   *)
(* width of the counter: also across its wrap, the clearing of the queue and *)
(* a session that is stopped with work outstanding (m_queue, m_counter).     *)
THEOREM OrderIsKept == Spec => []InOrder
<1>1. Init => LineInv
  BY DEF Init, LineInv, InSequence, NoOp
<1>2. TypeOK /\ LineInv /\ [Next]_vars => LineInv'
  <2> SUFFICES ASSUME TypeOK, LineInv, [Next]_vars PROVE LineInv'
    OBVIOUS
  <2>1. queue \in Seq(Ids) /\ counter \in Ids \cup {0} /\ Successor(counter) \in Ids
    BY CounterType DEF TypeOK, GetAndIncrementCounter, Successor
  <2>2. InSequence(<<>>, counter)
    BY DEF InSequence
  <2>3. CASE UNCHANGED <<queue, current, counter>>
    BY <2>3 DEF LineInv
  <2>4. CASE queue' = Append(queue, Successor(counter)) /\ counter' = Successor(counter) /\ UNCHANGED current
    <3> DEFINE t == Append(queue, Successor(counter))
    <3>1. InSequence(t, Successor(counter))
      BY <2>1, SequenceChanges DEF LineInv
    <3>2. /\ t # <<>>
          /\ IF queue = <<>> THEN t[1] = Successor(counter) ELSE t[1] = queue[1]
      <4>1. t # <<>> /\ t[Len(queue) + 1] = Successor(counter) /\ \A i \in 1..Len(queue) : t[i] = queue[i]
        BY <2>1, AppendProperties
      <4>2. queue # <<>> => 1 \in 1..Len(queue)
        BY <2>1, EmptySeq
      <4>3. queue = <<>> => Len(queue) + 1 = 1
        BY <2>1, EmptySeq
      <4> QED
        BY <4>1, <4>2, <4>3
    <3> HIDE DEF t
    <3>3. queue' = t
      BY <2>4 DEF t
    <3> QED
      BY <2>4, <3>1, <3>2, <3>3 DEF LineInv
  <2>5. CASE queue # <<>> /\ current' = Head(queue) /\ queue' = Tail(queue) /\ UNCHANGED counter
    BY <2>1, <2>5, SequenceChanges DEF LineInv
  <2>6. CASE queue' \in {queue, <<>>} /\ current' = NoOp /\ UNCHANGED counter
    BY <2>2, <2>6 DEF LineInv
  <2> QED
    BY <2>3, <2>4, <2>5, <2>6, LineSteps
<1>3. TypeOK /\ LineInv => InOrder
  <2> SUFFICES ASSUME TypeOK, LineInv PROVE InOrder
    OBVIOUS
  <2>1. queue \in Seq(Ids) /\ current \in Ids \cup {NoOp}
    BY DEF TypeOK
  <2>2. CASE current = NoOp
    BY <2>2 DEF LineInv, InSequence, InOrder
  <2>3. CASE current # NoOp
    <3> DEFINE line == <<current>> \o queue
               n == Len(queue)
    <3>1. /\ Len(line) = n + 1 /\ n \in Nat /\ line # <<>> /\ line[1] = current
          /\ \A i \in 1..n : line[i + 1] = queue[i]
          /\ (queue = <<>> <=> n = 0)
      <4>1. <<current>> \in Seq(Ids) /\ Len(<<current>>) = 1
        BY <2>1, <2>3
      <4>2. /\ line \in Seq(Ids) /\ Len(line) = 1 + n
            /\ \A i \in 1..(1 + n) : line[i] = IF i <= 1 THEN <<current>>[i] ELSE queue[i - 1]
        BY <2>1, <4>1, ConcatProperties
      <4>3. n \in Nat /\ (queue = <<>> <=> n = 0)
        BY <2>1, EmptySeq
      <4>4. line # <<>>
        BY <4>2, <4>3, EmptySeq
      <4>5. line[1] = current
        BY <4>2, <4>3
      <4>6. ASSUME NEW i \in 1..n PROVE line[i + 1] = queue[i]
        <5>1. i + 1 \in 1..(1 + n) /\ ~(i + 1 <= 1) /\ i + 1 - 1 = i
          BY <4>3
        <5> QED
          BY <4>2, <5>1
      <4> QED
        BY <4>2, <4>3, <4>4, <4>5, <4>6
    <3> HIDE DEF line
    <3>2. ASSUME NEW i \in 1..n PROVE line[i + 1] = Successor(line[i])
      <4>1. CASE i = 1
        <5>1. queue # <<>>
          BY <3>1
        <5> QED
          BY <2>3, <3>1, <4>1, <5>1 DEF LineInv
      <4>2. CASE i # 1
        <5>1. i - 1 \in 1..(n - 1) /\ i - 1 \in 1..n /\ i - 1 + 1 = i
          BY <3>1, <4>2
        <5>2. queue[i] = Successor(queue[i - 1]) /\ line[i] = queue[i - 1]
          BY <3>1, <5>1 DEF LineInv, InSequence
        <5> QED
          BY <3>1, <5>2
      <4> QED
        BY <4>1, <4>2
    <3>3. line[n + 1] = counter
      <4>1. CASE n = 0
        BY <2>3, <3>1, <4>1 DEF LineInv
      <4>2. CASE n # 0
        <5>1. n \in 1..n /\ queue # <<>>
          BY <3>1, <4>2
        <5> QED
          BY <3>1, <5>1 DEF LineInv, InSequence
      <4> QED
        BY <4>1, <4>2
    <3>4. InOrder <=> (\A i \in 1..(Len(line) - 1) : line[i + 1] = Successor(line[i]))
                        /\ (line # <<>> => line[Len(line)] = counter)
      BY <2>3 DEF InOrder, line
    <3> QED
      BY <3>1, <3>2, <3>3, <3>4
  <2> QED
    BY <2>2, <2>3
<1> QED
  BY <1>1, <1>2, <1>3, TypeCorrect, PTL DEF Spec

=============================================================================
