----------------------- MODULE ApplicationBackend_proofs -----------------------
(***************************************************************************)
(* Theorems about DeviceRegistry and ApplicationBackend, for every set of  *)
(* Flippers and every number of connections and operations.  The registry  *)
(* is first taken alone; what is proved of it holds of it under the        *)
(* backend, by the first theorem about both.                               *)
(***************************************************************************)
EXTENDS ApplicationBackend, SequenceTheorems, TLAPS

-----------------------------------------------------------------------------
(* Lists *)

(* Taking one element out of a sequence moves the later ones down by one. *)
LEMMA Removed ==
    ASSUME NEW S, NEW s \in Seq(S), NEW i \in DOMAIN s
    PROVE  /\ RemoveAt(s, i) \in Seq(S)
           /\ DOMAIN RemoveAt(s, i) = 1..(Len(s) - 1)
           /\ \A j \in 1..(Len(s) - 1) : RemoveAt(s, i)[j] = IF j < i THEN s[j] ELSE s[j + 1]
<1> DEFINE a == SubSeq(s, 1, i - 1)
           b == SubSeq(s, i + 1, Len(s))
<1>1. Len(s) \in Nat /\ i \in 1..Len(s) /\ \A j \in 1..Len(s) : s[j] \in S
  BY LenProperties, ElementOfSeq
<1>2. /\ a \in Seq(S) /\ Len(a) = i - 1
      /\ \A j \in 1..(i - 1) : a[j] = s[j]
  <2>1. i - 1 \in Int /\ 1 \in Int /\ \A j \in 1..(i - 1) : s[j] \in S
    BY <1>1
  <2>2. /\ a \in Seq(S)
        /\ Len(a) = IF 1 <= i - 1 THEN i - 1 - 1 + 1 ELSE 0
        /\ \A j \in 1..(i - 1 - 1 + 1) : a[j] = s[1 + j - 1]
    BY <2>1, SubSeqProperties
  <2> QED
    BY <1>1, <2>2
<1>3. /\ b \in Seq(S) /\ Len(b) = Len(s) - i
      /\ \A j \in 1..(Len(s) - i) : b[j] = s[i + j]
  <2>1. i + 1 \in Int /\ Len(s) \in Int /\ \A j \in (i + 1)..Len(s) : s[j] \in S
    BY <1>1
  <2>2. /\ b \in Seq(S)
        /\ Len(b) = IF i + 1 <= Len(s) THEN Len(s) - (i + 1) + 1 ELSE 0
        /\ \A j \in 1..(Len(s) - (i + 1) + 1) : b[j] = s[i + 1 + j - 1]
    BY <2>1, SubSeqProperties
  <2> QED
    BY <1>1, <2>2
<1>4. /\ a \o b \in Seq(S) /\ Len(a \o b) = Len(s) - 1
      /\ \A j \in 1..(Len(s) - 1) : (a \o b)[j] = IF j <= i - 1 THEN a[j] ELSE b[j - (i - 1)]
  <2> HIDE DEF a, b
  <2>1. /\ a \o b \in Seq(S) /\ Len(a \o b) = Len(a) + Len(b)
        /\ \A j \in 1..(Len(a) + Len(b)) : (a \o b)[j] = IF j <= Len(a) THEN a[j] ELSE b[j - Len(a)]
    BY <1>2, <1>3, ConcatProperties
  <2>2. Len(a) + Len(b) = Len(s) - 1
    BY <1>1, <1>2, <1>3
  <2>3. Len(a) = i - 1
    BY <1>2
  <2> QED
    BY <2>1, <2>2, <2>3
<1>5. RemoveAt(s, i) = a \o b
  BY DEF RemoveAt
<1>6. DOMAIN (a \o b) = 1..(Len(s) - 1)
  BY <1>4, LenProperties
<1>7. ASSUME NEW j \in 1..(Len(s) - 1) PROVE (a \o b)[j] = IF j < i THEN s[j] ELSE s[j + 1]
  <2> HIDE DEF a, b
  <2>1. CASE j < i
    BY <1>1, <1>2, <1>4, <2>1
  <2>2. CASE ~(j < i)
    <3>1. j - (i - 1) \in 1..(Len(s) - i) /\ i + (j - (i - 1)) = j + 1
      BY <1>1, <2>2
    <3>2. ~(j <= i - 1)
      BY <1>1, <2>2
    <3> QED
      BY <1>3, <1>4, <2>2, <3>1, <3>2
  <2> QED
    BY <2>1, <2>2
<1> QED
  BY <1>4, <1>5, <1>6, <1>7

(* A list without duplicates loses the one element that is removed from it, *)
(* and keeps its first unless that one is removed.                          *)
LEMMA RemovedOne ==
    ASSUME NEW S, NEW s \in Seq(S), NEW i \in DOMAIN s,
           \A j, k \in DOMAIN s : s[j] = s[k] => j = k
    PROVE  LET r == RemoveAt(s, i) IN
           /\ r \in Seq(S)
           /\ {r[j] : j \in DOMAIN r} = {s[j] : j \in DOMAIN s} \ {s[i]}
           /\ \A j, k \in DOMAIN r : r[j] = r[k] => j = k
           /\ i = Len(s) /\ r # <<>> => Head(r) = Head(s)
<1> DEFINE r == RemoveAt(s, i)
<1>1. /\ r \in Seq(S) /\ DOMAIN r = 1..(Len(s) - 1)
      /\ \A j \in 1..(Len(s) - 1) : r[j] = IF j < i THEN s[j] ELSE s[j + 1]
  BY Removed
<1>2. Len(s) \in Nat /\ DOMAIN s = 1..Len(s) /\ i \in 1..Len(s)
  BY LenProperties
<1> HIDE DEF r
<1>3. \A j \in DOMAIN r : r[j] \in {s[k] : k \in DOMAIN s} \ {s[i]}
  <2> SUFFICES ASSUME NEW j \in DOMAIN r PROVE r[j] \in {s[k] : k \in DOMAIN s} \ {s[i]}
    OBVIOUS
  <2>1. CASE j < i
    BY <1>1, <1>2, <2>1
  <2>2. CASE ~(j < i)
    BY SMTT(20), ZenonT(30), <1>1, <1>2, <2>2
  <2> QED
    BY <2>1, <2>2
<1>4. \A k \in DOMAIN s : s[k] # s[i] => \E j \in DOMAIN r : r[j] = s[k]
  <2> SUFFICES ASSUME NEW k \in DOMAIN s, s[k] # s[i] PROVE \E j \in DOMAIN r : r[j] = s[k]
    OBVIOUS
  <2>1. CASE k < i
    <3>1. k \in DOMAIN r /\ r[k] = s[k]
      BY <1>1, <1>2, <2>1
    <3> QED
      BY <3>1
  <2>2. CASE ~(k < i)
    <3>1. k > i
      BY <1>2, <2>2
    <3>2. k - 1 \in DOMAIN r /\ ~(k - 1 < i) /\ (k - 1) + 1 = k
      BY <1>1, <1>2, <3>1
    <3>3. r[k - 1] = s[k]
      BY <1>1, <3>2
    <3> QED
      BY <3>2, <3>3
  <2> QED
    BY <2>1, <2>2
<1>5. \A j, k \in DOMAIN r : r[j] = r[k] => j = k
  <2> SUFFICES ASSUME NEW j \in DOMAIN r, NEW k \in DOMAIN r, r[j] = r[k] PROVE j = k
    OBVIOUS
  <2>1. \A m \in DOMAIN r : m \in 1..Len(s) /\ m + 1 \in 1..Len(s)
    BY <1>1, <1>2
  <2>2. CASE j < i /\ k < i
    BY <1>1, <1>2, <2>1, <2>2
  <2>3. CASE ~(j < i) /\ ~(k < i)
    BY <1>1, <1>2, <2>1, <2>3
  <2>4. CASE j < i /\ ~(k < i)
    BY <1>1, <1>2, <2>1, <2>4
  <2>5. CASE ~(j < i) /\ k < i
    BY <1>1, <1>2, <2>1, <2>5
  <2> QED
    BY <2>2, <2>3, <2>4, <2>5
<1>6. i = Len(s) /\ r # <<>> => Head(r) = Head(s)
  <2> SUFFICES ASSUME i = Len(s), r # <<>> PROVE Head(r) = Head(s)
    OBVIOUS
  <2>1. Len(r) \in Nat \ {0} /\ DOMAIN r = 1..Len(r)
    BY <1>1, EmptySeq, LenProperties
  <2>2. 1 \in 1..(Len(s) - 1)
    BY <1>1, <2>1
  <2>3. r[1] = s[1]
    BY <1>1, <1>2, <2>2
  <2>4. Head(r) = r[1] /\ Head(s) = s[1]
    OBVIOUS
  <2> QED
    BY <2>3, <2>4
<1>7. {r[j] : j \in DOMAIN r} = {s[j] : j \in DOMAIN s} \ {s[i]}
  BY <1>3, <1>4
<1> QED
  BY <1>1, <1>5, <1>6, <1>7 DEF r

-----------------------------------------------------------------------------
(* Devices *)

(* Appending an element to a sequence leaves the others where they were. *)
LEMMA Appended ==
    ASSUME NEW S, NEW s \in Seq(S), NEW e \in S
    PROVE  /\ Append(s, e) \in Seq(S) /\ Append(s, e) # <<>>
           /\ Last(Append(s, e)) = e
           /\ DOMAIN Append(s, e) = DOMAIN s \cup {Len(s) + 1}
           /\ Len(s) + 1 \notin DOMAIN s
           /\ \A i \in DOMAIN s : Append(s, e)[i] = s[i]
           /\ Append(s, e)[Len(s) + 1] = e
BY AppendProperties DEF Last

(* The last element of a sequence is in the set the others are from. *)
LEMMA LastIsElement ==
    ASSUME NEW S, NEW s \in Seq(S), s # <<>>
    PROVE  Last(s) \in S
<1>1. Len(s) \in Nat \ {0}
  BY EmptySeq
<1>2. Len(s) \in 1..Len(s)
  BY <1>1
<1> QED
  BY <1>2, ElementOfSeq DEF Last

(* The information n is what d uses or will use once it is offline.         *)
Fresh(d, n) ==
    IF d.queue = <<>> THEN d.info = n ELSE d.online /\ Last(d.queue) = n

(* A device that goes online keeps its information and its queue. *)
LEMMA OnlineFields ==
    ASSUME NEW d \in Device
    PROVE  /\ GoesOnline(d) \in Device
           /\ GoesOnline(d).info = d.info /\ GoesOnline(d).queue = d.queue /\ GoesOnline(d).online
BY DEF GoesOnline, Device

(* A change of information reported by a device keeps what it holds of it. *)
LEMMA ChangedFields ==
    ASSUME NEW d \in Device
    PROVE  /\ DeviceInfoChanged(d) \in Device
           /\ DeviceInfoChanged(d).info = d.info /\ DeviceInfoChanged(d).queue = d.queue
           /\ d.online => DeviceInfoChanged(d).online
<1> DEFINE cleared == [d EXCEPT !.error = FALSE]
<1>1. /\ cleared \in Device /\ cleared.info = d.info /\ cleared.queue = d.queue
      /\ cleared.online = d.online /\ cleared.timers \in Nat /\ d.info.usb \in Connections
  BY DEF Device, UsbInfo
<1>2. CASE d.online
  BY <1>1, <1>2 DEF DeviceInfoChanged, IsUpAlready
<1>3. CASE ~d.online /\ d.info.dfu
  <2>1. DeviceInfoChanged(d) = GoesOnline(cleared)
    BY <1>3 DEF DeviceInfoChanged, IsUpAlready
  <2> HIDE DEF cleared
  <2> QED
    BY <1>1, <1>3, <2>1, OnlineFields
<1>4. CASE ~d.online /\ ~d.info.dfu
  <2>1. DeviceInfoChanged(d) = [cleared EXCEPT !.port = d.info.usb, !.timers = @ + 1]
    BY <1>4 DEF DeviceInfoChanged, IsUpAlready
  <2> DEFINE up == [cleared EXCEPT !.port = d.info.usb, !.timers = @ + 1]
  <2>2. up \in Device /\ up.info = cleared.info /\ up.queue = cleared.queue
    <3> HIDE DEF cleared
    <3>1. cleared.timers + 1 \in Nat /\ d.info.usb \in Connections \cup {NoPort}
      BY <1>1
    <3> QED
      BY <1>1, <3>1 DEF Device
  <2> HIDE DEF cleared, up
  <2> QED
    BY <1>1, <1>4, <2>1, <2>2 DEF up
<1> QED
  BY <1>2, <1>3, <1>4

(* setDeviceInfo() leaves the device with the newest information in use or last in its queue. *)
LEMMA SetDeviceInfoFields ==
    ASSUME NEW d \in Device, NEW info \in UsbInfo
    PROVE  /\ SetDeviceInfo(d, info) \in Device
           /\ (d.queue # <<>> => d.online) => Fresh(SetDeviceInfo(d, info), info)
           /\ ~d.online => SetDeviceInfo(d, info).info = info /\ SetDeviceInfo(d, info).queue = d.queue
<1>1. CASE d.online
  <2>1. Append(d.queue, info) \in Seq(UsbInfo) /\ Append(d.queue, info) # <<>> /\ Last(Append(d.queue, info)) = info
    <3>1. d.queue \in Seq(UsbInfo)
      BY DEF Device
    <3> QED
      BY <3>1, Appended
  <2>2. SetDeviceInfo(d, info) = [d EXCEPT !.queue = Append(d.queue, info)]
    BY <1>1 DEF SetDeviceInfo, ComesTooEarly, Device
  <2>3. /\ SetDeviceInfo(d, info) \in Device
        /\ SetDeviceInfo(d, info).queue = Append(d.queue, info) /\ SetDeviceInfo(d, info).online = d.online
    BY <2>1, <2>2 DEF Device
  <2> QED
    BY <1>1, <2>1, <2>3 DEF Fresh
<1>2. CASE ~d.online
  <2> DEFINE e == [d EXCEPT !.info = info]
  <2>1. e \in Device /\ e.info = info /\ e.queue = d.queue
    BY DEF Device
  <2>2. SetDeviceInfo(d, info) = DeviceInfoChanged(e)
    BY <1>2 DEF SetDeviceInfo, ComesTooEarly
  <2> HIDE DEF e
  <2>3. /\ SetDeviceInfo(d, info) \in Device
        /\ SetDeviceInfo(d, info).info = info /\ SetDeviceInfo(d, info).queue = d.queue
    BY <2>1, <2>2, ChangedFields
  <2> QED
    BY <1>2, <2>3 DEF Fresh
<1> QED
  BY <1>1, <1>2

(* A device that goes offline takes the latest piece of its queue, and so loses no newer one. *)
LEMMA OfflineFields ==
    ASSUME NEW d \in Device, NEW n, Fresh(d, n)
    PROVE  GoesOffline(d) \in Device /\ Fresh(GoesOffline(d), n)
<1> DEFINE off == [d EXCEPT !.online = FALSE]
<1>1. off \in Device /\ off.info = d.info /\ off.queue = d.queue /\ ~off.online
  BY DEF Device
<1>2. CASE ~d.online \/ d.queue = <<>>
  <2>1. GoesOffline(d) = off /\ d.queue = <<>>
    BY <1>2 DEF GoesOffline, Fresh
  <2> QED
    BY <1>1, <2>1 DEF Fresh
<1>3. CASE d.online /\ d.queue # <<>>
  <2>1. Last(d.queue) \in UsbInfo /\ Last(d.queue) = n
    <3>1. d.queue \in Seq(UsbInfo)
      BY DEF Device
    <3> QED
      BY <1>3, <3>1, LastIsElement DEF Fresh
  <2>2. GoesOffline(d) = [SetDeviceInfo(off, n) EXCEPT !.queue = <<>>]
    BY <1>3, <2>1 DEF GoesOffline, TakeLatest
  <2> HIDE DEF off
  <2>3. SetDeviceInfo(off, n) \in Device /\ SetDeviceInfo(off, n).info = n
    BY <1>1, <2>1, SetDeviceInfoFields
  <2>4. <<>> \in Seq(UsbInfo)
    BY EmptySeq
  <2> DEFINE set == SetDeviceInfo(off, n)
  <2>5. set \in Device /\ set.info = n /\ GoesOffline(d) = [set EXCEPT !.queue = <<>>]
    BY <2>2, <2>3
  <2> HIDE DEF set
  <2>6. GoesOffline(d) \in Device /\ GoesOffline(d).queue = <<>> /\ GoesOffline(d).info = n
    BY <2>4, <2>5 DEF Device
  <2> QED
    BY <2>6 DEF Fresh
<1> QED
  BY <1>2, <1>3

(* A device just made holds the information it was made from. *)
LEMMA NewFields ==
    ASSUME NEW info \in UsbInfo
    PROVE  NewDevice(info) \in Device /\ Fresh(NewDevice(info), info)
<1> DEFINE d == [info |-> info, persistent |-> FALSE, online |-> FALSE, error |-> FALSE,
                 queue |-> <<>>, timers |-> 0, port |-> NoPort, opened |-> NoPort,
                 session |-> "Stopped", refused |-> FALSE]
<1>1. d \in Device /\ d.info = info /\ d.queue = <<>>
  <2>1. <<>> \in Seq(UsbInfo)
    BY EmptySeq
  <2> QED
    BY <2>1 DEF Device
<1>2. NewDevice(info) = DeviceInfoChanged(d)
  BY DEF NewDevice
<1> HIDE DEF d
<1> QED
  BY <1>1, <1>2, ChangedFields DEF Fresh

-----------------------------------------------------------------------------
(* The registry *)

RegistryInv == TypeOK /\ OneObjectEach /\ ListenersAreCurrent /\ InfoIsNewest

(* RegistryInv in the form in which the steps use it.                       *)
LEMMA InvFacts ==
    ASSUME RegistryInv
    PROVE  /\ devices \in Seq(Flipper) /\ DOMAIN dev = Listed /\ helpers \subseteq Info
           /\ \A f \in DOMAIN dev : dev[f] \in Device /\ Fresh(dev[f], newest[f]) /\ f \in Flipper
           /\ \A i \in DOMAIN devices : devices[i] \in DOMAIN dev
           /\ \A i, j \in DOMAIN devices : devices[i] = devices[j] => i = j
           /\ newest \in [Flipper -> UsbInfo \cup {NoInfo}]
           /\ announced \in Flipper \cup {NoDevice}
BY DEF RegistryInv, TypeOK, OneObjectEach, InfoIsNewest, Fresh, Listed

(* A device changes, and nothing about the list.                            *)
LEMMA UpdateKeepsInv ==
    ASSUME RegistryInv, NEW f \in DOMAIN dev, NEW d \in Device,
           Update(f, d), Fresh(d, newest'[f]),
           newest' \in [Flipper -> UsbInfo \cup {NoInfo}],
           \A g \in Flipper : g # f => newest'[g] = newest[g],
           UNCHANGED <<devices, announced>>,
           made' \in Nat, attached' \subseteq Connections, helpers' \subseteq Info,
           queryInProgress' \in BOOLEAN, error' \in BOOLEAN, fault' = fault
    PROVE  RegistryInv'
<1>1. DOMAIN dev' = DOMAIN dev /\ \A g \in DOMAIN dev : dev'[g] = IF g = f THEN d ELSE dev[g]
  BY DEF Update
<1>2. \A g \in DOMAIN dev : dev'[g] \in Device /\ Fresh(dev'[g], newest'[g])
  BY <1>1, InvFacts
<1>3. Listed' = Listed
  BY DEF Listed
<1>4. TypeOK'
  BY <1>1, <1>2, <1>3, InvFacts DEF TypeOK, RegistryInv
<1>5. OneObjectEach' /\ ListenersAreCurrent'
  BY DEF RegistryInv, OneObjectEach, ListenersAreCurrent, CurrentDevice
<1>6. InfoIsNewest'
  BY <1>1, <1>2, <1>3, InvFacts DEF InfoIsNewest, Fresh
<1> QED
  BY <1>4, <1>5, <1>6 DEF RegistryInv

(* Errors of devices may be set or cleared, which the invariant is not about. *)
SameButError(devs, old) ==
    /\ DOMAIN devs = DOMAIN old
    /\ \A f \in DOMAIN old : \E isError \in BOOLEAN : devs[f] = [old[f] EXCEPT !.error = isError]

(* Clearing the error of the current device changes nothing else of any device. *)
LEMMA ErrorClearedSame ==
    ASSUME NEW list, NEW devs, \A f \in DOMAIN devs : devs[f] \in Device
    PROVE  SameButError(ErrorCleared(list, devs), devs)
<1> SUFFICES ASSUME NEW f \in DOMAIN devs
             PROVE  \E isError \in BOOLEAN :
                        ErrorCleared(list, devs)[f] = [devs[f] EXCEPT !.error = isError]
  BY DEF SameButError, ErrorCleared
<1>1. devs[f] = [devs[f] EXCEPT !.error = devs[f].error] /\ devs[f].error \in BOOLEAN
  BY DEF Device
<1>2. CASE f = CurrentDevice(list)
  BY <1>2 DEF ErrorCleared
<1>3. CASE f # CurrentDevice(list)
  BY <1>1, <1>3 DEF ErrorCleared
<1> QED
  BY <1>2, <1>3

(* An error set on a device leaves its information as new as it was. *)
LEMMA ErrorFields ==
    ASSUME NEW d \in Device, NEW isError \in BOOLEAN, NEW n, Fresh(d, n)
    PROVE  [d EXCEPT !.error = isError] \in Device /\ Fresh([d EXCEPT !.error = isError], n)
<1> DEFINE e == [d EXCEPT !.error = isError]
<1>1. e \in Device /\ e.info = d.info /\ e.queue = d.queue /\ e.online = d.online
  BY DEF Device
<1> HIDE DEF e
<1>2. Fresh(e, n)
  BY <1>1 DEF Fresh
<1> QED
  BY <1>1, <1>2 DEF e

(* The entry i leaves the list, and listeners hear of it or i was the last. *)
LEMMA TakeAtKeepsInv ==
    ASSUME RegistryInv, NEW i \in DOMAIN devices,
           devices' = RemoveAt(devices, i), SameButError(dev', WithoutDeviceAt(i)),
           \/ announced' = CurrentDevice(devices')
           \/ i = Len(devices) /\ announced' = announced,
           UNCHANGED <<made, helpers, queryInProgress, newest, fault>>,
           attached' \subseteq Connections, error' \in BOOLEAN
    PROVE  RegistryInv'
<1>1. /\ devices' \in Seq(Flipper) /\ Listed' = Listed \ {devices[i]}
      /\ \A j, k \in DOMAIN devices' : devices'[j] = devices'[k] => j = k
      /\ i = Len(devices) /\ devices' # <<>> => Head(devices') = Head(devices)
  <2>1. devices' = RemoveAt(devices, i)
    OBVIOUS
  <2>2. devices \in Seq(Flipper) /\ \A j, k \in DOMAIN devices : devices[j] = devices[k] => j = k
    BY InvFacts
  <2> DEFINE r == RemoveAt(devices, i)
  <2>3. /\ r \in Seq(Flipper)
        /\ {r[j] : j \in DOMAIN r} = {devices[j] : j \in DOMAIN devices} \ {devices[i]}
        /\ \A j, k \in DOMAIN r : r[j] = r[k] => j = k
        /\ i = Len(devices) /\ r # <<>> => Head(r) = Head(devices)
    BY <2>2, RemovedOne
  <2> HIDE DEF r
  <2>4. devices' = r
    BY <2>1 DEF r
  <2> QED
    BY <2>3, <2>4 DEF Listed
<1>2. /\ DOMAIN dev' = Listed'
      /\ \A f \in DOMAIN dev' : f \in DOMAIN dev /\ dev'[f] \in Device /\ Fresh(dev'[f], newest[f])
  <2>1. DOMAIN dev' = Listed' /\ DOMAIN WithoutDeviceAt(i) = DOMAIN dev'
    BY <1>1, InvFacts DEF WithoutDeviceAt, SameButError
  <2>2. ASSUME NEW f \in DOMAIN dev' 
        PROVE  f \in DOMAIN dev /\ dev'[f] \in Device /\ Fresh(dev'[f], newest[f])
    <3>1. f \in DOMAIN dev /\ WithoutDeviceAt(i)[f] = dev[f]
      BY <2>1 DEF WithoutDeviceAt
    <3>2. PICK isError \in BOOLEAN : dev'[f] = [dev[f] EXCEPT !.error = isError]
      BY <2>1, <3>1 DEF SameButError
    <3> QED
      BY <3>1, <3>2, InvFacts, ErrorFields
  <2> QED
    BY <2>1, <2>2
<1>3. devices' # <<>> => Head(devices') \in Flipper
  BY <1>1, HeadTailProperties
<1>4. devices # <<>>
  BY InvFacts
<1>5. announced' \in Flipper \cup {NoDevice}
  BY <1>3, InvFacts DEF CurrentDevice
<1>6. TypeOK'
  BY <1>1, <1>2, <1>5, InvFacts DEF TypeOK, RegistryInv
<1>7. ListenersAreCurrent'
  BY <1>1, <1>4 DEF RegistryInv, ListenersAreCurrent, CurrentDevice
<1>8. OneObjectEach' /\ InfoIsNewest'
  BY <1>1, <1>2, InvFacts DEF OneObjectEach, InfoIsNewest, Fresh
<1> QED
  BY <1>6, <1>7, <1>8 DEF RegistryInv

(* A device that is not listed is appended, and is announced if it is the   *)
(* first.                                                                   *)
LEMMA RegisterKeepsInv ==
    ASSUME RegistryInv, NEW query \in helpers, ~IsListed(query.name),
           devices' = Append(devices, query.name),
           dev' = [f \in DOMAIN dev \cup {query.name} |->
                      IF f = query.name THEN NewDevice(query.info) ELSE dev[f]],
           announced' = IF Len(devices') = 1 THEN Announces(devices') ELSE announced,
           newest' = [newest EXCEPT ![query.name] = query.info],
           UNCHANGED <<made, attached, fault>>, helpers' \subseteq Info,
           queryInProgress' \in BOOLEAN, error' \in BOOLEAN
    PROVE  RegistryInv'
<1> DEFINE f == query.name
<1>1. f \in Flipper /\ query.info \in UsbInfo
  BY InvFacts DEF Info
<1>2. f \notin DOMAIN dev /\ \A i \in DOMAIN devices : devices[i] # f
  BY InvFacts DEF IsListed, Listed
<1>3. /\ devices' \in Seq(Flipper) /\ devices' # <<>>
      /\ DOMAIN devices' = DOMAIN devices \cup {Len(devices) + 1}
      /\ Len(devices) + 1 \notin DOMAIN devices
      /\ \A i \in DOMAIN devices : devices'[i] = devices[i]
      /\ devices'[Len(devices) + 1] = f
  BY <1>1, InvFacts, Appended
<1>4. Listed' = Listed \cup {f} /\ \A i, j \in DOMAIN devices' : devices'[i] = devices'[j] => i = j
  BY <1>2, <1>3, InvFacts DEF Listed
<1>5. NewDevice(query.info) \in Device /\ Fresh(NewDevice(query.info), query.info)
  BY <1>1, NewFields
<1>6. /\ newest' \in [Flipper -> UsbInfo \cup {NoInfo}] /\ newest'[f] = query.info
      /\ \A g \in Flipper : g # f => newest'[g] = newest[g]
  BY <1>1, InvFacts
<1>7. /\ DOMAIN dev' = Listed'
      /\ \A g \in DOMAIN dev' : dev'[g] \in Device /\ Fresh(dev'[g], newest'[g])
  BY <1>2, <1>4, <1>5, <1>6, InvFacts
<1>8. devices' # <<>> /\ Head(devices') \in Flipper
  BY <1>3, HeadTailProperties
<1>9. announced' = CurrentDevice(devices')
  <2>1. CASE devices = <<>>
    <3>1. Len(devices') = 1
      BY <2>1, InvFacts, <1>1, AppendProperties, EmptySeq
    <3> QED
      BY <3>1 DEF Announces
  <2>2. CASE devices # <<>>
    <3>1. Len(devices') # 1 /\ Head(devices') = Head(devices)
      <4>1. Len(devices) \in Nat \ {0}
        BY <2>2, InvFacts, EmptySeq
      <4>2. Len(devices') = Len(devices) + 1
        BY <1>1, InvFacts, AppendProperties
      <4>3. Head(devices') = Head(devices)
        BY <2>2, <1>1, InvFacts, HeadTailAppend
      <4> QED
        BY <4>1, <4>2, <4>3
    <3> QED
      BY <1>8, <2>2, <3>1 DEF RegistryInv, ListenersAreCurrent, CurrentDevice
  <2> QED
    BY <2>1, <2>2
<1>10. TypeOK'
  BY <1>3, <1>6, <1>7, <1>8, <1>9, InvFacts DEF TypeOK, RegistryInv, CurrentDevice
<1>11. OneObjectEach' /\ ListenersAreCurrent' /\ InfoIsNewest'
  BY <1>4, <1>7, <1>9 DEF OneObjectEach, ListenersAreCurrent, InfoIsNewest, Fresh
<1> QED
  BY <1>10, <1>11 DEF RegistryInv

(* Every step of the registry keeps the invariant.                          *)
LEMMA StepKeepsInv == RegistryInv /\ [Next]_vars => RegistryInv'
<1> SUFFICES ASSUME RegistryInv, [Next]_vars PROVE RegistryInv'
  OBVIOUS
<1>1. /\ made \in Nat /\ attached \subseteq Connections /\ helpers \subseteq Info
      /\ queryInProgress \in BOOLEAN /\ error \in BOOLEAN
      /\ devices \in Seq(Flipper) /\ newest \in [Flipper -> UsbInfo \cup {NoInfo}]
  BY DEF RegistryInv, TypeOK
<1>2. ASSUME NEW f \in Flipper, NEW dfu \in BOOLEAN, NEW complete \in BOOLEAN,
             InsertDevice(f, dfu, complete)
      PROVE  RegistryInv'
  <2>1. made + 1 \in Connections
    BY <1>1, <1>2, BoundsAssumption DEF InsertDevice, Connections
  <2>2. made' \in Nat /\ attached' \subseteq Connections
    BY <1>1, <1>2, <2>1 DEF InsertDevice
  <2>3. helpers' \subseteq Info /\ queryInProgress' \in BOOLEAN /\ error' \in BOOLEAN
    <3>1. [name |-> f, info |-> [usb |-> made + 1, dfu |-> dfu]] \in Info
      BY <2>1 DEF Info, UsbInfo
    <3>2. CASE complete
      BY <1>1, <1>2, <3>1, <3>2 DEF InsertDevice
    <3>3. CASE ~complete
      BY <1>1, <1>2, <3>3 DEF InsertDevice
    <3> QED
      BY <3>2, <3>3
  <2>4. UNCHANGED <<devices, dev, announced, newest, fault>>
    BY <1>2 DEF InsertDevice
  <2> QED
    BY <2>2, <2>3, <2>4
       DEF RegistryInv, TypeOK, OneObjectEach, ListenersAreCurrent, InfoIsNewest, Listed, CurrentDevice
<1>3. ASSUME NEW usb \in Connections, RemoveDevice(usb) PROVE RegistryInv'
  <2>1. /\ UNCHANGED <<made, helpers, queryInProgress, error, newest, fault>>
        /\ attached' \subseteq Connections
    BY <1>1, <1>3 DEF RemoveDevice
  <2>2. CASE UNCHANGED <<devices, dev, announced>>
    BY <2>1, <2>2
       DEF RegistryInv, TypeOK, OneObjectEach, ListenersAreCurrent, InfoIsNewest, Listed, CurrentDevice
  <2>3. ASSUME NEW i \in DOMAIN devices, TakeAt(i), announced' = Announces(devices')
        PROVE  RegistryInv'
    <3>1. SameButError(dev', WithoutDeviceAt(i))
      <4>1. \A f \in DOMAIN WithoutDeviceAt(i) : WithoutDeviceAt(i)[f] \in Device
        BY InvFacts DEF WithoutDeviceAt
      <4>2. \A f \in DOMAIN WithoutDeviceAt(i) :
               /\ WithoutDeviceAt(i)[f].error \in BOOLEAN
               /\ WithoutDeviceAt(i)[f] = [WithoutDeviceAt(i)[f] EXCEPT !.error = WithoutDeviceAt(i)[f].error]
        BY <4>1 DEF Device
      <4> QED
        BY <2>3, <4>2 DEF TakeAt, SameButError
    <3> QED
      BY <1>1, <2>1, <2>3, <3>1, TakeAtKeepsInv DEF Announces, TakeAt
  <2>4. ASSUME NEW i \in DOMAIN devices, Update(devices[i], GoesOffline(dev[devices[i]])),
               UNCHANGED <<devices, announced>>
        PROVE  RegistryInv'
    <3>1. devices[i] \in DOMAIN dev /\ dev[devices[i]] \in Device /\ Fresh(dev[devices[i]], newest[devices[i]])
      BY InvFacts
    <3>2. GoesOffline(dev[devices[i]]) \in Device /\ Fresh(GoesOffline(dev[devices[i]]), newest[devices[i]])
      BY <3>1, OfflineFields
    <3> QED
      BY <1>1, <2>1, <2>4, <3>1, <3>2, UpdateKeepsInv
  <2> QED
    BY <1>3, <2>2, <2>3, <2>4 DEF RemoveDevice
<1>4. ASSUME NEW query \in helpers, NEW success \in BOOLEAN, ProcessDevice(query, success)
      PROVE  RegistryInv'
  <2>1. /\ UNCHANGED <<made, attached, fault>> /\ helpers' \subseteq Info
        /\ queryInProgress' \in BOOLEAN /\ error' \in BOOLEAN
    BY <1>1, <1>4 DEF ProcessDevice
  <2>2. query.name \in Flipper /\ query.info \in UsbInfo
    BY <1>1 DEF Info
  <2>3. CASE ~success
    <3>1. UNCHANGED <<devices, dev, announced, newest>>
      BY <1>4, <2>3 DEF ProcessDevice
    <3> QED
      BY <1>1, <2>1, <3>1
         DEF RegistryInv, TypeOK, OneObjectEach, ListenersAreCurrent, InfoIsNewest, Listed, CurrentDevice
  <2>4. CASE success /\ IsListed(query.name)
    <3> DEFINE f == query.name
               d == SetDeviceInfo(dev[f], query.info)
    <3>1. /\ Update(f, d) /\ UNCHANGED <<devices, announced>>
          /\ newest' = [newest EXCEPT ![f] = query.info]
      BY <1>4, <2>4 DEF ProcessDevice
    <3>2. f \in DOMAIN dev /\ dev[f] \in Device /\ Fresh(dev[f], newest[f])
      BY <2>4, InvFacts DEF IsListed
    <3>3. d \in Device /\ Fresh(d, query.info)
      BY <2>2, <3>2, SetDeviceInfoFields DEF Fresh
    <3> HIDE DEF d
    <3>4. /\ newest' \in [Flipper -> UsbInfo \cup {NoInfo}] /\ newest'[f] = query.info
          /\ \A g \in Flipper : g # f => newest'[g] = newest[g]
      BY <1>1, <2>2, <3>1
    <3> QED
      BY <1>1, <2>1, <3>1, <3>2, <3>3, <3>4, UpdateKeepsInv
  <2>5. CASE success /\ ~IsListed(query.name)
    <3>1. /\ devices' = Append(devices, query.name)
          /\ dev' = [f \in DOMAIN dev \cup {query.name} |->
                        IF f = query.name THEN NewDevice(query.info) ELSE dev[f]]
          /\ announced' = IF Len(devices') = 1 THEN Announces(devices') ELSE announced
          /\ newest' = [newest EXCEPT ![query.name] = query.info]
      BY <1>4, <2>5 DEF ProcessDevice
    <3> QED
      BY <2>1, <2>5, <3>1, RegisterKeepsInv
  <2> QED
    BY <2>3, <2>4, <2>5
<1>5. CASE RemoveOfflineDevices
  <2>1. UNCHANGED <<made, attached, helpers, queryInProgress, announced, newest>> /\ error' \in BOOLEAN
    BY <1>5 DEF RemoveOfflineDevices
  <2>2. CASE /\ UNCHANGED <<devices, dev>>
             /\ fault' \in {"none", "onlineDeleted", "pastTheEnd"}
    BY <2>1, <2>2
       DEF RegistryInv, TypeOK, OneObjectEach, ListenersAreCurrent, InfoIsNewest, Listed, CurrentDevice
  <2>3. CASE dev' = ErrorCleared(devices, dev) /\ UNCHANGED <<devices, fault>>
    <3>1. SameButError(dev', dev)
      BY <2>3, InvFacts, ErrorClearedSame
    <3>2. DOMAIN dev' = DOMAIN dev /\ \A f \in DOMAIN dev : dev'[f] \in Device /\ Fresh(dev'[f], newest[f])
      <4>1. ASSUME NEW f \in DOMAIN dev PROVE dev'[f] \in Device /\ Fresh(dev'[f], newest[f])
        <5>1. PICK isError \in BOOLEAN : dev'[f] = [dev[f] EXCEPT !.error = isError]
          BY <3>1 DEF SameButError
        <5> QED
          BY <5>1, InvFacts, ErrorFields
      <4> QED
        BY <3>1, <4>1 DEF SameButError
    <3>3. TypeOK'
      BY <1>1, <2>1, <2>3, <3>2 DEF RegistryInv, TypeOK, Listed
    <3> QED
      BY <2>1, <2>3, <3>2, <3>3, InvFacts
         DEF RegistryInv, OneObjectEach, ListenersAreCurrent, InfoIsNewest, Listed, CurrentDevice, Fresh
  <2>4. CASE /\ Len(devices) \in DOMAIN devices
             /\ devices' = RemoveAt(devices, Len(devices))
             /\ dev' = ErrorCleared(devices', WithoutDeviceAt(Len(devices)))
             /\ UNCHANGED fault
    <3>1. SameButError(dev', WithoutDeviceAt(Len(devices)))
      <4>1. \A f \in DOMAIN WithoutDeviceAt(Len(devices)) : WithoutDeviceAt(Len(devices))[f] \in Device
        BY InvFacts DEF WithoutDeviceAt
      <4> QED
        BY <2>4, <4>1, ErrorClearedSame
    <3> QED
      BY <1>1, <2>1, <2>4, <3>1, TakeAtKeepsInv
  <2> QED
    BY <1>5, <2>2, <2>3, <2>4 DEF RemoveOfflineDevices, RegistryInv, TypeOK
<1>6. ASSUME NEW f \in DOMAIN dev, DeviceStep(f) PROVE RegistryInv'
  <2>1. dev[f] \in Device /\ Fresh(dev[f], newest[f]) /\ dev[f].timers \in Nat /\ dev[f].port \in Connections \cup {NoPort}
    BY InvFacts DEF Device
  <2>2. ASSUME NEW d \in Device, Update(f, d), Fresh(d, newest[f]),
               UNCHANGED <<made, attached, helpers, devices, queryInProgress, error, announced, newest, fault>>
        PROVE  RegistryInv'
    BY <1>1, <2>2, UpdateKeepsInv
  <2>3. ASSUME NEW pluginLoads \in BOOLEAN, StartSession(f, pluginLoads) PROVE RegistryInv'
    <3> DEFINE d == [dev[f] EXCEPT !.timers = @ - 1]
               e == CASE d.session # "Stopped" -> [d EXCEPT !.refused = TRUE]
                      [] d.session = "Stopped" /\ pluginLoads ->
                            [d EXCEPT !.session = "Starting", !.opened = d.port, !.refused = FALSE]
                      [] OTHER -> [d EXCEPT !.error = TRUE, !.refused = FALSE]
    <3>1. dev[f].timers - 1 \in Nat
      BY <2>1, <2>3 DEF StartSession
    <3>2. /\ d \in Device /\ d.port \in Connections \cup {NoPort}
          /\ d.info = dev[f].info /\ d.queue = dev[f].queue /\ d.online = dev[f].online
      BY <2>1, <3>1 DEF Device
    <3>3. Update(f, e)
      BY <2>3 DEF StartSession
    <3> HIDE DEF d
    <3>4. e \in Device /\ e.info = d.info /\ e.queue = d.queue /\ e.online = d.online
      <4>1. CASE d.session # "Stopped"
        BY <3>2, <4>1 DEF Device
      <4>2. CASE d.session = "Stopped" /\ pluginLoads
        BY <3>2, <4>2 DEF Device
      <4>3. CASE d.session = "Stopped" /\ ~pluginLoads
        BY <3>2, <4>3 DEF Device
      <4> QED
        BY <4>1, <4>2, <4>3
    <3> HIDE DEF e
    <3>5. Fresh(e, newest[f])
      BY <2>1, <3>2, <3>4 DEF Fresh
    <3> QED
      BY <2>2, <2>3, <3>3, <3>4, <3>5 DEF StartSession
  <2>4. ASSUME NEW success \in BOOLEAN, SessionStarted(f, success) PROVE RegistryInv'
    <3>1. CASE success
      <4> DEFINE d == [dev[f] EXCEPT !.session = "Up", !.opened = NoPort]
      <4>1. d \in Device /\ d.info = dev[f].info /\ d.queue = dev[f].queue
        BY <2>1 DEF Device
      <4>2. Update(f, GoesOnline(d))
        BY <2>4, <3>1 DEF SessionStarted
      <4> HIDE DEF d
      <4>3. GoesOnline(d) \in Device /\ Fresh(GoesOnline(d), newest[f])
        BY <2>1, <4>1, OnlineFields DEF Fresh
      <4> QED
        BY <2>2, <2>4, <4>2, <4>3 DEF SessionStarted
    <3>2. CASE ~success
      <4> DEFINE d == [dev[f] EXCEPT !.session = "Stopped", !.opened = NoPort, !.error = TRUE]
      <4>1. d \in Device /\ Fresh(d, newest[f])
        BY <2>1 DEF Device, Fresh
      <4>2. Update(f, d)
        BY <2>4, <3>2 DEF SessionStarted
      <4> HIDE DEF d
      <4> QED
        BY <2>2, <2>4, <4>1, <4>2 DEF SessionStarted
    <3> QED
      BY <3>1, <3>2
  <2>5. ASSUME NEW writeFailed \in BOOLEAN, NEW revived \in BOOLEAN, SessionLost(f, writeFailed, revived)
        PROVE  RegistryInv'
    <3> DEFINE stopped == [dev[f] EXCEPT !.session = "Stopped", !.error = @ \/ writeFailed]
               up == [stopped EXCEPT !.session = IF writeFailed THEN "Failed" ELSE "Revived"]
    <3>1. /\ stopped \in Device /\ Fresh(stopped, newest[f])
          /\ up \in Device /\ Fresh(up, newest[f])
      <4>1. stopped \in Device /\ stopped.info = dev[f].info /\ stopped.queue = dev[f].queue /\ stopped.online = dev[f].online
        BY <2>1 DEF Device
      <4> HIDE DEF stopped
      <4>2. up \in Device /\ up.info = dev[f].info /\ up.queue = dev[f].queue /\ up.online = dev[f].online
        BY <4>1 DEF Device
      <4> HIDE DEF up
      <4> QED
        BY <2>1, <4>1, <4>2 DEF Fresh
    <3>2. Update(f, stopped) \/ Update(f, up) \/ Update(f, GoesOnline(up))
      BY <2>5 DEF SessionLost
    <3> HIDE DEF stopped, up
    <3>3. GoesOnline(up) \in Device /\ Fresh(GoesOnline(up), newest[f])
      BY <3>1, OnlineFields DEF Fresh
    <3>4. UNCHANGED <<made, attached, helpers, devices, queryInProgress, error, announced, newest, fault>>
      BY <2>5 DEF SessionLost
    <3> QED
      BY <2>2, <3>1, <3>2, <3>3, <3>4
  <2>6. ASSUME NEW persistent \in BOOLEAN, NEW isError \in BOOLEAN,
               OperationSets(f, persistent, isError)
        PROVE  RegistryInv'
    <3> DEFINE d == [dev[f] EXCEPT !.persistent = persistent, !.error = isError,
                        !.refused = @ \/ (dev[f].error /\ ~isError /\ ~dev[f].online)]
    <3>1. d \in Device /\ d.info = dev[f].info /\ d.queue = dev[f].queue /\ d.online = dev[f].online
      BY SMTT(20), ZenonT(30), <2>1 DEF Device
    <3>2. Update(f, d)
      BY <2>6 DEF OperationSets
    <3> HIDE DEF d
    <3>3. Fresh(d, newest[f])
      BY <2>1, <3>1 DEF Fresh
    <3> QED
      BY <2>2, <2>6, <3>1, <3>2, <3>3 DEF OperationSets
  <2>7. ASSUME SessionStatusChanged(f) PROVE RegistryInv'
    <3> DEFINE failed == [dev[f] EXCEPT !.error = TRUE]
    <3>1. /\ failed \in Device /\ Fresh(failed, newest[f])
          /\ GoesOnline(dev[f]) \in Device /\ Fresh(GoesOnline(dev[f]), newest[f])
      BY <2>1, ErrorFields, OnlineFields DEF Fresh
    <3>2. Update(f, failed) \/ Update(f, GoesOnline(dev[f]))
      BY <2>7 DEF SessionStatusChanged
    <3> HIDE DEF failed
    <3> QED
      BY <2>2, <2>7, <3>1, <3>2 DEF SessionStatusChanged
  <2>8. ASSUME SetStorageInfo(f) PROVE RegistryInv'
    <3>1. DeviceInfoChanged(dev[f]) \in Device /\ Fresh(DeviceInfoChanged(dev[f]), newest[f])
      BY <2>1, ChangedFields DEF Fresh
    <3> QED
      BY <2>2, <2>8, <3>1 DEF SetStorageInfo
  <2> QED
    BY <1>6, <2>3, <2>4, <2>5, <2>6, <2>7, <2>8 DEF DeviceStep
<1>7. CASE UNCHANGED vars
  BY <1>7 DEF vars, RegistryInv, TypeOK, OneObjectEach, ListenersAreCurrent, InfoIsNewest, Listed, CurrentDevice
<1> QED
  BY <1>2, <1>3, <1>4, <1>5, <1>6, <1>7 DEF Next, Detector

(* The registry starts with RegistryInv. *)
LEMMA InitHasInv == Init => RegistryInv
<1> SUFFICES ASSUME Init PROVE RegistryInv
  OBVIOUS
<1>1. devices = <<>> /\ DOMAIN devices = {} /\ devices \in Seq(Flipper) /\ DOMAIN dev = {}
  BY EmptySeq DEF Init
<1> QED
  BY <1>1 DEF Init, RegistryInv, TypeOK, OneObjectEach, ListenersAreCurrent, InfoIsNewest, Listed

(* RegistryInv holds in every state. *)
LEMMA InvHolds == Spec => []RegistryInv
BY InitHasInv, StepKeepsInv, PTL DEF Spec

(* The registry keeps to its types; the FlipperZero objects are those of    *)
(* the list.                                                                *)
THEOREM TypeCorrect == Spec => []TypeOK
BY InvHolds, PTL DEF RegistryInv

(* m_devices never has two entries for one Flipper.                         *)
THEOREM OneEntryEach == Spec => []OneObjectEach
BY InvHolds, PTL DEF RegistryInv

(* currentDeviceChanged() has told its listeners of the current device.     *)
THEOREM ListenersKnow == Spec => []ListenersAreCurrent
BY InvHolds, PTL DEF RegistryInv

(* The list is sound for any number of devices and connections.             *)
THEOREM SoundList == Spec => []ListIsSound
BY OneEntryEach, ListenersKnow, PTL DEF ListIsSound

(* The newest information about a device is in use, or queued as the next   *)
(* to be used.                                                              *)
THEOREM NothingNewLost == Spec => []InfoIsNewest
BY InvHolds, PTL DEF RegistryInv

(* No step deletes a device that is online with an operation under way.     *)
LEMMA StepKeepsPersistent ==
    ASSUME RegistryInv, RegistryInv', [Next]_vars,
           NEW f \in Listed, dev[f].persistent, dev[f].online
    PROVE  f \in Listed'
<1>1. f \in DOMAIN dev /\ DOMAIN dev' = Listed'
  BY DEF RegistryInv, TypeOK
<1> SUFFICES f \in DOMAIN dev'
  BY <1>1
<1>2. ASSUME NEW g, NEW d, Update(g, d) PROVE f \in DOMAIN dev'
  BY <1>1, <1>2 DEF Update
<1>3. ASSUME NEW i \in DOMAIN devices, TakeAt(i),
             ~dev[devices[i]].persistent \/ ~dev[devices[i]].online
      PROVE  f \in DOMAIN dev'
  BY <1>1, <1>3 DEF TakeAt, WithoutDeviceAt
<1>4. CASE UNCHANGED dev
  BY <1>1, <1>4
<1>5. CASE UNCHANGED vars
  BY <1>4, <1>5 DEF vars
<1>6. ASSUME NEW g \in Flipper, NEW dfu \in BOOLEAN, NEW complete \in BOOLEAN,
             InsertDevice(g, dfu, complete)
      PROVE  f \in DOMAIN dev'
  BY <1>4, <1>6 DEF InsertDevice
<1>7. ASSUME NEW usb \in Connections, RemoveDevice(usb) PROVE f \in DOMAIN dev'
  <2>1. CASE UNCHANGED dev
    BY <1>4, <2>1
  <2>2. ASSUME NEW i \in DOMAIN devices,
               IF RemovesDevice(dev[devices[i]]) THEN TakeAt(i)
                  ELSE Update(devices[i], GoesOffline(dev[devices[i]]))
        PROVE  f \in DOMAIN dev'
    BY <1>2, <1>3, <2>2 DEF RemovesDevice
  <2> QED
    BY <1>7, <2>1, <2>2 DEF RemoveDevice
<1>8. ASSUME NEW query \in helpers, NEW success \in BOOLEAN, ProcessDevice(query, success)
      PROVE  f \in DOMAIN dev'
  <2>1. CASE ~success
    BY <1>4, <1>8, <2>1 DEF ProcessDevice
  <2>2. CASE success /\ IsListed(query.name)
    BY <1>2, <1>8, <2>2 DEF ProcessDevice
  <2>3. CASE success /\ ~IsListed(query.name)
    BY <1>1, <1>8, <2>3 DEF ProcessDevice
  <2> QED
    BY <2>1, <2>2, <2>3
<1>9. CASE RemoveOfflineDevices
  <2> DEFINE offline == {i \in DOMAIN devices : ~dev[devices[i]].online}
  <2>1. \/ DOMAIN dev' = DOMAIN dev
        \/ offline = {Len(devices)} /\ DOMAIN dev' = DOMAIN WithoutDeviceAt(Len(devices))
    BY <1>9 DEF RemoveOfflineDevices, ErrorCleared
  <2>2. CASE offline = {Len(devices)} /\ DOMAIN dev' = DOMAIN WithoutDeviceAt(Len(devices))
    <3>1. Len(devices) \in DOMAIN devices /\ ~dev[devices[Len(devices)]].online
      BY <2>2
    <3> QED
      BY <1>1, <2>2, <3>1 DEF WithoutDeviceAt
  <2> QED
    BY <1>1, <2>1, <2>2
<1>10. ASSUME NEW g \in DOMAIN dev, DeviceStep(g) PROVE f \in DOMAIN dev'
  BY <1>2, <1>10 DEF DeviceStep, StartSession, SessionStarted, SessionLost, SessionStatusChanged, OperationSets, SetStorageInfo
<1> QED
  BY <1>5, <1>6, <1>7, <1>8, <1>9, <1>10 DEF Next, Detector

(* A device that is online with an operation under way stays in the list,   *)
(* whatever is plugged in or out.                                           *)
THEOREM PersistentKept == Spec => PersistentStays
<1>1. RegistryInv /\ RegistryInv' /\ [Next]_vars
        => [\A f \in Listed : dev[f].persistent /\ dev[f].online => f \in Listed']_vars
  BY StepKeepsPersistent
<1> QED
  BY <1>1, InvHolds, PTL DEF Spec, PersistentStays

-----------------------------------------------------------------------------
(* Bringing devices up                                                       *)

(* A device is online, failed, unplugged, on its way up, or in the way of    *)
(* itself; of the connections a, those are plugged in.                       *)
Raised(d, a) ==
    d.online \/ d.error \/ d.info.usb \notin a \/ d.timers > 0 \/ d.session = "Starting" \/ d.refused

(* No information is about a connection that is still to be made.            *)
StrandInv ==
    /\ \A q \in helpers : q.info.usb <= made
    /\ \A f \in Flipper : newest[f].usb <= made
    /\ \A f \in DOMAIN dev : dev[f].info.usb <= made /\ Raised(dev[f], attached)

(* deviceInfoChanged() brings a device up, or sets a timer that will.        *)
LEMMA ChangedIsRaised ==
    ASSUME NEW d \in Device
    PROVE  DeviceInfoChanged(d).online \/ DeviceInfoChanged(d).timers > 0
<1> DEFINE cleared == [d EXCEPT !.error = FALSE]
<1>1. cleared \in Device /\ cleared.online = d.online /\ cleared.timers \in Nat
  BY DEF Device
<1> HIDE DEF cleared
<1>2. CASE d.online
  BY <1>1, <1>2 DEF DeviceInfoChanged, IsUpAlready, cleared
<1>3. CASE ~d.online /\ d.info.dfu
  BY <1>1, <1>3 DEF DeviceInfoChanged, IsUpAlready, cleared, GoesOnline, Device
<1>4. CASE ~d.online /\ ~d.info.dfu
  <2>1. DeviceInfoChanged(d) = [cleared EXCEPT !.port = d.info.usb, !.timers = @ + 1]
    BY <1>4 DEF DeviceInfoChanged, IsUpAlready, cleared
  <2> QED
    BY <1>1, <2>1 DEF Device
<1> QED
  BY <1>2, <1>3, <1>4

(* So does setDeviceInfo(), with the new connection unless the device is     *)
(* online still.                                                             *)
LEMMA SetIsRaised ==
    ASSUME NEW d \in Device, NEW info \in UsbInfo
    PROVE  LET e == SetDeviceInfo(d, info) IN
           /\ e.online \/ e.timers > 0
           /\ e.info = d.info \/ e.info = info
<1>1. CASE d.online
  BY <1>1 DEF SetDeviceInfo, ComesTooEarly, Device
<1>2. CASE ~d.online
  <2> DEFINE e == [d EXCEPT !.info = info]
  <2>1. e \in Device /\ e.info = info
    BY DEF Device
  <2>2. SetDeviceInfo(d, info) = DeviceInfoChanged(e)
    BY <1>2 DEF SetDeviceInfo, ComesTooEarly
  <2> HIDE DEF e
  <2> QED
    BY <2>1, <2>2, ChangedIsRaised, ChangedFields
<1> QED
  BY <1>1, <1>2

(* A device that goes offline is unplugged, or is brought up again with the  *)
(* newest information about it.                                              *)
LEMMA OfflineIsRaised ==
    ASSUME NEW d \in Device, NEW n, Fresh(d, n)
    PROVE  LET e == GoesOffline(d) IN
           \/ e.info = d.info
           \/ e.info = n /\ (e.online \/ e.timers > 0)
<1> DEFINE off == [d EXCEPT !.online = FALSE]
<1>1. off \in Device /\ off.info = d.info
  BY DEF Device
<1>2. CASE ~d.online \/ d.queue = <<>>
  BY <1>1, <1>2 DEF GoesOffline
<1>3. CASE d.online /\ d.queue # <<>>
  <2>1. Last(d.queue) \in UsbInfo /\ Last(d.queue) = n
    <3>1. d.queue \in Seq(UsbInfo)
      BY DEF Device
    <3> QED
      BY <1>3, <3>1, LastIsElement DEF Fresh
  <2> DEFINE set == SetDeviceInfo(off, n)
  <2>2. GoesOffline(d) = [set EXCEPT !.queue = <<>>]
    BY <1>3, <2>1 DEF GoesOffline, TakeLatest
  <2>3. set \in Device /\ (set.online \/ set.timers > 0) /\ (set.info = d.info \/ set.info = n)
    <3> HIDE DEF off
    <3> QED
      BY <1>1, <2>1, SetIsRaised, SetDeviceInfoFields
  <2> HIDE DEF set
  <2> QED
    BY <2>2, <2>3 DEF Device
<1> QED
  BY <1>2, <1>3

(* A device changes, and nothing that the others depend on.                  *)
LEMMA UpdateKeepsRaised ==
    ASSUME RegistryInv, StrandInv, NEW f \in DOMAIN dev, NEW d,
           Update(f, d), Raised(d, attached'), d.info.usb <= made,
           made' = made, attached' \subseteq attached, helpers' \subseteq helpers,
           \A g \in Flipper : newest'[g].usb <= made
    PROVE  StrandInv'
<1>1. DOMAIN dev' = DOMAIN dev /\ \A g \in DOMAIN dev : dev'[g] = IF g = f THEN d ELSE dev[g]
  BY DEF Update
<1>2. \A g \in DOMAIN dev : dev[g].info.usb <= made /\ Raised(dev[g], attached')
  BY DEF StrandInv, Raised
<1> QED
  BY <1>1, <1>2 DEF StrandInv

(* Every step of a device leaves it raised.                                  *)
LEMMA DeviceStepKeepsRaised ==
    ASSUME RegistryInv, StrandInv, NEW f \in DOMAIN dev, DeviceStep(f)
    PROVE  StrandInv'
<1>1. /\ dev[f] \in Device /\ Raised(dev[f], attached) /\ dev[f].info.usb <= made /\ dev[f].timers \in Nat
      /\ UNCHANGED <<made, attached, helpers, newest>>
  BY InvFacts DEF StrandInv, Device, DeviceStep, StartSession, SessionStarted, SessionLost,
                  SessionStatusChanged, OperationSets, SetStorageInfo
<1>2. ASSUME NEW d, Update(f, d), Raised(d, attached), d.info = dev[f].info PROVE StrandInv'
  BY <1>1, <1>2, UpdateKeepsRaised DEF StrandInv
<1>3. ASSUME NEW d \in Device, Raised(d, attached) PROVE Raised(GoesOnline(d), attached) /\ GoesOnline(d).info = d.info
  BY DEF GoesOnline, Raised, Device
<1>4. ASSUME NEW pluginLoads \in BOOLEAN, StartSession(f, pluginLoads) PROVE StrandInv'
  <2> DEFINE d == [dev[f] EXCEPT !.timers = @ - 1]
             e == CASE d.session # "Stopped" -> [d EXCEPT !.refused = TRUE]
                    [] d.session = "Stopped" /\ pluginLoads ->
                          [d EXCEPT !.session = "Starting", !.opened = d.port, !.refused = FALSE]
                    [] OTHER -> [d EXCEPT !.error = TRUE, !.refused = FALSE]
  <2>1. dev[f].timers - 1 \in Nat
    BY <1>1, <1>4 DEF StartSession
  <2>2. d \in Device /\ d.info = dev[f].info
    BY <1>1, <2>1 DEF Device
  <2>3. Update(f, e)
    BY <1>4 DEF StartSession
  <2> HIDE DEF d
  <2>4. e.info = d.info /\ (e.refused \/ e.session = "Starting" \/ e.error)
    BY <2>2 DEF Device
  <2> HIDE DEF e
  <2> QED
    BY <1>2, <2>2, <2>3, <2>4 DEF Raised
<1>5. ASSUME NEW success \in BOOLEAN, SessionStarted(f, success) PROVE StrandInv'
  <2> DEFINE up == [dev[f] EXCEPT !.session = "Up", !.opened = NoPort]
             failed == [dev[f] EXCEPT !.session = "Stopped", !.opened = NoPort, !.error = TRUE]
  <2>1. Update(f, GoesOnline(up)) \/ Update(f, failed)
    BY <1>5 DEF SessionStarted
  <2>2. GoesOnline(up).online /\ GoesOnline(up).info = dev[f].info
    BY <1>1 DEF GoesOnline, Device
  <2>3. failed.error /\ failed.info = dev[f].info
    BY <1>1 DEF Device
  <2> HIDE DEF up, failed
  <2> QED
    BY <1>2, <2>1, <2>2, <2>3 DEF Raised
<1>6. ASSUME NEW writeFailed \in BOOLEAN, NEW revived \in BOOLEAN, SessionLost(f, writeFailed, revived)
      PROVE  StrandInv'
  <2> DEFINE isError == dev[f].error \/ writeFailed
             stopped == [dev[f] EXCEPT !.session = "Stopped", !.error = isError]
             session == IF writeFailed THEN "Failed" ELSE "Revived"
             up == [stopped EXCEPT !.session = session]
  <2>1. Update(f, stopped) \/ Update(f, up) \/ Update(f, GoesOnline(up))
    BY <1>6 DEF SessionLost
  <2>2. stopped \in Device /\ Raised(stopped, attached) /\ stopped.info = dev[f].info
    <3>1. dev[f].session # "Starting"
      BY <1>6 DEF SessionLost
    <3>2. isError \in BOOLEAN /\ (dev[f].error => isError)
      BY <1>1 DEF Device
    <3> HIDE DEF isError
    <3> QED
      BY <1>1, <3>1, <3>2 DEF Device, Raised
  <2>3. stopped.session # "Starting"
    BY <1>1 DEF Device
  <2> HIDE DEF stopped
  <2>4. up \in Device /\ Raised(up, attached) /\ up.info = dev[f].info
    BY <2>2, <2>3 DEF Device, Raised
  <2> HIDE DEF up
  <2> QED
    BY <1>2, <1>3, <2>1, <2>2, <2>4
<1>7. ASSUME SessionStatusChanged(f) PROVE StrandInv'
  <2> DEFINE failed == [dev[f] EXCEPT !.error = TRUE]
  <2>1. Update(f, failed) \/ Update(f, GoesOnline(dev[f]))
    BY <1>7 DEF SessionStatusChanged
  <2>2. failed.error /\ failed.info = dev[f].info
    BY <1>1 DEF Device
  <2> HIDE DEF failed
  <2> QED
    BY <1>1, <1>2, <1>3, <2>1, <2>2 DEF Raised
<1>8. ASSUME NEW persistent \in BOOLEAN, NEW isError \in BOOLEAN, OperationSets(f, persistent, isError)
      PROVE  StrandInv'
  <2> DEFINE refused == dev[f].refused \/ (dev[f].error /\ ~isError /\ ~dev[f].online)
             d == [dev[f] EXCEPT !.persistent = persistent, !.error = isError, !.refused = refused]
  <2>1. Update(f, d)
    BY <1>8 DEF OperationSets
  <2>2. d.info = dev[f].info /\ Raised(d, attached)
    BY <1>1 DEF Device, Raised
  <2> HIDE DEF d
  <2> QED
    BY <1>2, <2>1, <2>2
<1>9. ASSUME SetStorageInfo(f) PROVE StrandInv'
  <2>1. Update(f, DeviceInfoChanged(dev[f]))
    BY <1>9 DEF SetStorageInfo
  <2> QED
    BY <1>1, <1>2, <2>1, ChangedIsRaised, ChangedFields DEF Raised
<1> QED
  BY <1>4, <1>5, <1>6, <1>7, <1>8, <1>9 DEF DeviceStep

(* Entries leave the list; errors are cleared of devices that are online.    *)
LEMMA RemainingAreRaised ==
    ASSUME RegistryInv, StrandInv, DOMAIN dev' \subseteq DOMAIN dev,
           \A g \in DOMAIN dev' :
              \/ dev'[g] = dev[g]
              \/ dev[g].online /\ \E isError \in BOOLEAN : dev'[g] = [dev[g] EXCEPT !.error = isError],
           UNCHANGED <<made, helpers, newest>>, attached' \subseteq attached
    PROVE  StrandInv'
<1>1. ASSUME NEW g \in DOMAIN dev' PROVE dev'[g].info.usb <= made /\ Raised(dev'[g], attached')
  <2>1. dev[g] \in Device /\ dev[g].info.usb <= made /\ Raised(dev[g], attached)
    BY InvFacts DEF StrandInv
  <2>2. CASE dev'[g] = dev[g]
    BY <2>1, <2>2 DEF Raised
  <2>3. ASSUME dev[g].online, NEW isError \in BOOLEAN, dev'[g] = [dev[g] EXCEPT !.error = isError]
        PROVE  dev'[g].info.usb <= made /\ Raised(dev'[g], attached')
    BY <2>1, <2>3 DEF Raised, Device
  <2> QED
    BY <2>2, <2>3
<1> QED
  BY <1>1 DEF StrandInv

(* Every step of the registry leaves the devices raised.                     *)
LEMMA StepKeepsRaised == RegistryInv /\ StrandInv /\ [Next]_vars => StrandInv'
<1> SUFFICES ASSUME RegistryInv, StrandInv, [Next]_vars PROVE StrandInv'
  OBVIOUS
<1>1. ASSUME NEW f \in Flipper, NEW dfu \in BOOLEAN, NEW complete \in BOOLEAN, InsertDevice(f, dfu, complete)
      PROVE  StrandInv'
  <2>1. /\ made' = made + 1 /\ attached' = attached \cup {made + 1} /\ UNCHANGED <<dev, newest>> /\ made \in Nat
        /\ helpers' \subseteq helpers \cup {[name |-> f, info |-> [usb |-> made + 1, dfu |-> dfu]]}
    BY <1>1 DEF InsertDevice, RegistryInv, TypeOK
  <2>2. /\ \A g \in DOMAIN dev : dev[g].info.usb \in Nat
        /\ \A q \in helpers : q.info.usb \in Nat
        /\ \A g \in Flipper : newest[g].usb \in Nat
    BY InvFacts DEF Device, Info, UsbInfo, Connections, NoInfo
  <2>3. ASSUME NEW g \in DOMAIN dev PROVE dev[g].info.usb <= made + 1 /\ Raised(dev[g], attached')
    BY <2>1, <2>2 DEF StrandInv, Raised
  <2>4. \A q \in helpers' : q.info.usb <= made + 1
    BY <2>1, <2>2 DEF StrandInv
  <2>5. \A g \in Flipper : newest[g].usb <= made + 1
    BY <2>1, <2>2 DEF StrandInv
  <2> QED
    BY <2>1, <2>3, <2>4, <2>5 DEF StrandInv
<1>2. ASSUME NEW usb \in Connections, RemoveDevice(usb) PROVE StrandInv'
  <2>1. UNCHANGED <<made, helpers, newest>> /\ attached' = attached \ {usb}
    BY <1>2 DEF RemoveDevice
  <2>2. CASE UNCHANGED dev
    BY <2>1, <2>2, RemainingAreRaised
  <2>3. ASSUME NEW i \in DOMAIN devices, TakeAt(i) PROVE StrandInv'
    BY <2>1, <2>3, RemainingAreRaised DEF TakeAt, WithoutDeviceAt
  <2>4. ASSUME NEW i \in DOMAIN devices, dev[devices[i]].info.usb = usb,
               Update(devices[i], GoesOffline(dev[devices[i]]))
        PROVE  StrandInv'
    <3> DEFINE f == devices[i]
               e == GoesOffline(dev[f])
    <3>1. f \in DOMAIN dev /\ f \in Flipper /\ dev[f] \in Device /\ Fresh(dev[f], newest[f])
      BY InvFacts
    <3>2. e.info = dev[f].info \/ (e.info = newest[f] /\ (e.online \/ e.timers > 0))
      BY <3>1, OfflineIsRaised
    <3>3. dev[f].info.usb <= made /\ newest[f].usb <= made
      BY <3>1 DEF StrandInv
    <3> HIDE DEF e
    <3>4. Raised(e, attached') /\ e.info.usb <= made
      BY <2>1, <2>4, <3>2, <3>3 DEF Raised
    <3>5. Update(f, e)
      BY <2>4 DEF e
    <3> HIDE DEF f
    <3> QED
      BY <2>1, <3>1, <3>4, <3>5, UpdateKeepsRaised DEF StrandInv
  <2> QED
    BY <1>2, <2>2, <2>3, <2>4 DEF RemoveDevice
<1>3. ASSUME NEW query \in helpers, NEW success \in BOOLEAN, ProcessDevice(query, success)
      PROVE  StrandInv'
  <2> DEFINE f == query.name
  <2>1. /\ UNCHANGED <<made, attached>> /\ helpers' \subseteq helpers
        /\ f \in Flipper /\ query.info \in UsbInfo /\ query.info.usb <= made
    BY <1>3, InvFacts DEF ProcessDevice, Info, StrandInv
  <2>2. \A g \in Flipper : newest'[g].usb <= made
    BY <1>3, <2>1, InvFacts DEF ProcessDevice, StrandInv
  <2>3. CASE ~success
    BY <1>3, <2>1, <2>2, <2>3 DEF ProcessDevice, StrandInv
  <2>4. CASE success /\ IsListed(f)
    <3> DEFINE d == SetDeviceInfo(dev[f], query.info)
    <3>1. Update(f, d)
      BY <1>3, <2>4 DEF ProcessDevice
    <3>2. f \in DOMAIN dev /\ dev[f] \in Device /\ dev[f].info.usb <= made
      BY <2>4, InvFacts DEF IsListed, StrandInv
    <3>3. (d.online \/ d.timers > 0) /\ d.info \in {dev[f].info, query.info}
      BY <2>1, <3>2, SetIsRaised
    <3> HIDE DEF d
    <3>4. Raised(d, attached') /\ d.info.usb <= made
      BY <2>1, <3>2, <3>3 DEF Raised
    <3> HIDE DEF f
    <3> QED
      BY <2>1, <2>2, <3>1, <3>2, <3>4, UpdateKeepsRaised
  <2>5. CASE success /\ ~IsListed(f)
    <3> DEFINE d == NewDevice(query.info)
               new == [info |-> query.info, persistent |-> FALSE, online |-> FALSE, error |-> FALSE,
                       queue |-> <<>>, timers |-> 0, port |-> NoPort, opened |-> NoPort,
                       session |-> "Stopped", refused |-> FALSE]
    <3>1. dev' = [g \in DOMAIN dev \cup {f} |-> IF g = f THEN d ELSE dev[g]]
      BY <1>3, <2>5 DEF ProcessDevice
    <3>2. new \in Device /\ new.info = query.info
      BY <2>1, EmptySeq DEF Device
    <3>3. d = DeviceInfoChanged(new)
      BY DEF NewDevice
    <3> HIDE DEF new
    <3>4. (d.online \/ d.timers > 0) /\ d.info = query.info
      BY <3>2, <3>3, ChangedIsRaised, ChangedFields
    <3> HIDE DEF d
    <3> QED
      BY <2>1, <2>2, <3>1, <3>4 DEF StrandInv, Raised
  <2> QED
    BY <2>3, <2>4, <2>5
<1>4. CASE RemoveOfflineDevices
  <2> DEFINE offline == {i \in DOMAIN devices : ~dev[devices[i]].online}
  <2>1. UNCHANGED <<made, attached, helpers, newest>>
    BY <1>4 DEF RemoveOfflineDevices
  <2>2. CASE UNCHANGED dev
    BY <2>1, <2>2, RemainingAreRaised
  <2>3. ASSUME NEW list, NEW devs, dev' = ErrorCleared(list, devs), DOMAIN devs \subseteq DOMAIN dev,
               \A g \in DOMAIN devs : devs[g] = dev[g] /\ dev[g].online
        PROVE  StrandInv'
    <3>1. SameButError(dev', devs)
      BY <2>3, InvFacts, ErrorClearedSame
    <3>2. DOMAIN dev' = DOMAIN devs
      BY <3>1 DEF SameButError
    <3>3. ASSUME NEW g \in DOMAIN dev'
          PROVE  dev[g].online /\ \E isError \in BOOLEAN : dev'[g] = [dev[g] EXCEPT !.error = isError]
      BY <2>3, <3>1, <3>2 DEF SameButError
    <3> QED
      BY <2>1, <2>3, <3>2, <3>3, RemainingAreRaised
  <2>4. CASE offline = {} /\ dev' = ErrorCleared(devices, dev)
    <3>1. \A g \in DOMAIN dev : dev[g].online
      BY <2>4, InvFacts DEF Listed
    <3> QED
      BY <2>3, <2>4, <3>1
  <2>5. CASE offline = {Len(devices)} /\ dev' = ErrorCleared(devices', WithoutDeviceAt(Len(devices)))
    <3> DEFINE n == Len(devices)
               devs == WithoutDeviceAt(n)
    <3>1. DOMAIN devs = DOMAIN dev \ {devices[n]} /\ \A g \in DOMAIN devs : devs[g] = dev[g]
      BY DEF WithoutDeviceAt
    <3>2. \A g \in DOMAIN devs : dev[g].online
      BY <2>5, <3>1, InvFacts DEF Listed
    <3> HIDE DEF devs
    <3>3. dev' = ErrorCleared(devices', devs)
      BY <2>5 DEF devs
    <3> QED
      BY <2>3, <3>1, <3>2, <3>3
  <2> QED
    BY <1>4, <2>2, <2>4, <2>5 DEF RemoveOfflineDevices
<1>5. ASSUME NEW f \in DOMAIN dev, DeviceStep(f) PROVE StrandInv'
  BY <1>5, DeviceStepKeepsRaised
<1>6. CASE UNCHANGED vars
  BY <1>6, RemainingAreRaised DEF vars
<1> QED
  BY <1>1, <1>2, <1>3, <1>4, <1>5, <1>6 DEF Next, Detector

(* A device that is there, offline and without an error is being brought up, *)
(* but for the two exceptions: however it was plugged in and out, no device  *)
(* waits for what nobody will do (FlipperZero::onDeviceInfoChanged(),        *)
(* DeviceState::setOnline()).                                                *)
THEOREM NoneIsStranded == Spec => []OnlyRefusalsStrand
<1>1. Init => StrandInv
  BY DEF Init, StrandInv, NoInfo
<1>2. Spec => []StrandInv
  BY <1>1, InvHolds, StepKeepsRaised, PTL DEF Spec
<1>3. RegistryInv /\ StrandInv => OnlyRefusalsStrand
  BY DEF RegistryInv, TypeOK, StrandInv, Raised, OnlyRefusalsStrand
<1> QED
  BY <1>2, <1>3, InvHolds, PTL

-----------------------------------------------------------------------------
(* The registry under the backend *)

(* A step of a session, as the application sees it, is one of the steps DeviceRegistry allows the Flipper. *)
LEMMA SessionStepIsDeviceStep ==
    ASSUME NEW f \in DOMAIN dev, SessionStep(f)
    PROVE  DeviceStep(f)
<1>1. ASSUME NEW pluginLoads \in BOOLEAN, StartSession(f, pluginLoads) PROVE DeviceStep(f)
  BY <1>1 DEF DeviceStep
<1>2. ASSUME NEW success \in BOOLEAN, SessionStarted(f, success) PROVE DeviceStep(f)
  BY <1>2 DEF DeviceStep
<1>3. ASSUME NEW writeFailed \in BOOLEAN, NEW revived \in BOOLEAN, SessionLost(f, writeFailed, revived)
      PROVE  DeviceStep(f)
  BY <1>3 DEF DeviceStep
<1>4. CASE SessionStatusChanged(f)
  BY <1>4 DEF DeviceStep
<1>5. CASE SetStorageInfo(f)
  BY <1>5 DEF DeviceStep
<1> QED
  BY <1>1, <1>2, <1>3, <1>4, <1>5 DEF SessionStep

(* A step of the application is a step of the registry under it, or leaves the registry alone. *)
LEMMA BackendStepIsRegistryStep ==
    ASSUME RegistryInv, [BackendNext]_allVars
    PROVE  [Next]_vars
<1>1. CASE UNCHANGED allVars
  BY <1>1 DEF allVars
<1>2. CASE RegistryStep
  <2>1. ASSUME NEW f \in Flipper, NEW dfu \in BOOLEAN, NEW complete \in BOOLEAN, NEW another \in BOOLEAN,
               DeviceInserted(f, dfu, complete, another)
        PROVE  Next
    BY <2>1 DEF DeviceInserted, Next, Detector
  <2>2. ASSUME NEW usb \in Connections, DeviceRemoved(usb) PROVE Next
    BY <2>2 DEF DeviceRemoved, Next, Detector
  <2>3. ASSUME NEW query \in helpers, NEW success \in BOOLEAN, NEW another \in BOOLEAN,
               DeviceProcessed(query, success, another)
        PROVE  Next
    BY <2>3 DEF DeviceProcessed, Next
  <2> QED
    BY <1>2, <2>1, <2>2, <2>3 DEF RegistryStep
<1>3. ASSUME NEW f \in DOMAIN dev, SessionStep(f) PROVE Next
  BY <1>3, SessionStepIsDeviceStep DEF Next
<1>4. ASSUME NEW f \in DOMAIN dev, NEW persistent \in BOOLEAN, NEW isError \in BOOLEAN,
             OperationSets(f, persistent, isError)
      PROVE  Next
  BY <1>4 DEF Next, DeviceStep
<1>5. \A f \in DOMAIN dev : dev[f].persistent \in BOOLEAN /\ dev[f].error \in BOOLEAN
  BY DEF RegistryInv, TypeOK, Device
<1>6. ASSUME NEW byHelper \in BOOLEAN, BeginOperation(byHelper) PROVE Next
  <2>1. Head(devices) \in DOMAIN dev
    <3>1. devices # <<>> /\ devices \in Seq(Flipper)
      BY <1>6, InvFacts DEF BeginOperation
    <3>2. 1 \in DOMAIN devices /\ Head(devices) = devices[1]
      BY <3>1, EmptySeq, LenProperties
    <3> QED
      BY <3>2, InvFacts
  <2>2. OperationSets(Head(devices), TRUE, byHelper /\ dev[Head(devices)].error)
    BY <1>6 DEF BeginOperation, DeviceToUse, MakesPersistent
  <2> QED
    BY <1>4, <1>5, <2>1, <2>2
<1>7. ASSUME NEW f \in DOMAIN dev, NEW done \in BOOLEAN, UpdatesChecked(f, done) \/ OperationEnds(f, done)
      PROVE  Next
  <2>1. \E persistent, isError \in BOOLEAN : OperationSets(f, persistent, isError)
    <3>1. CASE OperationEnds(f, done)
      BY <1>5, <3>1 DEF OperationEnds
    <3>2. CASE UpdatesChecked(f, done)
      BY <1>5, <3>2 DEF UpdatesChecked
    <3> QED
      BY <1>7, <3>1, <3>2
  <2> QED
    BY <1>4, <2>1
<1>8. CASE FinalizeOperation
  BY <1>8 DEF FinalizeOperation, Next
<1>9. CASE FullScreenStreaming \/ OnScreenStreamerStateChanged \/ OnFileManagerErrorOccured
  BY <1>9 DEF FullScreenStreaming, OnScreenStreamerStateChanged, OnFileManagerErrorOccured
<1> QED
  BY <1>1, <1>2, <1>3, <1>6, <1>7, <1>8, <1>9 DEF BackendNext, OperationStep

(* RegistryInv holds under the backend: each of its steps is one of the     *)
(* registry, or leaves it alone.                                            *)
LEMMA RegistryInvHolds == BackendSpec => []RegistryInv
<1>1. BackendInit => RegistryInv
  BY InitHasInv DEF BackendInit
<1>2. RegistryInv /\ [BackendNext]_allVars => RegistryInv'
  BY BackendStepIsRegistryStep, StepKeepsInv
<1> QED
  BY <1>1, <1>2, PTL DEF BackendSpec

(* The registry under the backend is the registry of module DeviceRegistry, *)
(* so that every theorem about that holds here.                             *)
THEOREM BackendImplementsRegistry == BackendSpec => Spec
<1>1. BackendInit => Init
  BY DEF BackendInit
<1>2. RegistryInv /\ [BackendNext]_allVars => [Next]_vars
  BY BackendStepIsRegistryStep
<1> QED
  BY <1>1, <1>2, RegistryInvHolds, PTL DEF BackendSpec, Spec

-----------------------------------------------------------------------------
(* The registry's steps and persistence *)

(* Nothing the registry does to a Flipper changes isPersistent: only operations set it. *)
LEMMA KeepsPersistent ==
    ASSUME NEW d \in Device
    PROVE  /\ GoesOnline(d).persistent = d.persistent
           /\ DeviceInfoChanged(d).persistent = d.persistent
           /\ GoesOffline(d).persistent = d.persistent
           /\ \A info \in UsbInfo : SetDeviceInfo(d, info).persistent = d.persistent
<1>1. ASSUME NEW e \in Device PROVE GoesOnline(e).persistent = e.persistent
  BY DEF GoesOnline, Device
<1>2. ASSUME NEW e \in Device PROVE DeviceInfoChanged(e).persistent = e.persistent
  <2> DEFINE cleared == [e EXCEPT !.error = FALSE]
  <2>1. cleared \in Device /\ cleared.persistent = e.persistent
    BY DEF Device
  <2>2. \/ DeviceInfoChanged(e) = cleared
        \/ DeviceInfoChanged(e) = GoesOnline(cleared)
        \/ DeviceInfoChanged(e) = [cleared EXCEPT !.port = e.info.usb, !.timers = @ + 1]
    BY DEF DeviceInfoChanged
  <2>3. [cleared EXCEPT !.port = e.info.usb, !.timers = @ + 1].persistent = cleared.persistent
    <3> HIDE DEF cleared
    <3> QED
      BY <2>1 DEF Device
  <2> HIDE DEF cleared
  <2> QED
    BY <1>1, <2>1, <2>2, <2>3
<1>3. ASSUME NEW e \in Device, NEW info \in UsbInfo
      PROVE  SetDeviceInfo(e, info) \in Device /\ SetDeviceInfo(e, info).persistent = e.persistent
  <2> DEFINE known == [e EXCEPT !.info = info]
             queued == [e EXCEPT !.queue = Append(e.queue, info)]
  <2>1. known \in Device /\ known.persistent = e.persistent /\ queued.persistent = e.persistent
    BY DEF Device
  <2>2. SetDeviceInfo(e, info) = queued \/ SetDeviceInfo(e, info) = DeviceInfoChanged(known)
    BY DEF SetDeviceInfo
  <2>3. SetDeviceInfo(e, info) \in Device
    BY SetDeviceInfoFields
  <2> HIDE DEF known, queued
  <2> QED
    BY <1>2, <2>1, <2>2, <2>3
<1>4. GoesOffline(d).persistent = d.persistent
  <2> DEFINE off == [d EXCEPT !.online = FALSE]
  <2>1. off \in Device /\ off.persistent = d.persistent
    BY DEF Device
  <2>2. CASE ~d.online \/ d.queue = <<>>
    BY <2>1, <2>2 DEF GoesOffline
  <2>3. CASE d.online /\ d.queue # <<>>
    <3> DEFINE info == Last(d.queue)
               set == SetDeviceInfo(off, info)
    <3>1. info \in UsbInfo
      <4>1. d.queue \in Seq(UsbInfo)
        BY DEF Device
      <4> QED
        BY <2>3, <4>1, LastIsElement
    <3>2. GoesOffline(d) = [set EXCEPT !.queue = <<>>]
      BY <2>3 DEF GoesOffline, TakeLatest
    <3> HIDE DEF off, info
    <3>3. set \in Device /\ set.persistent = d.persistent
      BY <1>3, <2>1, <3>1
    <3> HIDE DEF set
    <3> QED
      BY <3>2, <3>3 DEF Device
  <2> QED
    BY <2>2, <2>3
<1> QED
  BY <1>1, <1>2, <1>3, <1>4

-----------------------------------------------------------------------------
(* The backend *)

BackendInv ==
    KeptTypeOK /\ DeviceIsThere /\ CurrentIsConnected /\ BusyWithSomething /\ WorkIsCurrent

Work == [checking : Nat, operating : Nat]

(* The fields of a device's work, and of the work of a device that has none. *)
LEMMA WorkFields ==
    ASSUME NEW w \in Work
    PROVE  /\ w.checking \in Nat /\ w.operating \in Nat
           /\ NoWork \in Work /\ NoWork.checking + NoWork.operating = 0
BY DEF Work, NoWork

(* While any device is listed there is a current one: the first of the list. *)
LEMMA CurrentFacts ==
    ASSUME RegistryInv, devices # <<>>
    PROVE  /\ CurrentDevice(devices) = Head(devices) /\ Head(devices) = devices[1]
           /\ 1 \in DOMAIN devices
           /\ Head(devices) \in Listed /\ Head(devices) \in DOMAIN dev
           /\ dev[Head(devices)] \in Device
<1>1. devices \in Seq(Flipper)
  BY InvFacts
<1>2. 1 \in DOMAIN devices /\ Head(devices) = devices[1]
  BY <1>1, EmptySeq, LenProperties
<1>3. Head(devices) \in Listed /\ DOMAIN dev = Listed
  BY <1>2, InvFacts DEF Listed
<1> QED
  BY <1>2, <1>3, InvFacts DEF CurrentDevice

(* A step that leaves the list alone.                                       *)
LEMMA SameListKeepsInv ==
    ASSUME BackendInv, RegistryInv, UNCHANGED devices,
           backendState' \in BackendStates, streamWatched' \in BOOLEAN, outlived' \in BOOLEAN,
           UNCHANGED connected, work' \in [Listed -> Work],
           \A f \in Listed : work'[f].checking + work'[f].operating > 0 => f = CurrentDevice(devices),
           backendState' \in {"Ready", "ScreenStreaming"} => devices # <<>>,
           backendState' = "Busy" =>
               /\ devices # <<>>
               /\ work'[Head(devices)].checking + work'[Head(devices)].operating > 0
               /\ dev'[Head(devices)].persistent
    PROVE  BackendInv'
<1>1. Listed' = Listed /\ CurrentDevice(devices)' = CurrentDevice(devices)
  BY DEF Listed, CurrentDevice
<1>2. KeptTypeOK'
  BY <1>1 DEF BackendInv, KeptTypeOK, Work
<1>3. DeviceIsThere'
  BY DEF DeviceIsThere
<1>4. CurrentIsConnected'
  BY <1>1 DEF BackendInv, CurrentIsConnected
<1>5. BusyWithSomething'
  BY <1>1, CurrentFacts DEF BusyWithSomething, AtWork, WorkOf
<1>6. WorkIsCurrent'
  BY <1>1 DEF WorkIsCurrent, AtWork, WorkOf
<1> QED
  BY <1>2, <1>3, <1>4, <1>5, <1>6 DEF BackendInv

(* The conjuncts of BackendInv, for proofs that need them without its definition. *)
LEMMA BackendFacts ==
    ASSUME BackendInv
    PROVE  /\ backendState \in BackendStates
           /\ connected \in [Listed -> Nat] /\ work \in [Listed -> Work]
           /\ streamWatched \in BOOLEAN /\ outlived \in BOOLEAN
           /\ \A f \in Listed : WorkOf(f) > 0 => f = CurrentDevice(devices)
           /\ backendState \in {"Ready", "ScreenStreaming", "Busy"} => devices # <<>>
           /\ devices # <<>> => connected[CurrentDevice(devices)] > 0
           /\ backendState = "Busy" =>
                 /\ WorkOf(CurrentDevice(devices)) > 0
                 /\ dev[CurrentDevice(devices)].persistent
BY DEF BackendInv, KeptTypeOK, DeviceIsThere, CurrentIsConnected, BusyWithSomething, WorkIsCurrent,
       AtWork, Work

(* A device changes, but for its persistence, and nothing else.             *)
LEMMA DeviceKeepsInv ==
    ASSUME BackendInv, RegistryInv, UNCHANGED devices, UNCHANGED <<connected, work>>,
           streamWatched' \in BOOLEAN, outlived' \in BOOLEAN,
           backendState' = backendState \/ backendState' \in {"Finished", "ErrorOccured"},
           \A f \in DOMAIN dev : dev'[f].persistent = dev[f].persistent
    PROVE  BackendInv'
<1>1. devices # <<>> => /\ CurrentDevice(devices) = Head(devices)
                        /\ dev'[Head(devices)].persistent = dev[Head(devices)].persistent
  BY CurrentFacts
<1> QED
  BY <1>1, BackendFacts, SameListKeepsInv DEF WorkOf, BackendStates

(* A device emits operationFinished().                                      *)
LEMMA FinishedKeepsInv ==
    ASSUME BackendInv, RegistryInv, UNCHANGED devices,
           NEW f \in DOMAIN dev, NEW d, Update(f, d),
           NEW ended \in Nat, ended <= work[f].operating,
           OnOperationFinished(f, ended)
    PROVE  BackendInv'
<1> DEFINE left == [checking |-> 0, operating |-> work[f].operating - ended]
<1>1. f \in Listed /\ work[f] \in Work
  BY InvFacts, BackendFacts
<1>2. work' = [work EXCEPT ![f] = left] /\ UNCHANGED <<connected, streamWatched, outlived>>
  BY DEF OnOperationFinished, Counts
<1>3. left \in Work /\ left.checking + left.operating <= WorkOf(f)
  <2>1. work[f].operating - ended \in Nat /\ work[f].operating - ended <= work[f].operating
    BY <1>1, WorkFields
  <2> QED
    BY <1>1, <2>1, WorkFields DEF Work, WorkOf
<1> HIDE DEF left
<1>4. work' \in [Listed -> Work]
  BY <1>1, <1>2, <1>3, BackendFacts
<1>5. \A g \in Listed : work'[g] = IF g = f THEN left ELSE work[g]
  BY <1>2, BackendFacts
<1>6. \A g \in Listed : work'[g].checking + work'[g].operating > 0 => g = CurrentDevice(devices)
  <2> SUFFICES ASSUME NEW g \in Listed, work'[g].checking + work'[g].operating > 0
               PROVE  g = CurrentDevice(devices)
    OBVIOUS
  <2>1. WorkOf(g) > 0
    <3>1. CASE g = f
      <4>1. left.checking + left.operating > 0
        BY <1>5, <3>1
      <4>2. left.checking + left.operating \in Nat /\ WorkOf(f) \in Nat
        BY <1>1, <1>3, WorkFields DEF WorkOf
      <4> QED
        BY <1>3, <3>1, <4>1, <4>2
    <3>2. CASE g # f
      BY <1>5, <3>2 DEF WorkOf
    <3> QED
      BY <3>1, <3>2
  <2> QED
    BY <2>1, BackendFacts
<1>7. \/ backendState' \in {"Finished", "ErrorOccured"}
      \/ backendState' = backendState /\ ~(connected[f] > 0)
  BY DEF OnOperationFinished, ResultShown
<1>8. CASE backendState' \in {"Finished", "ErrorOccured"}
  BY <1>2, <1>4, <1>6, <1>8, BackendFacts, SameListKeepsInv DEF BackendStates
<1>9. CASE backendState' = backendState /\ ~(connected[f] > 0)
  <2>1. devices # <<>> => f # Head(devices)
    BY <1>9, BackendFacts, CurrentFacts
  <2>2. ASSUME backendState' = "Busy"
        PROVE  /\ devices # <<>>
               /\ work'[Head(devices)].checking + work'[Head(devices)].operating > 0
               /\ dev'[Head(devices)].persistent
    <3>1. devices # <<>> /\ backendState = "Busy"
      BY <1>9, <2>2, BackendFacts
    <3>2. /\ Head(devices) \in Listed /\ Head(devices) \in DOMAIN dev
          /\ CurrentDevice(devices) = Head(devices) /\ Head(devices) # f
      BY <2>1, <3>1, CurrentFacts
    <3>3. work'[Head(devices)] = work[Head(devices)] /\ dev'[Head(devices)] = dev[Head(devices)]
      BY <1>5, <3>2 DEF Update
    <3> QED
      BY <3>1, <3>2, <3>3, BackendFacts DEF WorkOf
  <2> QED
    BY <1>2, <1>4, <1>6, <1>9, <2>2, BackendFacts, SameListKeepsInv
<1> QED
  BY <1>7, <1>8, <1>9

(* A list that loses another entry than its first keeps that.               *)
LEMMA HeadStays ==
    ASSUME NEW S, NEW s \in Seq(S), NEW i \in DOMAIN s, i # 1
    PROVE  RemoveAt(s, i) # <<>> /\ Head(RemoveAt(s, i)) = Head(s)
<1> DEFINE r == RemoveAt(s, i)
<1>1. /\ r \in Seq(S) /\ DOMAIN r = 1..(Len(s) - 1)
      /\ \A j \in 1..(Len(s) - 1) : r[j] = IF j < i THEN s[j] ELSE s[j + 1]
  BY Removed
<1>2. Len(s) \in Nat /\ i \in 1..Len(s) /\ Len(s) > 1
  BY LenProperties
<1> HIDE DEF r
<1>3. 1 \in DOMAIN r /\ r[1] = s[1]
  BY <1>1, <1>2
<1>4. r # <<>> /\ Head(r) = r[1]
  BY <1>1, <1>3
<1>5. Head(s) = s[1]
  OBVIOUS
<1> QED
  BY <1>3, <1>4, <1>5 DEF r

(* The list changes by one entry, and the devices with it; the backend      *)
(* keeps what belongs to the others.                                        *)
LEMMA ComeAndGoFields ==
    ASSUME BackendInv, RegistryInv, RegistryInv', DevicesComeAndGo
    PROVE  /\ work' \in [Listed' -> Work] /\ outlived' \in BOOLEAN
           /\ \A f \in Listed' : work'[f] = IF f \in Listed THEN work[f] ELSE NoWork
           /\ \A f \in Listed' : WorkOf(f)' > 0 => f \in Listed /\ f = CurrentDevice(devices)
<1>1. /\ work' \in [Listed' -> Work]
      /\ \A f \in Listed' : work'[f] = IF f \in Listed THEN work[f] ELSE NoWork
  <2>1. DOMAIN dev' = Listed' /\ DOMAIN work = Listed
    BY BackendFacts DEF RegistryInv, TypeOK
  <2>2. work' = [f \in Listed' |-> IF f \in Listed THEN work[f] ELSE NoWork]
    BY <2>1 DEF DevicesComeAndGo, OfRemaining
  <2>3. NoWork \in Work
    BY DEF NoWork, Work
  <2> QED
    BY <2>2, <2>3, BackendFacts
<1>2. ASSUME NEW f \in Listed', WorkOf(f)' > 0 PROVE f \in Listed /\ f = CurrentDevice(devices)
  <2>1. NoWork.checking + NoWork.operating = 0
    BY DEF NoWork
  <2>2. f \in Listed
    BY <1>1, <1>2, <2>1 DEF WorkOf
  <2> QED
    BY <1>1, <1>2, <2>2, BackendFacts DEF WorkOf
<1> QED
  BY <1>1, <1>2 DEF DevicesComeAndGo

(* currentDeviceChanged(), in any way the list can have changed: what is at *)
(* work is on the device that is current now, and while the backend is busy *)
(* that has not changed.                                                    *)
LEMMA ChangeKeepsInv ==
    ASSUME BackendInv, RegistryInv, RegistryInv', DevicesComeAndGo, OnCurrentDeviceChanged,
           \A f \in Listed' : WorkOf(f)' > 0 => f = CurrentDevice(devices'),
           backendState = "Busy" =>
               devices # <<>> /\ (devices' = <<>> \/ Head(devices') = Head(devices))
    PROVE  BackendInv'
<1> DEFINE current == CurrentDevice(devices')
           others == OfRemaining(connected, 0)
<1>1. /\ others \in [Listed' -> Nat]
      /\ \A f \in Listed' : others[f] = IF f \in Listed THEN connected[f] ELSE 0
  <2>1. DOMAIN dev' = Listed' /\ DOMAIN connected = Listed
    BY BackendFacts DEF RegistryInv, TypeOK
  <2>2. others = [f \in Listed' |-> IF f \in Listed THEN connected[f] ELSE 0]
    BY <2>1 DEF OfRemaining
  <2> HIDE DEF others
  <2> QED
    BY <2>2, BackendFacts
<1>2. devices' # <<>> => current = Head(devices') /\ current \in Listed' /\ current # NoDevice
  <2> SUFFICES ASSUME devices' # <<>>
               PROVE  current = Head(devices') /\ current \in Listed' /\ current # NoDevice
    OBVIOUS
  <2>1. devices' \in Seq(Flipper)
    BY DEF RegistryInv, TypeOK
  <2>2. 1 \in DOMAIN devices' /\ Head(devices') = devices'[1] /\ Head(devices') \in Flipper
    BY <2>1, EmptySeq, LenProperties, HeadTailProperties
  <2> QED
    BY <2>2, NoDeviceAssumption DEF CurrentDevice, Listed
<1>3. devices' = <<>> => current = NoDevice
  BY DEF CurrentDevice
<1>4. /\ work' \in [Listed' -> Work] /\ outlived' \in BOOLEAN
      /\ backendState \in BackendStates /\ streamWatched \in BOOLEAN
  BY ComeAndGoFields, BackendFacts
<1>5. WorkIsCurrent'
  BY DEF WorkIsCurrent, AtWork
<1>6. CASE /\ backendState = "Busy" /\ backendState' = "ErrorOccured"
           /\ connected' = others /\ UNCHANGED streamWatched
  <2>1. KeptTypeOK'
    BY <1>1, <1>4, <1>6 DEF KeptTypeOK, BackendStates, Work
  <2>2. CurrentIsConnected'
    <3>1. SUFFICES ASSUME devices' # <<>> PROVE connected'[current] > 0
      BY DEF CurrentIsConnected
    <3>2. devices # <<>> /\ current = Head(devices)
      BY <1>2, <1>6, <3>1
    <3>3. Head(devices) \in Listed /\ CurrentDevice(devices) = Head(devices)
      BY <3>2, CurrentFacts
    <3>4. connected'[current] = connected[CurrentDevice(devices)]
      BY <1>1, <1>2, <1>6, <3>1, <3>2, <3>3
    <3> QED
      BY <3>2, <3>4, BackendFacts
  <2> QED
    BY <1>5, <1>6, <2>1, <2>2 DEF BackendInv, DeviceIsThere, BusyWithSomething
<1>7. CASE /\ backendState # "Busy" /\ current = NoDevice
           /\ backendState' = "WaitingForDevices"
           /\ connected' = others /\ UNCHANGED streamWatched
  <2>1. KeptTypeOK'
    BY <1>1, <1>4, <1>7 DEF KeptTypeOK, BackendStates, Work
  <2>2. devices' = <<>>
    BY <1>2, <1>7
  <2> QED
    BY <1>5, <1>7, <2>1, <2>2 DEF BackendInv, DeviceIsThere, BusyWithSomething, CurrentIsConnected
<1>8. CASE /\ backendState # "Busy" /\ current # NoDevice
           /\ connected' = [others EXCEPT ![current] = ConnectedOnceMore(@)]
           /\ IF dev'[current].info.dfu
              THEN backendState' = "Ready" /\ UNCHANGED streamWatched
              ELSE streamWatched' = TRUE /\ UNCHANGED backendState
  <2>1. devices' # <<>> /\ current \in Listed'
    BY <1>2, <1>3, <1>8
  <2>2. others[current] \in Nat /\ connected' = [others EXCEPT ![current] = others[current] + 1]
    BY <1>1, <1>8, <2>1 DEF ConnectedOnceMore
  <2> HIDE DEF others, current
  <2>3. connected' \in [Listed' -> Nat] /\ connected'[current] > 0
    BY <1>1, <2>1, <2>2
  <2>4. /\ backendState' \in BackendStates /\ backendState' # "Busy"
        /\ streamWatched' \in BOOLEAN
    BY <1>4, <1>8 DEF BackendStates
  <2>5. KeptTypeOK'
    BY <1>4, <2>3, <2>4 DEF KeptTypeOK, Work
  <2>6. CurrentIsConnected'
    BY <2>3 DEF CurrentIsConnected, current
  <2> QED
    BY <1>5, <2>1, <2>4, <2>5, <2>6 DEF BackendInv, DeviceIsThere, BusyWithSomething
<1> QED
  BY <1>6, <1>7, <1>8 DEF OnCurrentDeviceChanged

(* The first device of the list stays it, or the list is empty; nobody is   *)
(* told.                                                                    *)
LEMMA SameFirstKeepsInv ==
    ASSUME BackendInv, RegistryInv, RegistryInv', DevicesComeAndGo,
           connected' = connected \/ connected' = OfRemaining(connected, 0),
           devices' = <<>> \/ (devices # <<>> /\ Head(devices') = Head(devices)),
           connected' = connected => devices' = devices,
           backendState' \in BackendStates, streamWatched' \in BOOLEAN,
           backendState' \in {"Ready", "ScreenStreaming"} => devices' # <<>>,
           backendState' = "Busy" =>
               backendState = "Busy" /\ devices' # <<>> /\ dev'[Head(devices)].persistent
    PROVE  BackendInv'
<1>1. /\ connected' \in [Listed' -> Nat]
      /\ \A f \in Listed' : f \in Listed => connected'[f] = connected[f]
  <2>1. DOMAIN dev' = Listed' /\ DOMAIN connected = Listed
    BY BackendFacts DEF RegistryInv, TypeOK
  <2>2. CASE connected' = OfRemaining(connected, 0)
    <3>1. connected' = [f \in Listed' |-> IF f \in Listed THEN connected[f] ELSE 0]
      BY <2>1, <2>2 DEF OfRemaining
    <3> QED
      BY <3>1, BackendFacts
  <2>3. CASE connected' = connected
    BY <2>3, BackendFacts DEF Listed
  <2> QED
    BY <2>2, <2>3
<1>2. KeptTypeOK'
  BY <1>1, ComeAndGoFields DEF KeptTypeOK, Work
<1>3. CASE devices' = <<>>
  <2>1. DOMAIN devices' = {}
    BY <1>3
  <2>2. Listed' = {}
    BY <2>1 DEF Listed
  <2> QED
    BY <1>2, <1>3, <2>2
       DEF BackendInv, DeviceIsThere, CurrentIsConnected, BusyWithSomething, WorkIsCurrent, BackendStates
<1>4. CASE devices' # <<>> /\ devices # <<>> /\ Head(devices') = Head(devices)
  <2> DEFINE current == Head(devices)
  <2>1. /\ CurrentDevice(devices) = current /\ CurrentDevice(devices') = current
        /\ current \in Listed
    BY <1>4, CurrentFacts DEF CurrentDevice
  <2>2. current \in Listed'
    <3>1. devices' \in Seq(Flipper)
      BY DEF RegistryInv, TypeOK
    <3>2. 1 \in DOMAIN devices' /\ Head(devices') = devices'[1]
      BY <1>4, <3>1, EmptySeq, LenProperties
    <3> QED
      BY <1>4, <3>2 DEF Listed
  <2> HIDE DEF current
  <2>3. CurrentIsConnected'
    BY <1>1, <1>4, <2>1, <2>2, BackendFacts DEF CurrentIsConnected
  <2>4. BusyWithSomething'
    <3>1. SUFFICES ASSUME backendState' = "Busy"
                   PROVE  /\ work'[current].checking + work'[current].operating > 0
                          /\ dev'[current].persistent
      BY <1>4, <2>1 DEF BusyWithSomething, AtWork, WorkOf
    <3>2. WorkOf(current) > 0 /\ dev'[current].persistent
      BY <2>1, <3>1, BackendFacts DEF current
    <3>3. work'[current] = work[current]
      BY <2>1, <2>2, ComeAndGoFields
    <3> QED
      BY <3>2, <3>3 DEF WorkOf
  <2>5. WorkIsCurrent'
    BY <2>1, ComeAndGoFields DEF WorkIsCurrent, AtWork
  <2> QED
    BY <1>2, <1>4, <2>3, <2>4, <2>5 DEF BackendInv, DeviceIsThere
<1> QED
  BY <1>3, <1>4

(* What a session reports.                                                  *)
LEMMA ReportKeepsInv ==
    ASSUME BackendInv, RegistryInv, UNCHANGED devices,
           NEW f \in DOMAIN dev, NEW d, Update(f, d), d.persistent = dev[f].persistent,
           NEW isError, SessionReports(f, isError)
    PROVE  BackendInv'
<1>1. CASE UNCHANGED <<backendState, connected, streamWatched, work, outlived>>
  <2>1. \A g \in DOMAIN dev : dev'[g].persistent = dev[g].persistent
    BY DEF Update
  <2> QED
    BY <1>1, <2>1, BackendFacts, DeviceKeepsInv
<1>2. CASE OnOperationFinished(f, 0)
  <2>1. work[f].operating \in Nat /\ 0 <= work[f].operating
    <3>1. f \in Listed
      BY InvFacts
    <3> QED
      BY <3>1, BackendFacts, WorkFields
  <2> QED
    BY <1>2, <2>1, FinishedKeepsInv
<1> QED
  BY <1>1, <1>2 DEF SessionReports

(* A step of a session keeps BackendInv. *)
LEMMA SessionStepKeepsInv ==
    ASSUME BackendInv, RegistryInv, NEW f \in DOMAIN dev, SessionStep(f)
    PROVE  BackendInv'
<1>1. dev[f] \in Device
  BY InvFacts
<1>2. ASSUME NEW pluginLoads \in BOOLEAN, StartSession(f, pluginLoads),
             SessionReports(f, dev[f].session = "Stopped" /\ ~pluginLoads)
      PROVE  BackendInv'
  <2> DEFINE d == [dev[f] EXCEPT !.timers = @ - 1]
             e == CASE d.session # "Stopped" -> [d EXCEPT !.refused = TRUE]
                    [] d.session = "Stopped" /\ pluginLoads ->
                          [d EXCEPT !.session = "Starting", !.opened = d.port, !.refused = FALSE]
                    [] OTHER -> [d EXCEPT !.error = TRUE, !.refused = FALSE]
  <2>1. Update(f, e) /\ UNCHANGED devices
    BY <1>2 DEF StartSession
  <2>2. dev[f].timers - 1 \in Nat
    BY <1>1, <1>2 DEF StartSession, Device
  <2>3. d \in Device /\ d.persistent = dev[f].persistent
    BY <1>1, <2>2 DEF Device
  <2> HIDE DEF d
  <2>4. \/ e = [d EXCEPT !.refused = TRUE]
        \/ e = [d EXCEPT !.session = "Starting", !.opened = d.port, !.refused = FALSE]
        \/ e = [d EXCEPT !.error = TRUE, !.refused = FALSE]
    OBVIOUS
  <2> HIDE DEF e
  <2>5. e.persistent = d.persistent
    BY <2>3, <2>4 DEF Device
  <2> QED
    BY <1>2, <2>1, <2>3, <2>5, ReportKeepsInv
<1>3. ASSUME NEW success \in BOOLEAN, SessionStarted(f, success), SessionReports(f, ~success)
      PROVE  BackendInv'
  <2> DEFINE up == [dev[f] EXCEPT !.session = "Up", !.opened = NoPort]
             failed == [dev[f] EXCEPT !.session = "Stopped", !.opened = NoPort, !.error = TRUE]
  <2>1. (Update(f, GoesOnline(up)) \/ Update(f, failed)) /\ UNCHANGED devices
    BY <1>3 DEF SessionStarted
  <2>2. up \in Device /\ up.persistent = dev[f].persistent /\ failed.persistent = dev[f].persistent
    BY <1>1 DEF Device
  <2> HIDE DEF up, failed
  <2>3. GoesOnline(up).persistent = dev[f].persistent
    BY <2>2, KeepsPersistent
  <2> QED
    BY <1>3, <2>1, <2>2, <2>3, ReportKeepsInv
<1>4. ASSUME NEW writeFailed \in BOOLEAN, NEW revived \in BOOLEAN, SessionLost(f, writeFailed, revived),
             SessionReports(f, writeFailed)
      PROVE  BackendInv'
  <2> DEFINE stopped == [dev[f] EXCEPT !.session = "Stopped", !.error = @ \/ writeFailed]
             up == [stopped EXCEPT !.session = IF writeFailed THEN "Failed" ELSE "Revived"]
  <2>1. (Update(f, stopped) \/ Update(f, up) \/ Update(f, GoesOnline(up))) /\ UNCHANGED devices
    BY <1>4 DEF SessionLost
  <2>2. stopped \in Device /\ stopped.persistent = dev[f].persistent
    BY <1>1 DEF Device
  <2> HIDE DEF stopped
  <2>3. up \in Device /\ up.persistent = dev[f].persistent
    BY <2>2 DEF Device
  <2> HIDE DEF up
  <2>4. GoesOnline(up).persistent = dev[f].persistent
    BY <2>3, KeepsPersistent
  <2> QED
    BY <1>4, <2>1, <2>2, <2>3, <2>4, ReportKeepsInv
<1>5. CASE SessionStatusChanged(f) /\ SessionReports(f, dev[f].session = "Failed")
  <2> DEFINE failed == [dev[f] EXCEPT !.error = TRUE]
  <2>1. (Update(f, GoesOnline(dev[f])) \/ Update(f, failed)) /\ UNCHANGED devices
    BY <1>5 DEF SessionStatusChanged
  <2>2. failed.persistent = dev[f].persistent /\ GoesOnline(dev[f]).persistent = dev[f].persistent
    BY <1>1, KeepsPersistent DEF Device
  <2> HIDE DEF failed
  <2> QED
    BY <1>5, <2>1, <2>2, ReportKeepsInv
<1>6. CASE SetStorageInfo(f) /\ SessionReports(f, FALSE)
  <2>1. Update(f, DeviceInfoChanged(dev[f])) /\ UNCHANGED devices
    BY <1>6 DEF SetStorageInfo
  <2>2. \A g \in DOMAIN dev : dev'[g].persistent = dev[g].persistent
    BY <1>1, <2>1, KeepsPersistent DEF Update
  <2> QED
    BY <1>6, <2>1, <2>2, BackendFacts, DeviceKeepsInv DEF SessionReports
<1> QED
  BY <1>2, <1>3, <1>4, <1>5, <1>6 DEF SessionStep

(* A device that leaves the bus, and the list if it is not persistent, keeps BackendInv. *)
LEMMA DeviceRemovedKeepsInv ==
    ASSUME BackendInv, RegistryInv, RegistryInv', NEW usb \in Connections, DeviceRemoved(usb)
    PROVE  BackendInv'
<1>1. RemoveDevice(usb) /\ DevicesComeAndGo
  BY DEF DeviceRemoved
<1>2. CASE /\ UNCHANGED devices
           /\ \A f \in DOMAIN dev : dev'[f].persistent = dev[f].persistent
  <2>1. UNCHANGED <<backendState, connected, streamWatched>>
    BY <1>2 DEF DeviceRemoved
  <2>2. backendState \in {"Ready", "ScreenStreaming", "Busy"} => devices # <<>>
    BY BackendFacts
  <2>3. backendState = "Busy" => dev'[Head(devices)].persistent
    BY <1>2, <2>2, BackendFacts, CurrentFacts
  <2> QED
    BY <1>1, <1>2, <2>1, <2>2, <2>3, BackendFacts, SameFirstKeepsInv
<1>3. ASSUME NEW i \in DOMAIN devices, ~dev[devices[i]].persistent, TakeAt(i)
      PROVE  BackendInv'
  <2>1. devices' = RemoveAt(devices, i) /\ devices \in Seq(Flipper) /\ devices # <<>>
    BY <1>3, InvFacts DEF TakeAt
  <2>2. /\ Head(devices) = devices[1] /\ CurrentDevice(devices) = Head(devices)
        /\ 1 \in DOMAIN devices
    BY <2>1, CurrentFacts
  <2>3. devices' # devices
    <3>1. DOMAIN devices' = 1..(Len(devices) - 1) /\ DOMAIN devices = 1..Len(devices) /\ Len(devices) \in Nat
      BY <2>1, Removed, LenProperties
    <3>2. Len(devices) \in DOMAIN devices /\ Len(devices) \notin DOMAIN devices'
      BY <2>2, <3>1
    <3> QED
      BY <3>2
  <2>4. OnCurrentDeviceChanged
    BY <2>3 DEF DeviceRemoved
  <2>5. i # 1 => devices' # <<>> /\ Head(devices') = Head(devices)
    BY <2>1, HeadStays
  <2>6. backendState = "Busy" => Head(devices') = Head(devices)
    <3>1. backendState = "Busy" => dev[devices[1]].persistent
      BY <2>2, BackendFacts
    <3>2. backendState = "Busy" => i # 1
      BY <1>3, <3>1
    <3> QED
      BY <2>5, <3>2
  <2>7. ASSUME NEW f \in Listed', WorkOf(f)' > 0 PROVE f = CurrentDevice(devices')
    <3>1. f = devices[1]
      BY <1>1, <2>2, <2>7, ComeAndGoFields
    <3>2. f # devices[i]
      <4>1. Listed' = DOMAIN dev'
        BY DEF RegistryInv, TypeOK
      <4> QED
        BY <1>3, <4>1 DEF TakeAt, WithoutDeviceAt
    <3> QED
      BY <2>2, <2>5, <3>1, <3>2 DEF CurrentDevice
  <2> QED
    BY <1>1, <2>1, <2>4, <2>6, <2>7, ChangeKeepsInv
<1>4. CASE UNCHANGED <<devices, dev>>
  BY <1>2, <1>4
<1>5. ASSUME NEW i \in DOMAIN devices, dev[devices[i]].persistent,
             Update(devices[i], GoesOffline(dev[devices[i]])), UNCHANGED devices
      PROVE  BackendInv'
  <2>1. devices[i] \in DOMAIN dev /\ dev[devices[i]] \in Device
    BY InvFacts
  <2>2. \A f \in DOMAIN dev : dev'[f].persistent = dev[f].persistent
    BY <1>5, <2>1, KeepsPersistent DEF Update
  <2> QED
    BY <1>2, <1>5, <2>2
<1>6. \A i \in DOMAIN devices : dev[devices[i]].persistent \in BOOLEAN
  BY InvFacts DEF Device
<1> QED
  BY <1>1, <1>3, <1>4, <1>5, <1>6 DEF RemoveDevice, RemovesDevice

(* The end of a device's information helper, with or without a device listed, keeps BackendInv. *)
LEMMA DeviceProcessedKeepsInv ==
    ASSUME BackendInv, RegistryInv, RegistryInv', NEW query \in helpers,
           NEW success \in BOOLEAN, NEW another \in BOOLEAN, DeviceProcessed(query, success, another)
    PROVE  BackendInv'
<1>1. /\ ProcessDevice(query, success) /\ DevicesComeAndGo
      /\ query.name \in Flipper /\ query.info \in UsbInfo
  BY InvFacts DEF DeviceProcessed, Info
<1>2. ASSUME devices' = devices \/ Len(devices') # 1
      PROVE  /\ backendState' = backendState \/ (~success /\ backendState' = "ErrorOccured")
             /\ connected' = OfRemaining(connected, 0) /\ UNCHANGED streamWatched
  BY <1>2 DEF DeviceProcessed, OnDeviceRegistryErrorOccured
<1>3. CASE /\ UNCHANGED devices
           /\ \A f \in DOMAIN dev : dev'[f].persistent = dev[f].persistent
  <2>1. backendState \in {"Ready", "ScreenStreaming", "Busy"} => devices # <<>>
    BY BackendFacts
  <2>2. backendState = "Busy" => dev'[Head(devices)].persistent
    BY <1>3, <2>1, BackendFacts, CurrentFacts
  <2>3. backendState' = backendState \/ backendState' = "ErrorOccured"
    BY <1>2, <1>3
  <2> QED
    BY <1>1, <1>2, <1>3, <2>1, <2>2, <2>3, BackendFacts, SameFirstKeepsInv DEF BackendStates
<1>4. CASE ~success
  BY <1>1, <1>3, <1>4 DEF ProcessDevice
<1>5. CASE success /\ IsListed(query.name)
  <2>1. Update(query.name, SetDeviceInfo(dev[query.name], query.info)) /\ UNCHANGED devices
    BY <1>1, <1>5 DEF ProcessDevice
  <2>2. query.name \in DOMAIN dev /\ dev[query.name] \in Device
    BY <1>5, InvFacts DEF IsListed
  <2>3. \A f \in DOMAIN dev : dev'[f].persistent = dev[f].persistent
    BY <1>1, <2>1, <2>2, KeepsPersistent DEF Update
  <2> QED
    BY <1>3, <2>1, <2>3
<1>6. CASE success /\ ~IsListed(query.name)
  <2>1. /\ devices' = Append(devices, query.name) /\ devices \in Seq(Flipper)
        /\ \A f \in DOMAIN dev : dev'[f] = IF f = query.name THEN NewDevice(query.info) ELSE dev[f]
    BY <1>1, <1>6, InvFacts DEF ProcessDevice
  <2>2. /\ Len(devices') = Len(devices) + 1 /\ Len(devices) \in Nat
        /\ devices' # devices /\ devices' # <<>>
    <3>1. Len(devices') = Len(devices) + 1 /\ Len(devices) \in Nat
      BY <1>1, <2>1, AppendProperties, LenProperties
    <3> QED
      BY <3>1, <1>1, <2>1, Appended
  <2>3. CASE devices = <<>>
    <3>1. Len(devices') = 1
      BY <2>2, <2>3, EmptySeq
    <3>2. OnCurrentDeviceChanged
      BY <2>2, <3>1 DEF DeviceProcessed
    <3>3. Listed = {}
      BY <2>3 DEF Listed
    <3> QED
      BY <1>1, <2>3, <3>2, <3>3, BackendFacts, ComeAndGoFields, ChangeKeepsInv
  <2>4. CASE devices # <<>>
    <3>1. Len(devices') # 1 /\ Head(devices') = Head(devices)
      BY <1>1, <2>1, <2>2, <2>4, EmptySeq, HeadTailAppend
    <3>2. /\ backendState' = backendState
          /\ connected' = OfRemaining(connected, 0) /\ UNCHANGED streamWatched
      BY <1>2, <1>6, <3>1
    <3>3. Head(devices) \in DOMAIN dev /\ Head(devices) # query.name
      BY <1>6, <2>4, CurrentFacts DEF IsListed
    <3>4. backendState = "Busy" => dev'[Head(devices)].persistent
      BY <2>1, <2>4, <3>3, BackendFacts, CurrentFacts
    <3>5. connected' = connected => devices' = devices
      <4>1. DOMAIN connected = Listed /\ DOMAIN dev' = Listed'
        BY BackendFacts DEF RegistryInv, TypeOK
      <4>2. query.name \in DOMAIN dev' /\ query.name \notin Listed
        BY <1>1, <1>6 DEF ProcessDevice, IsListed, Listed
      <4> QED
        BY <3>2, <4>1, <4>2 DEF OfRemaining
    <3> QED
      BY <1>1, <2>2, <2>4, <3>1, <3>2, <3>4, <3>5, BackendFacts, SameFirstKeepsInv
  <2> QED
    BY <2>3, <2>4
<1> QED
  BY <1>4, <1>5, <1>6

(* What an operation sets on its device: isPersistent and the error, and nothing on any other. *)
LEMMA OperationSetsFields ==
    ASSUME RegistryInv, NEW f \in DOMAIN dev, NEW persistent, NEW isError,
           OperationSets(f, persistent, isError)
    PROVE  /\ UNCHANGED devices
           /\ \E d : Update(f, d)
           /\ \A g \in DOMAIN dev : dev'[g].persistent = IF g = f THEN persistent ELSE dev[g].persistent
           /\ dev'[f].error = isError
<1> DEFINE d == [dev[f] EXCEPT !.persistent = persistent, !.error = isError,
                    !.refused = @ \/ (dev[f].error /\ ~isError /\ ~dev[f].online)]
<1>1. Update(f, d) /\ UNCHANGED devices
  BY DEF OperationSets
<1>2. dev[f] \in Device
  BY InvFacts
<1>3. d.persistent = persistent /\ d.error = isError
  BY <1>2 DEF Device
<1> HIDE DEF d
<1> QED
  BY <1>1, <1>3 DEF Update

(* Beginning an operation on the current device keeps BackendInv. *)
LEMMA BeginOperationKeepsInv ==
    ASSUME BackendInv, RegistryInv, NEW byHelper \in BOOLEAN, BeginOperation(byHelper)
    PROVE  BackendInv'
<1> DEFINE f == Head(devices)
           w == WorkAdded(work[f], byHelper)
<1>1. /\ devices # <<>> /\ f \in DOMAIN dev /\ f \in Listed /\ CurrentDevice(devices) = f
  BY CurrentFacts DEF BeginOperation
<1>2. /\ OperationSets(f, TRUE, byHelper /\ dev[f].error)
      /\ backendState' = "Busy" /\ work' = [work EXCEPT ![f] = w]
      /\ UNCHANGED <<connected, streamWatched, outlived>>
  BY DEF BeginOperation, DeviceToUse, MakesPersistent, Counts
<1>3. work[f] \in Work
  BY <1>1, BackendFacts
<1> HIDE DEF f
<1>4. w \in Work /\ w.checking + w.operating > 0
  BY <1>3 DEF WorkAdded, Work
<1> HIDE DEF w
<1>5. UNCHANGED devices /\ dev'[f].persistent
  BY <1>1, <1>2, OperationSetsFields
<1>6. /\ work' \in [Listed -> Work]
      /\ \A g \in Listed : work'[g] = IF g = f THEN w ELSE work[g]
  BY <1>1, <1>2, <1>4, BackendFacts
<1>7. \A g \in Listed : work'[g].checking + work'[g].operating > 0 => g = CurrentDevice(devices)
  BY <1>1, <1>6, BackendFacts DEF WorkOf
<1>8. f = Head(devices)
  BY DEF f
<1> QED
  BY <1>1, <1>2, <1>4, <1>5, <1>6, <1>7, <1>8, BackendFacts, SameListKeepsInv DEF BackendStates

(* The end of an update check, with the operation it may begin, keeps BackendInv. *)
LEMMA UpdatesCheckedKeepsInv ==
    ASSUME BackendInv, RegistryInv, NEW f \in DOMAIN dev, NEW retrieved \in BOOLEAN,
           UpdatesChecked(f, retrieved)
    PROVE  BackendInv'
<1>1. f \in Listed /\ work[f] \in Work /\ work[f].checking > 0
  BY InvFacts, BackendFacts DEF UpdatesChecked
<1>2. CASE /\ OperationSets(f, TRUE, FALSE)
           /\ Counts(f, [checking |-> work[f].checking - 1, operating |-> work[f].operating + 1])
           /\ UNCHANGED <<backendState, connected, streamWatched, outlived>>
  <2> DEFINE w == [checking |-> work[f].checking - 1, operating |-> work[f].operating + 1]
  <2>1. work' = [work EXCEPT ![f] = w]
    BY <1>2 DEF Counts
  <2>2. w \in Work /\ w.checking + w.operating > 0
    BY <1>1, WorkFields DEF Work
  <2> HIDE DEF w
  <2>3. WorkOf(f) > 0
    BY <1>1, WorkFields DEF WorkOf
  <2>4. /\ work' \in [Listed -> Work]
        /\ \A g \in Listed : work'[g] = IF g = f THEN w ELSE work[g]
    BY <1>1, <2>1, <2>2, BackendFacts
  <2>5. \A g \in Listed : work'[g].checking + work'[g].operating > 0 => g = CurrentDevice(devices)
    BY <1>1, <2>3, <2>4, BackendFacts DEF WorkOf
  <2>6. UNCHANGED devices /\ dev'[f].persistent
    BY <1>2, OperationSetsFields
  <2>7. f = CurrentDevice(devices) /\ devices # <<>>
    <3>1. DOMAIN devices # {}
      BY <1>1 DEF Listed
    <3> QED
      BY <1>1, <2>3, <3>1, BackendFacts
  <2>8. f = Head(devices)
    BY <2>7, CurrentFacts
  <2> QED
    BY <1>1, <1>2, <2>2, <2>4, <2>5, <2>6, <2>7, <2>8, BackendFacts, SameListKeepsInv
<1>3. CASE OperationSets(f, dev[f].persistent, TRUE) /\ OnOperationFinished(f, 0)
  <2>1. UNCHANGED devices /\ \E d : Update(f, d)
    BY <1>3, OperationSetsFields
  <2>2. 0 \in Nat /\ 0 <= work[f].operating
    BY <1>1, WorkFields
  <2> QED
    BY <1>3, <2>1, <2>2, FinishedKeepsInv
<1> QED
  BY <1>2, <1>3 DEF UpdatesChecked

(* The end of an operation, successful or not, keeps BackendInv. *)
LEMMA OperationEndsKeepsInv ==
    ASSUME BackendInv, RegistryInv, NEW f \in DOMAIN dev, NEW success \in BOOLEAN,
           OperationEnds(f, success)
    PROVE  BackendInv'
<1>1. UNCHANGED devices /\ \E d : Update(f, d)
  BY OperationSetsFields DEF OperationEnds
<1>2. 1 \in Nat /\ 1 <= work[f].operating
  <2>1. work[f] \in Work
    BY InvFacts, BackendFacts
  <2> QED
    BY <2>1, WorkFields DEF OperationEnds
<1> QED
  BY <1>1, <1>2, FinishedKeepsInv DEF OperationEnds

(* finalizeOperation(), which the user calls, keeps BackendInv. *)
LEMMA FinalizeKeepsInv ==
    ASSUME BackendInv, RegistryInv, RegistryInv', FinalizeOperation
    PROVE  BackendInv'
<1>1. /\ DevicesComeAndGo /\ connected' = OfRemaining(connected, 0) /\ UNCHANGED streamWatched
      /\ backendState' = IF devices' = <<>> THEN "WaitingForDevices" ELSE "Ready"
  BY DEF FinalizeOperation, StateAfterwards
<1>2. \/ UNCHANGED devices
      \/ devices' = RemoveAt(devices, Len(devices)) /\ Len(devices) \in DOMAIN devices
  BY DEF FinalizeOperation, RemoveOfflineDevices
<1>3. devices' = <<>> \/ (devices # <<>> /\ Head(devices') = Head(devices))
  <2>1. ASSUME devices' = RemoveAt(devices, Len(devices)), Len(devices) \in DOMAIN devices, Len(devices) # 1
        PROVE  Head(devices') = Head(devices) /\ devices # <<>>
    <3>1. devices \in Seq(Flipper)
      BY InvFacts
    <3>2. DOMAIN devices = 1..Len(devices) /\ Len(devices) \in Nat
      BY <3>1, LenProperties
    <3>3. devices # <<>>
      BY <2>1, <3>2
    <3>4. Head(RemoveAt(devices, Len(devices))) = Head(devices)
      BY <2>1, <3>1, <3>2, HeadStays
    <3> QED
      BY <2>1, <3>3, <3>4
  <2>2. ASSUME devices' = RemoveAt(devices, Len(devices)), Len(devices) \in DOMAIN devices, Len(devices) = 1
        PROVE  devices' = <<>>
    <3>1. devices' \in Seq(Flipper) /\ DOMAIN devices' = 1..0
      BY <2>2, Removed, InvFacts
    <3> QED
      BY <3>1, EmptySeq, LenProperties
  <2> QED
    BY <1>2, <2>1, <2>2
<1>4. connected' = connected => devices' = devices
  <2> SUFFICES ASSUME connected' = connected, devices' = RemoveAt(devices, Len(devices)),
                      Len(devices) \in DOMAIN devices
               PROVE  FALSE
    BY <1>2
  <2>1. Listed' = Listed
    <3>1. DOMAIN connected' = DOMAIN dev' /\ DOMAIN connected = Listed /\ DOMAIN dev' = Listed'
      BY <1>1, BackendFacts DEF OfRemaining, RegistryInv, TypeOK
    <3> QED
      BY <3>1
  <2>2. {RemoveAt(devices, Len(devices))[j] : j \in DOMAIN RemoveAt(devices, Len(devices))}
            = Listed \ {devices[Len(devices)]}
    BY SMTT(20), ZenonT(30), InvFacts, RemovedOne DEF Listed
  <2>3. devices[Len(devices)] \in Listed
    BY DEF Listed
  <2> QED
    BY <2>1, <2>2, <2>3 DEF Listed
<1> QED
  BY <1>1, <1>3, <1>4, BackendFacts, SameFirstKeepsInv DEF BackendStates

(* Every step of the backend keeps the invariant.                           *)
LEMMA BackendStepKeepsInv ==
    ASSUME BackendInv, RegistryInv, RegistryInv', [BackendNext]_allVars
    PROVE  BackendInv'
<1>1. CASE UNCHANGED allVars
  BY <1>1 DEF allVars, vars, backendVars, BackendInv, KeptTypeOK, DeviceIsThere, CurrentIsConnected,
              BusyWithSomething, WorkIsCurrent, AtWork, WorkOf, Listed, CurrentDevice
<1>2. CASE RegistryStep
  <2>1. ASSUME NEW f \in Flipper, NEW dfu \in BOOLEAN, NEW complete \in BOOLEAN, NEW another \in BOOLEAN,
               DeviceInserted(f, dfu, complete, another)
        PROVE  BackendInv'
    <3>1. UNCHANGED <<devices, dev, connected, streamWatched, work, outlived>>
      BY <2>1 DEF DeviceInserted, InsertDevice
    <3>2. backendState' = backendState \/ backendState' = "ErrorOccured"
      BY <2>1 DEF DeviceInserted, OnDeviceRegistryErrorOccured
    <3> QED
      BY <3>1, <3>2, BackendFacts, DeviceKeepsInv
  <2> QED
    BY <1>2, <2>1, DeviceRemovedKeepsInv, DeviceProcessedKeepsInv DEF RegistryStep
<1>3. CASE OperationStep
  BY <1>3, BeginOperationKeepsInv, UpdatesCheckedKeepsInv, OperationEndsKeepsInv DEF OperationStep
<1>4. CASE FullScreenStreaming \/ OnScreenStreamerStateChanged \/ OnFileManagerErrorOccured
  <2>1. UNCHANGED <<devices, dev, connected, work, outlived>> /\ streamWatched' \in BOOLEAN
    BY <1>4, BackendFacts
       DEF vars, FullScreenStreaming, OnScreenStreamerStateChanged, OnFileManagerErrorOccured
  <2>2. backendState' \in {"Ready", "ScreenStreaming", "ErrorOccured"}
    BY <1>4 DEF FullScreenStreaming, OnScreenStreamerStateChanged, OnFileManagerErrorOccured
  <2>3. devices # <<>>
    BY <1>4, BackendFacts
       DEF FullScreenStreaming, OnScreenStreamerStateChanged, OnFileManagerErrorOccured
  <2> QED
    BY <2>1, <2>2, <2>3, BackendFacts, SameListKeepsInv DEF WorkOf, BackendStates
<1> QED
  BY <1>1, <1>2, <1>3, <1>4, SessionStepKeepsInv, FinalizeKeepsInv DEF BackendNext

(* The two invariants hold in every state of the application. *)
LEMMA BackendInvHolds == BackendSpec => [](RegistryInv /\ BackendInv)
<1>1. BackendInit => BackendInv
  <2> SUFFICES ASSUME BackendInit PROVE BackendInv
    OBVIOUS
  <2>1. devices = <<>> /\ Listed = {}
    BY DEF BackendInit, Init, Listed
  <2>2. connected \in [Listed -> Nat] /\ work \in [Listed -> [checking : Nat, operating : Nat]]
    BY <2>1 DEF BackendInit
  <2>3. KeptTypeOK
    BY <2>2 DEF BackendInit, KeptTypeOK, BackendStates
  <2>4. DeviceIsThere /\ BusyWithSomething
    BY DEF BackendInit, DeviceIsThere, BusyWithSomething
  <2>5. CurrentIsConnected /\ WorkIsCurrent
    BY <2>1 DEF CurrentIsConnected, WorkIsCurrent
  <2> QED
    BY <2>3, <2>4, <2>5 DEF BackendInv
<1>2. BackendInv /\ RegistryInv /\ RegistryInv' /\ [BackendNext]_allVars => BackendInv'
  BY BackendStepKeepsInv
<1> QED
  BY <1>1, <1>2, RegistryInvHolds, PTL DEF BackendSpec

(* ApplicationBackend::device() is not null wherever mainAction() and its    *)
(* like use it.                                                              *)
THEOREM DevicePresent == BackendSpec => []DeviceIsThere
BY BackendInvHolds, PTL DEF BackendInv

(* onDeviceOperationFinished() is connected to the current device, however   *)
(* it became that.                                                           *)
THEOREM CurrentListenedTo == BackendSpec => []CurrentIsConnected
BY BackendInvHolds, PTL DEF BackendInv

(* A state between UpdatingDevice and InstallingFUS has its operation.       *)
THEOREM BusyIsReal == BackendSpec => []BusyWithSomething
BY BackendInvHolds, PTL DEF BackendInv

(* No operation is left on a device that is not the current one.             *)
THEOREM WorkOnCurrent == BackendSpec => []WorkIsCurrent
BY BackendInvHolds, PTL DEF BackendInv

(* There is a device to act on, and what becomes of it is heard of.          *)
THEOREM UserHeard == BackendSpec => []UserIsHeard
BY DevicePresent, CurrentListenedTo, PTL DEF UserIsHeard

(* What is shown to be in progress is, and nothing else is.                  *)
THEOREM WorkShown == BackendSpec => []WorkIsShown
BY BusyIsReal, WorkOnCurrent, PTL DEF WorkIsShown

-----------------------------------------------------------------------------
(* What the user is told of the end of an operation *)

(* Only the current device is connected, what is at work beside another was  *)
(* begun so, and then EndIsShown.                                            *)
EndInv ==
    /\ outcome \in {"nothing", "succeeded", "failed"} /\ overlaps \in BOOLEAN
    /\ \A f \in Listed : connected[f] > 0 => f = CurrentDevice(devices)
    /\ \A f \in Listed : WorkOf(f) > 1 => overlaps
    /\ EndIsShown

(* A device that is the first of the list stays it for as long as it is listed. *)
LEMMA FirstStays ==
    ASSUME RegistryInv, RegistryInv', [Next]_vars, devices # <<>>, Head(devices) \in Listed'
    PROVE  CurrentDevice(devices') = Head(devices)
<1>1. /\ devices \in Seq(Flipper) /\ DOMAIN dev' = Listed'
      /\ Head(devices) = devices[1] /\ 1 \in DOMAIN devices
  BY InvFacts, CurrentFacts DEF RegistryInv, TypeOK
<1>2. ASSUME NEW i \in DOMAIN devices, devices' = RemoveAt(devices, i), DOMAIN dev' = DOMAIN dev \ {devices[i]}
      PROVE  CurrentDevice(devices') = Head(devices)
  <2>1. i # 1
    BY <1>1, <1>2
  <2> QED
    BY <1>1, <1>2, <2>1, HeadStays DEF CurrentDevice
<1>3. ASSUME NEW name \in Flipper, devices' = Append(devices, name)
      PROVE  CurrentDevice(devices') = Head(devices)
  <2>1. Head(devices') = Head(devices)
    BY <1>1, <1>3, HeadTailAppend
  <2>2. devices' # <<>>
    BY <1>1, <1>3, Appended
  <2> QED
    BY <2>1, <2>2 DEF CurrentDevice
<1>4. CASE UNCHANGED devices
  BY <1>4 DEF CurrentDevice
<1>5. ASSUME NEW usb \in Connections, RemoveDevice(usb) PROVE CurrentDevice(devices') = Head(devices)
  <2>1. UNCHANGED devices \/ \E i \in DOMAIN devices : TakeAt(i)
    BY <1>5 DEF RemoveDevice
  <2> QED
    BY <1>2, <1>4, <2>1 DEF TakeAt, WithoutDeviceAt
<1>6. ASSUME NEW query \in helpers, NEW success \in BOOLEAN, ProcessDevice(query, success)
      PROVE  CurrentDevice(devices') = Head(devices)
  <2>1. query.name \in Flipper
    BY InvFacts DEF Info
  <2>2. UNCHANGED devices \/ devices' = Append(devices, query.name)
    BY <1>6 DEF ProcessDevice
  <2> QED
    BY <1>3, <1>4, <2>1, <2>2
<1>7. CASE RemoveOfflineDevices
  <2> DEFINE n == Len(devices)
             devs == WithoutDeviceAt(n)
  <2>1. n \in DOMAIN devices
    BY <1>1, LenProperties
  <2>2. DOMAIN devs = DOMAIN dev \ {devices[n]}
    BY DEF WithoutDeviceAt
  <2> HIDE DEF n, devs
  <2>3. UNCHANGED devices \/ (devices' = RemoveAt(devices, n) /\ dev' = ErrorCleared(devices', devs))
    BY <1>7 DEF RemoveOfflineDevices, n, devs
  <2>4. DOMAIN ErrorCleared(devices', devs) = DOMAIN devs
    BY DEF ErrorCleared
  <2> QED
    BY <1>2, <1>4, <2>1, <2>2, <2>3, <2>4
<1>8. ASSUME NEW f \in DOMAIN dev, DeviceStep(f) PROVE UNCHANGED devices
  BY <1>8 DEF DeviceStep, StartSession, SessionStarted, SessionLost, SessionStatusChanged, OperationSets,
              SetStorageInfo
<1>9. ASSUME NEW f \in Flipper, NEW dfu \in BOOLEAN, NEW complete \in BOOLEAN, InsertDevice(f, dfu, complete)
      PROVE  UNCHANGED devices
  BY <1>9 DEF InsertDevice
<1>10. CASE UNCHANGED vars
  BY <1>4, <1>10 DEF vars
<1> QED
  BY <1>4, <1>5, <1>6, <1>7, <1>8, <1>9, <1>10 DEF Next, Detector

(* No device but the current one is connected.                              *)
LEMMA ConnectedIsCurrent ==
    ASSUME BackendInv, RegistryInv, RegistryInv', [BackendNext]_allVars,
           \A f \in Listed : connected[f] > 0 => f = CurrentDevice(devices),
           NEW f \in Listed', connected'[f] > 0
    PROVE  f = CurrentDevice(devices')
<1> SUFFICES ASSUME f # CurrentDevice(devices') PROVE FALSE
  OBVIOUS
<1> DEFINE others == OfRemaining(connected, 0)
           current == CurrentDevice(devices')
<1>1. others = [g \in Listed' |-> IF g \in Listed THEN connected[g] ELSE 0]
  <2>1. DOMAIN dev' = Listed' /\ DOMAIN connected = Listed
    BY BackendFacts DEF RegistryInv, TypeOK
  <2> QED
    BY <2>1 DEF OfRemaining
<1>2. \/ UNCHANGED <<devices, connected>>
      \/ connected' = others
      \/ connected' = [others EXCEPT ![current] = ConnectedOnceMore(@)]
  <2> HIDE DEF others, current
  <2>1. CASE OnCurrentDeviceChanged
    BY <2>1 DEF OnCurrentDeviceChanged, others, current
  <2>2. CASE RegistryStep
    BY <2>1, <2>2 DEF RegistryStep, DeviceInserted, InsertDevice, DeviceRemoved, DeviceProcessed, others
  <2>3. ASSUME NEW g \in DOMAIN dev, SessionStep(g) PROVE UNCHANGED <<devices, connected>>
    <3>1. UNCHANGED devices
      BY <2>3 DEF SessionStep, StartSession, SessionStarted, SessionLost, SessionStatusChanged, SetStorageInfo
    <3>2. \E isError : SessionReports(g, isError)
      BY <2>3 DEF SessionStep
    <3> QED
      BY <3>1, <3>2 DEF SessionReports, OnOperationFinished
  <2>4. CASE OperationStep
    BY <2>4 DEF OperationStep, BeginOperation, UpdatesChecked, OperationEnds, OperationSets, OnOperationFinished
  <2>5. CASE FinalizeOperation
    BY <2>5 DEF FinalizeOperation, others
  <2>6. CASE FullScreenStreaming \/ OnScreenStreamerStateChanged \/ OnFileManagerErrorOccured \/ UNCHANGED allVars
    BY <2>6 DEF FullScreenStreaming, OnScreenStreamerStateChanged, OnFileManagerErrorOccured, vars, allVars,
                backendVars
  <2> QED
    BY <2>2, <2>3, <2>4, <2>5, <2>6 DEF BackendNext
<1>3. CASE UNCHANGED <<devices, connected>>
  BY <1>3 DEF Listed
<1>4. CASE connected'[f] = others[f]
  <2>1. f \in Listed /\ connected[f] > 0
    BY <1>1, <1>4
  <2>2. devices # <<>>
    <3>1. DOMAIN devices # {}
      BY <2>1 DEF Listed
    <3> QED
      BY <3>1
  <2>3. f = Head(devices)
    BY <2>1, <2>2 DEF CurrentDevice
  <2>4. [Next]_vars
    BY BackendStepIsRegistryStep
  <2> QED
    BY <2>2, <2>3, <2>4, FirstStays
<1>5. connected' = [others EXCEPT ![current] = ConnectedOnceMore(@)] => connected'[f] = others[f]
  <2>1. f \in DOMAIN others
    BY <1>1
  <2> HIDE DEF others
  <2> QED
    BY <2>1
<1> QED
  BY <1>2, <1>3, <1>4, <1>5

(* A device says that an operation, or more of them, are over: it shows      *)
(* Finished only for the current device, without an error.                   *)
LEMMA FinishedShows ==
    ASSUME BackendInv, RegistryInv, EndInv, UNCHANGED devices, NEW f \in Listed,
           NEW ended \in Nat, ended <= work[f].operating, OnOperationFinished(f, ended)
    PROVE  /\ backendState' = "Finished" /\ connected[f] > 0 => f = Head(devices) /\ ~dev'[f].error
           /\ ~(connected[f] > 0) => backendState' = backendState
           /\ \A g \in Listed : WorkOf(g)' \in Nat /\ WorkOf(g)' <= WorkOf(g) /\ (g # f => WorkOf(g)' = WorkOf(g))
           /\ WorkOf(f)' = work[f].operating - ended
<1>1. devices # <<>>
  <2>1. DOMAIN devices # {}
    BY DEF Listed
  <2> QED
    BY <2>1
<1>2. connected[f] > 0 => f = Head(devices)
  BY <1>1, CurrentFacts DEF EndInv
<1>3. backendState' = IF connected[f] > 0 THEN ResultShown(devices', dev') ELSE backendState
  BY DEF OnOperationFinished
<1>4. \A g \in Listed : /\ work[g] \in Work
                        /\ work'[g] = IF g = f THEN [checking |-> 0, operating |-> work[f].operating - ended] ELSE work[g]
  BY BackendFacts DEF OnOperationFinished, Counts
<1>5. work[f].operating - ended \in Nat /\ work[f].operating - ended <= work[f].operating
  BY <1>4, WorkFields
<1>6. WorkOf(f)' = work[f].operating - ended
  BY <1>4, <1>5 DEF WorkOf
<1>7. \A g \in Listed : WorkOf(g)' \in Nat /\ WorkOf(g)' <= WorkOf(g) /\ (g # f => WorkOf(g)' = WorkOf(g))
  <2> SUFFICES ASSUME NEW g \in Listed
               PROVE  WorkOf(g)' \in Nat /\ WorkOf(g)' <= WorkOf(g) /\ (g # f => WorkOf(g)' = WorkOf(g))
    OBVIOUS
  <2>1. work[g].checking \in Nat /\ work[g].operating \in Nat
    BY <1>4, WorkFields
  <2>2. CASE g = f
    BY <1>5, <1>6, <2>1, <2>2 DEF WorkOf
  <2>3. CASE g # f
    BY <1>4, <2>1, <2>3 DEF WorkOf
  <2> QED
    BY <2>2, <2>3
<1> QED
  BY <1>2, <1>3, <1>6, <1>7 DEF ResultShown

(* A step that ends nothing, begins nothing and shows nothing new as Finished. *)
LEMMA QuietKeepsEnd ==
    ASSUME BackendInv, RegistryInv, RegistryInv', EndInv, [BackendNext]_allVars,
           UNCHANGED overlaps, outcome' = outcome \/ (outcome' = "nothing" /\ backendState' # "Finished"),
           backendState' = "Finished" => backendState = "Finished",
           \A f \in Listed' : WorkOf(f)' > 0 =>
               f \in Listed /\ WorkOf(f) \in Nat /\ WorkOf(f)' \in Nat /\ WorkOf(f)' <= WorkOf(f)
    PROVE  EndInv'
<1>1. \A f \in Listed' : connected'[f] > 0 => f = CurrentDevice(devices')
  BY ConnectedIsCurrent DEF EndInv
<1>2. BackendInv'
  BY BackendStepKeepsInv
<1>3. ASSUME NEW f \in Listed' PROVE WorkOf(f)' \in Nat
  <2>1. work'[f] \in Work
    BY <1>2, <1>3 DEF BackendInv, KeptTypeOK, Work
  <2> QED
    BY <2>1, WorkFields DEF WorkOf
<1>4. \A f \in Listed' : WorkOf(f)' > 1 => overlaps'
  <2> SUFFICES ASSUME NEW f \in Listed', WorkOf(f)' > 1 PROVE overlaps
    OBVIOUS
  <2>1. WorkOf(f)' > 0
    BY <1>3
  <2>2. f \in Listed /\ WorkOf(f) \in Nat /\ WorkOf(f)' \in Nat /\ WorkOf(f)' <= WorkOf(f)
    BY <2>1
  <2>3. WorkOf(f) > 1
    BY <2>2
  <2> QED
    BY <2>2, <2>3 DEF EndInv
<1>5. EndIsShown'
  <2> SUFFICES ASSUME backendState' = "Finished"
               PROVE  outcome' = "succeeded" /\ \A f \in Listed' : WorkOf(f)' > 0 => overlaps'
    BY DEF EndIsShown, AtWork
  <2>1. outcome = "succeeded" /\ \A f \in Listed : WorkOf(f) > 0 => overlaps
    BY DEF EndInv, EndIsShown, AtWork
  <2>2. ASSUME NEW f \in Listed', WorkOf(f)' > 0 PROVE overlaps
    <3>1. f \in Listed /\ WorkOf(f) \in Nat /\ WorkOf(f)' \in Nat /\ WorkOf(f)' <= WorkOf(f)
      BY <2>2
    <3>2. WorkOf(f) > 0
      BY <2>2, <3>1
    <3> QED
      BY <2>1, <3>1, <3>2
  <2> QED
    BY <2>1, <2>2
<1> QED
  BY <1>1, <1>4, <1>5 DEF EndInv

(* The work on each device is what it was, where a step leaves it alone.     *)
LEMMA SameWork ==
    ASSUME BackendInv, \A f \in Listed' : f \in Listed /\ work'[f] = work[f], NEW f \in Listed'
    PROVE  f \in Listed /\ WorkOf(f) \in Nat /\ WorkOf(f)' \in Nat /\ WorkOf(f)' <= WorkOf(f)
<1>1. WorkOf(f) \in Nat
  BY BackendFacts, WorkFields DEF WorkOf
<1> QED
  BY <1>1 DEF WorkOf

(* The work on each device when devices come and go.                         *)
LEMMA RemainingWork ==
    ASSUME BackendInv, RegistryInv, RegistryInv', DevicesComeAndGo, NEW f \in Listed', WorkOf(f)' > 0
    PROVE  f \in Listed /\ WorkOf(f) \in Nat /\ WorkOf(f)' \in Nat /\ WorkOf(f)' <= WorkOf(f)
<1>1. f \in Listed /\ work'[f] = work[f]
  BY ComeAndGoFields
<1>2. WorkOf(f) \in Nat
  BY <1>1, BackendFacts, WorkFields DEF WorkOf
<1> QED
  BY <1>1, <1>2 DEF WorkOf

(* A session that reports an error has set it: it shows nothing as Finished. *)
LEMMA SessionStepKeepsEnd ==
    ASSUME BackendInv, RegistryInv, RegistryInv', EndInv, BackendNext, UNCHANGED <<outcome, overlaps>>,
           NEW f \in DOMAIN dev, SessionStep(f)
    PROVE  EndInv'
<1>1. f \in Listed /\ dev[f] \in Device /\ UNCHANGED devices
  BY InvFacts
     DEF SessionStep, StartSession, SessionStarted, SessionLost, SessionStatusChanged, SetStorageInfo
<1>2. PICK isError \in BOOLEAN : SessionReports(f, isError) /\ (isError => dev'[f].error)
  <2>1. ASSUME NEW pluginLoads \in BOOLEAN, StartSession(f, pluginLoads), dev[f].session = "Stopped", ~pluginLoads
        PROVE  dev'[f].error
    <3> DEFINE d == [dev[f] EXCEPT !.timers = @ - 1]
    <3>1. d.session = "Stopped"
      BY <1>1, <2>1 DEF Device
    <3>2. dev'[f] = IF d.session # "Stopped" THEN [d EXCEPT !.refused = TRUE]
                    ELSE IF pluginLoads THEN [d EXCEPT !.session = "Starting", !.opened = d.port, !.refused = FALSE]
                    ELSE [d EXCEPT !.error = TRUE, !.refused = FALSE]
      BY <2>1 DEF StartSession, Update
    <3>3. "error" \in DOMAIN d
      BY <1>1 DEF Device
    <3> HIDE DEF d
    <3> QED
      BY <2>1, <3>1, <3>2, <3>3
  <2>2. ASSUME SessionStarted(f, FALSE) PROVE dev'[f].error
    BY <1>1, <2>2 DEF SessionStarted, Update, Device
  <2>3. ASSUME NEW revived \in BOOLEAN, SessionLost(f, TRUE, revived) PROVE dev'[f].error
    BY <1>1, <2>3 DEF SessionLost, Update, Device
  <2>4. ASSUME SessionStatusChanged(f), dev[f].session = "Failed" PROVE dev'[f].error
    BY <1>1, <2>4 DEF SessionStatusChanged, Update, Device
  <2> QED
    BY <2>1, <2>2, <2>3, <2>4 DEF SessionStep
<1>3. CASE UNCHANGED <<backendState, connected, streamWatched, work, outlived>>
  <2>1. Listed' = Listed
    BY <1>1 DEF Listed
  <2>2. ASSUME NEW g \in Listed', WorkOf(g)' > 0
        PROVE  g \in Listed /\ WorkOf(g) \in Nat /\ WorkOf(g)' \in Nat /\ WorkOf(g)' <= WorkOf(g)
    BY <1>3, <2>1, SameWork
  <2> QED
    BY <1>3, <2>2, QuietKeepsEnd
<1>4. CASE isError /\ OnOperationFinished(f, 0)
  <2>1. 0 \in Nat /\ 0 <= work[f].operating
    BY <1>1, BackendFacts, WorkFields
  <2>2. Listed' = Listed
    BY <1>1 DEF Listed
  <2>3. backendState' = "Finished" => backendState = "Finished"
    BY <1>1, <1>2, <1>4, <2>1, FinishedShows
  <2>4. ASSUME NEW g \in Listed', WorkOf(g)' > 0
        PROVE  g \in Listed /\ WorkOf(g) \in Nat /\ WorkOf(g)' \in Nat /\ WorkOf(g)' <= WorkOf(g)
    <3>1. g \in Listed /\ WorkOf(g)' \in Nat /\ WorkOf(g)' <= WorkOf(g)
      BY <1>1, <1>4, <2>1, <2>2, FinishedShows
    <3>2. WorkOf(g) \in Nat
      BY <3>1, BackendFacts, WorkFields DEF WorkOf
    <3> QED
      BY <3>1, <3>2
  <2> QED
    BY <2>3, <2>4, QuietKeepsEnd
<1> QED
  BY <1>2, <1>3, <1>4 DEF SessionReports

(* An operation is at work on the current device, which is connected.        *)
LEMMA AtWorkIsFirst ==
    ASSUME BackendInv, RegistryInv, NEW f \in Listed, WorkOf(f) > 0
    PROVE  devices # <<>> /\ f = Head(devices) /\ f = CurrentDevice(devices) /\ connected[f] > 0
<1>1. devices # <<>>
  <2>1. DOMAIN devices # {}
    BY DEF Listed
  <2> QED
    BY <2>1
<1>2. f = CurrentDevice(devices)
  BY BackendFacts
<1> QED
  BY <1>1, <1>2, BackendFacts, CurrentFacts

(* What is begun is shown as begun, and overlaps what is at work.            *)
LEMMA BeginKeepsEnd ==
    ASSUME BackendInv, RegistryInv, RegistryInv', EndInv, BackendNext,
           NEW byHelper \in BOOLEAN, BeginOperation(byHelper)
    PROVE  EndInv'
<1>0. PICK f : f = Head(devices)
  OBVIOUS
<1> DEFINE w == WorkAdded(work[f], byHelper)
<1>1. /\ f \in DOMAIN dev /\ f \in Listed
      /\ backendState' = "Busy" /\ outcome' = "nothing" /\ overlaps' = AtWork(f)
      /\ work' = [work EXCEPT ![f] = w]
      /\ \E persistent, isError : OperationSets(f, persistent, isError)
  BY <1>0, CurrentFacts DEF BeginOperation, DeviceToUse, Counts
<1>2. UNCHANGED devices /\ Listed' = Listed
  BY <1>1 DEF OperationSets, Listed
<1>3. work[f] \in Work /\ DOMAIN work = Listed
  BY <1>1, BackendFacts
<1>4. w.checking \in Nat /\ w.operating \in Nat /\ w.checking + w.operating = WorkOf(f) + 1 /\ WorkOf(f) \in Nat
  BY <1>3 DEF WorkAdded, Work, WorkOf
<1> HIDE DEF w
<1>5. ASSUME NEW g \in Listed', WorkOf(g)' > 1 PROVE overlaps'
  <2>1. CASE g = f
    <3>1. WorkOf(f)' = WorkOf(f) + 1
      <4>1. work'[f] = w
        BY <1>1, <1>3
      <4> QED
        BY <1>4, <4>1 DEF WorkOf
    <3>2. WorkOf(f) > 0
      BY <1>4, <1>5, <2>1, <3>1
    <3> QED
      BY <1>1, <3>2 DEF AtWork
  <2>2. CASE g # f
    <3>1. work'[g] = work[g] /\ g \in Listed
      BY <1>1, <1>2, <1>3, <2>2
    <3>2. WorkOf(g)' = WorkOf(g) /\ WorkOf(g) \in Nat
      BY <3>1, BackendFacts, WorkFields DEF WorkOf
    <3>3. WorkOf(g) > 0
      BY <1>5, <3>2
    <3> QED
      BY <1>0, <2>2, <3>1, <3>3, AtWorkIsFirst
  <2> QED
    BY <2>1, <2>2
<1>6. \A g \in Listed' : connected'[g] > 0 => g = CurrentDevice(devices')
  BY ConnectedIsCurrent DEF EndInv
<1>7. EndIsShown'
  BY <1>1 DEF EndIsShown
<1> QED
  BY <1>1, <1>5, <1>6, <1>7 DEF EndInv, AtWork

(* What a helper finds begins an operation, or is shown as an error.         *)
LEMMA CheckedKeepsEnd ==
    ASSUME BackendInv, RegistryInv, RegistryInv', EndInv, BackendNext,
           NEW f \in DOMAIN dev, NEW retrieved \in BOOLEAN, UpdatesChecked(f, retrieved)
    PROVE  EndInv'
<1>1. f \in Listed /\ work[f] \in Work /\ work[f].checking > 0 /\ UNCHANGED overlaps
  BY InvFacts, BackendFacts DEF UpdatesChecked
<1>2. UNCHANGED devices /\ Listed' = Listed
  BY DEF UpdatesChecked, OperationSets, Listed
<1>3. CASE /\ Counts(f, [checking |-> work[f].checking - 1, operating |-> work[f].operating + 1])
           /\ UNCHANGED <<backendState, connected, streamWatched, outlived, outcome>>
  <2> DEFINE w == [checking |-> work[f].checking - 1, operating |-> work[f].operating + 1]
  <2>1. work' = [work EXCEPT ![f] = w]
    BY <1>3 DEF Counts
  <2>2. w.checking + w.operating = WorkOf(f)
    BY <1>1, WorkFields DEF WorkOf
  <2> HIDE DEF w
  <2>3. ASSUME NEW g \in Listed', WorkOf(g)' > 0
        PROVE  g \in Listed /\ WorkOf(g) \in Nat /\ WorkOf(g)' \in Nat /\ WorkOf(g)' <= WorkOf(g)
    <3>1. g \in Listed /\ work'[g] = IF g = f THEN w ELSE work[g]
      BY <1>2, <2>1, BackendFacts
    <3>2. WorkOf(g)' = WorkOf(g)
      BY <2>2, <3>1 DEF WorkOf
    <3>3. WorkOf(g) \in Nat
      BY <3>1, BackendFacts, WorkFields DEF WorkOf
    <3> QED
      BY <3>1, <3>2, <3>3
  <2> QED
    BY <1>1, <1>3, <2>3, QuietKeepsEnd
<1>4. CASE /\ OperationSets(f, dev[f].persistent, TRUE) /\ OnOperationFinished(f, 0)
           /\ outcome' = "failed"
  <2>1. WorkOf(f) > 0
    BY <1>1, WorkFields DEF WorkOf
  <2>2. 0 \in Nat /\ 0 <= work[f].operating
    BY <1>1, WorkFields
  <2>3. dev'[f].error = TRUE
    BY <1>4, OperationSetsFields
  <2>4. backendState' # "Finished"
    BY <1>1, <1>2, <1>4, <2>1, <2>2, <2>3, FinishedShows, AtWorkIsFirst
  <2>5. ASSUME NEW g \in Listed', WorkOf(g)' > 1 PROVE overlaps
    <3>1. g \in Listed /\ WorkOf(g)' \in Nat /\ WorkOf(g)' <= WorkOf(g)
      BY <1>1, <1>2, <1>4, <2>2, FinishedShows
    <3>2. WorkOf(g) \in Nat
      BY <3>1, BackendFacts, WorkFields DEF WorkOf
    <3>3. WorkOf(g) > 1
      BY <2>5, <3>1, <3>2
    <3> QED
      BY <3>1, <3>3 DEF EndInv
  <2>6. \A g \in Listed' : connected'[g] > 0 => g = CurrentDevice(devices')
    BY ConnectedIsCurrent DEF EndInv
  <2> QED
    BY <1>1, <1>4, <2>4, <2>5, <2>6 DEF EndInv, EndIsShown
<1> QED
  BY <1>3, <1>4 DEF UpdatesChecked

(* The end of an operation is shown as Finished only when it has succeeded.  *)
LEMMA EndKeepsEnd ==
    ASSUME BackendInv, RegistryInv, RegistryInv', EndInv, BackendNext,
           NEW f \in DOMAIN dev, NEW success \in BOOLEAN, OperationEnds(f, success)
    PROVE  EndInv'
<1>1. f \in Listed /\ work[f] \in Work /\ work[f].operating > 0
  BY InvFacts, BackendFacts DEF OperationEnds
<1>2. UNCHANGED devices /\ Listed' = Listed
  BY DEF OperationEnds, OperationSets, Listed
<1>3. 1 \in Nat /\ 1 <= work[f].operating /\ WorkOf(f) > 0
  BY <1>1, WorkFields DEF WorkOf
<1>4. OnOperationFinished(f, 1) /\ UNCHANGED overlaps /\ outcome' = IF success THEN "succeeded" ELSE "failed"
  BY DEF OperationEnds
<1>5. dev'[f].error = (dev[f].error \/ ~success)
  BY OperationSetsFields DEF OperationEnds
<1>6. backendState' = "Finished" => success
  BY <1>1, <1>2, <1>3, <1>4, <1>5, FinishedShows, AtWorkIsFirst
<1>7. /\ WorkOf(f)' = work[f].operating - 1
      /\ \A g \in Listed : WorkOf(g)' \in Nat /\ WorkOf(g)' <= WorkOf(g) /\ (g # f => WorkOf(g)' = WorkOf(g))
  BY <1>1, <1>2, <1>3, <1>4, FinishedShows
<1>8. ASSUME NEW g \in Listed', WorkOf(g)' > 0 PROVE overlaps
  <2>1. g \in Listed /\ WorkOf(g)' \in Nat
    BY <1>2, <1>7
  <2>2. g = f
    BY <1>3, <1>7, <1>8, <2>1, AtWorkIsFirst, <1>1
  <2>3. WorkOf(f) > 1
    BY <1>1, <1>7, <1>8, <2>2, WorkFields DEF WorkOf
  <2> QED
    BY <1>1, <2>3 DEF EndInv
<1>9. ASSUME NEW g \in Listed', WorkOf(g)' > 1 PROVE overlaps
  <2>1. WorkOf(g)' \in Nat
    BY <1>2, <1>7
  <2>2. WorkOf(g)' > 0
    BY <1>9, <2>1
  <2> QED
    BY <1>8, <2>2
<1>10. \A g \in Listed' : connected'[g] > 0 => g = CurrentDevice(devices')
  BY ConnectedIsCurrent DEF EndInv
<1>11. EndIsShown'
  BY <1>4, <1>6, <1>8 DEF EndIsShown, AtWork
<1> QED
  BY <1>4, <1>9, <1>10, <1>11 DEF EndInv

(* Every step keeps what the user is told true.                             *)
LEMMA StepKeepsEnd ==
    ASSUME BackendInv, RegistryInv, RegistryInv', EndInv, [BackendNext]_allVars
    PROVE  EndInv'
<1>1. CASE UNCHANGED allVars
  BY <1>1 DEF allVars, vars, backendVars, EndInv, EndIsShown, AtWork, WorkOf, Listed, CurrentDevice
<1>2. CASE BackendNext /\ OperationStep
  BY <1>2, BeginKeepsEnd, CheckedKeepsEnd, EndKeepsEnd DEF OperationStep
<1>3. ASSUME BackendNext, UNCHANGED <<outcome, overlaps>>, NEW f \in DOMAIN dev, SessionStep(f) PROVE EndInv'
  BY <1>3, SessionStepKeepsEnd
<1>4. CASE FinalizeOperation
  <2>1. /\ DevicesComeAndGo /\ UNCHANGED overlaps /\ outcome' = "nothing" /\ backendState' # "Finished"
    BY <1>4 DEF FinalizeOperation, StateAfterwards
  <2> QED
    BY <2>1, RemainingWork, QuietKeepsEnd
<1>5. CASE UNCHANGED <<outcome, overlaps>> /\ RegistryStep
  <2>1. backendState' = "Finished" => backendState = "Finished"
    BY <1>5 DEF RegistryStep, DeviceInserted, DeviceRemoved, DeviceProcessed, OnCurrentDeviceChanged,
                OnDeviceRegistryErrorOccured
  <2>2. DevicesComeAndGo \/ UNCHANGED <<devices, work>>
    BY <1>5 DEF RegistryStep, DeviceInserted, InsertDevice, DeviceRemoved, DeviceProcessed
  <2>3. ASSUME NEW g \in Listed', WorkOf(g)' > 0
        PROVE  g \in Listed /\ WorkOf(g) \in Nat /\ WorkOf(g)' \in Nat /\ WorkOf(g)' <= WorkOf(g)
    <3>1. CASE DevicesComeAndGo
      BY <2>3, <3>1, RemainingWork
    <3>2. CASE UNCHANGED <<devices, work>>
      BY <3>2, SameWork DEF Listed
    <3> QED
      BY <2>2, <3>1, <3>2
  <2> QED
    BY <1>5, <2>1, <2>3, QuietKeepsEnd
<1>6. CASE /\ UNCHANGED <<outcome, overlaps>>
           /\ FullScreenStreaming \/ OnScreenStreamerStateChanged \/ OnFileManagerErrorOccured
  <2>1. UNCHANGED <<devices, work>> /\ backendState' # "Finished"
    BY <1>6 DEF FullScreenStreaming, OnScreenStreamerStateChanged, OnFileManagerErrorOccured, vars
  <2>2. ASSUME NEW g \in Listed', WorkOf(g)' > 0
        PROVE  g \in Listed /\ WorkOf(g) \in Nat /\ WorkOf(g)' \in Nat /\ WorkOf(g)' <= WorkOf(g)
    BY <2>1, SameWork DEF Listed
  <2> QED
    BY <1>6, <2>1, <2>2, QuietKeepsEnd
<1> QED
  BY <1>1, <1>2, <1>3, <1>4, <1>5, <1>6 DEF BackendNext

(* The invariant of what the user is told holds in every state.             *)
LEMMA EndInvHolds == BackendSpec => []EndInv
<1>1. BackendInit => EndInv
  <2> SUFFICES ASSUME BackendInit PROVE EndInv
    OBVIOUS
  <2>1. Listed = {}
    BY DEF BackendInit, Init, Listed
  <2> QED
    BY <2>1 DEF BackendInit, EndInv, EndIsShown
<1> QED
  BY <1>1, BackendInvHolds, StepKeepsEnd, PTL DEF BackendSpec

(* Types of the backend: its state is one of those the QML knows, and what   *)
(* it keeps by device it keeps for the devices in the list.                  *)
THEOREM BackendTypeCorrect == BackendSpec => []BackendTypeOK
<1>1. BackendInv /\ EndInv => BackendTypeOK
  BY DEF BackendInv, EndInv, BackendTypeOK
<1> QED
  BY <1>1, BackendInvHolds, EndInvHolds, PTL

(* onDeviceOperationFinished() shows Finished only after an operation that   *)
(* has succeeded itself, with nothing at work but what was begun behind      *)
(* another, for any number of devices, helpers and operations.               *)
THEOREM EndShown == BackendSpec => []EndIsShown
BY EndInvHolds, PTL DEF EndInv

-----------------------------------------------------------------------------
(* What a step does to the device of an operation *)

(* While an operation is shown to be in progress, a device with work on it stays in the list. *)
LEMMA AtWorkStays ==
    ASSUME BackendInv, RegistryInv, RegistryInv', [BackendNext]_allVars, backendState = "Busy",
           NEW f \in Listed, AtWork(f)
    PROVE  f \in Listed'
<1>1. DOMAIN dev = Listed /\ DOMAIN dev' = Listed'
  BY DEF RegistryInv, TypeOK
<1>2. dev[f].persistent
  BY BackendFacts DEF AtWork
<1>3. CASE UNCHANGED devices
  BY <1>3 DEF Listed
<1>4. ASSUME NEW usb \in Connections, DeviceRemoved(usb) PROVE f \in Listed'
  <2>1. UNCHANGED devices \/ \E i \in DOMAIN devices : ~dev[devices[i]].persistent /\ TakeAt(i)
    BY <1>4 DEF DeviceRemoved, RemoveDevice, RemovesDevice
  <2>2. ASSUME NEW i \in DOMAIN devices, ~dev[devices[i]].persistent, TakeAt(i) PROVE f \in DOMAIN dev'
    BY <1>1, <1>2, <2>2 DEF TakeAt, WithoutDeviceAt
  <2> QED
    BY <1>1, <1>3, <2>1, <2>2
<1>5. ASSUME NEW query \in helpers, NEW success \in BOOLEAN, NEW another \in BOOLEAN,
             DeviceProcessed(query, success, another)
      PROVE  f \in Listed'
  <2>1. UNCHANGED devices \/ DOMAIN dev' = DOMAIN dev \cup {query.name}
    BY <1>5 DEF DeviceProcessed, ProcessDevice
  <2> QED
    BY <1>1, <1>3, <2>1
<1>6. CASE RegistryStep
  <2>1. ASSUME NEW g \in Flipper, NEW dfu \in BOOLEAN, NEW complete \in BOOLEAN, NEW another \in BOOLEAN,
               DeviceInserted(g, dfu, complete, another)
        PROVE  UNCHANGED devices
    BY <2>1 DEF DeviceInserted, InsertDevice
  <2> QED
    BY <1>3, <1>4, <1>5, <1>6, <2>1 DEF RegistryStep
<1>7. ASSUME NEW g \in DOMAIN dev, SessionStep(g) PROVE UNCHANGED devices
  BY <1>7 DEF SessionStep, StartSession, SessionStarted, SessionLost, SessionStatusChanged, SetStorageInfo
<1>8. CASE OperationStep
  BY <1>3, <1>8 DEF OperationStep, BeginOperation, UpdatesChecked, OperationEnds, OperationSets
<1>9. CASE FullScreenStreaming \/ OnScreenStreamerStateChanged \/ OnFileManagerErrorOccured \/ UNCHANGED allVars
  BY <1>3, <1>9
     DEF FullScreenStreaming, OnScreenStreamerStateChanged, OnFileManagerErrorOccured, vars, allVars
<1>10. ~FinalizeOperation
  BY DEF FinalizeOperation
<1> QED
  BY <1>3, <1>6, <1>7, <1>8, <1>9, <1>10 DEF BackendNext

(* No device is deleted under an operation that is shown to be in progress:  *)
(* the operation has made it persistent, and it is the only one at work.     *)
THEOREM BusyDeviceKept == BackendSpec => BusyDeviceStays
<1>1. /\ BackendInv /\ RegistryInv /\ RegistryInv' /\ [BackendNext]_allVars
      => [backendState = "Busy" => \A f \in Listed : AtWork(f) => f \in Listed']_allVars
  BY AtWorkStays
<1> QED
  BY <1>1, BackendInvHolds, PTL DEF BackendSpec, BusyDeviceStays

(* No step takes a device from its operation, for any number of devices.     *)
THEOREM DevicesKept == BackendSpec => DevicesStay
BY BackendImplementsRegistry, PersistentKept, BusyDeviceKept DEF DevicesStay

=============================================================================
