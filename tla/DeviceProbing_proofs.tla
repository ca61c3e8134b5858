------------------------- MODULE DeviceProbing_proofs -------------------------
(***************************************************************************)
(* Theorems about DeviceProbing, for every set of pointers, any number of  *)
(* arrivals and of tries: the detector knows what is plugged in, and a     *)
(* helper that reports a device has asked it everything.                   *)
(***************************************************************************)
EXTENDS DeviceProbing, SequenceTheorems, TLAPS

-----------------------------------------------------------------------------
(* The invariant                                                             *)

Does == {"next", "processQueue", "doStopSession", "serialInit"}
Posts == [does : Does, id : Arrivals]
Registrations == [does : {"register"}, id : Arrivals, pointer : Pointer]
Entries == Posts \cup Registrations

Places == {"none", "Ready", "FindingSerialPort", "StartingRPCSession", "StoppingRPCSession", "Finished", "gone"}
            \cup Queries
SessionStates == {"Stopped", "Starting", "Idle", "Running"}
Probes ==
    [at : Places, dfu : BOOLEAN, tries : Nat,
     init : {"none", "Ready", "OpeningPort", "SkippingMOTD", "StartingRPC"},
     session : SessionStates, error : BOOLEAN, lost : BOOLEAN,
     operation : {"none", "queued", "running"}, answered : SUBSET Places, reports : Seq({"ok", "error"})]

TypeOK ==
    /\ usb \in [Pointer -> 0..MaxArrivals]
    /\ arrivals \in 0..MaxArrivals
    /\ known \subseteq Pointer
    /\ announced \subseteq Arrivals
    /\ raced \subseteq Pointer
    /\ loop \in Seq(Entries)
    /\ probe \in [Arrivals -> Probes]

(* What is posted to the helper of an arrival, and in which order.           *)
Is(s, i, does, id) == s[i].does = does /\ s[i].id = id
Has(s, does, id) == \E i \in DOMAIN s : Is(s, i, does, id)
Once(s, does, id) == \A i, j \in DOMAIN s : Is(s, i, does, id) /\ Is(s, j, does, id) => i = j
StopsLast(s, id) ==
    \A i, j \in DOMAIN s : Is(s, i, "doStopSession", id) /\ Is(s, j, "processQueue", id) => j < i

(* What has been asked before.                                               *)
Earlier ==
    [FetchingProtobufVersion |-> {},
     FetchingDeviceInfo |-> {"FetchingProtobufVersion"},
     CheckingSDCard |-> {"FetchingProtobufVersion", "FetchingDeviceInfo"},
     CheckingManifest |-> {"FetchingProtobufVersion", "FetchingDeviceInfo", "CheckingSDCard"},
     GettingTimeSkew |-> {"FetchingProtobufVersion", "FetchingDeviceInfo", "CheckingSDCard"},
     SyncingTime |-> {"FetchingProtobufVersion", "FetchingDeviceInfo", "CheckingSDCard", "GettingTimeSkew"},
     StoppingRPCSession |-> Queries \ {"CheckingManifest"}]

(* Until its session has begun a helper has asked nothing.                   *)
Beginning(s, id, p) ==
    /\ p.at = "none" =>
          p = NoProbe /\ \A does \in Does : ~Has(s, does, id)
    /\ p.at \in {"Ready", "FindingSerialPort"} =>
          /\ p.session = "Stopped" /\ ~p.error
          /\ ~Has(s, "doStopSession", id)
    /\ p.at \in {"Ready", "FindingSerialPort", "StartingRPCSession"} =>
          p.operation = "none" /\ ~Has(s, "processQueue", id)
    /\ p.at \notin {"Finished", "gone"} => p.reports = <<>> /\ Once(s, "next", id)
    /\ p.dfu => p.at \in {"Ready", "Finished", "gone"}

(* The port is being opened exactly while the session starts.                *)
InitDue(p) == p.init # "none" /\ (p.init = "OpeningPort" => p.tries = 0)
Opening(s, id, p) ==
    /\ p.init # "none" <=> p.session = "Starting"
    /\ p.init # "none" => p.at = "StartingRPCSession" /\ ~Has(s, "doStopSession", id)
    /\ Has(s, "serialInit", id) => InitDue(p)
    /\ Once(s, "serialInit", id)

(* The next step is posted when the last query was answered, and only then.  *)
NextDue(p) ==
    /\ p.at \notin {"Finished", "gone"} => p.operation = "none"
    /\ p.at \in Queries => p.at \in p.answered \/ p.at = "CheckingManifest"
    /\ p.at = "StartingRPCSession" => p.session # "Starting"
    /\ p.at = "FindingSerialPort" => p.tries = 0
Asking(s, id, p) ==
    /\ p.operation # "none" => p.at \in Queries \cup {"Finished", "gone"}
    /\ p.at \in DOMAIN Earlier => Earlier[p.at] \subseteq p.answered
    /\ Has(s, "next", id) => NextDue(p)

(* A session that is being stopped has nothing else to do before it is.      *)
Stopping(s, id, p) ==
    /\ Has(s, "doStopSession", id) => p.lost \/ p.error \/ p.at \in {"StoppingRPCSession", "Finished", "gone"}
    /\ p.at \in Queries \cup {"StoppingRPCSession"} /\ ~p.error /\ p.operation = "none" => StopsLast(s, id)

(* One that has reported its device does nothing more.                       *)
AllErrors(reports) == \A i \in DOMAIN reports : reports[i] = "error"
Reporting(s, id, p) ==
    /\ p.reports = <<"ok">> \/ AllErrors(p.reports)
    /\ p.at = "Finished" /\ p.reports = <<"ok">> =>
          /\ ~p.error /\ p.operation = "none" /\ p.session = "Stopped" /\ ~Has(s, "processQueue", id)
          /\ ~p.dfu => Queries \ {"CheckingManifest"} \subseteq p.answered
    /\ p.at = "gone" => p.operation = "none" /\ p.session = "Stopped"

HelperSound(s, id, p) ==
    Beginning(s, id, p) /\ Opening(s, id, p) /\ Asking(s, id, p) /\ Stopping(s, id, p) /\ Reporting(s, id, p)

(* An arrival is registered once, before its helper is created.              *)
Registered ==
    \A id \in Arrivals :
        /\ Once(loop, "register", id)
        /\ Has(loop, "register", id) => probe[id].at = "none"
        /\ Has(loop, "register", id) \/ probe[id].at # "none" => id <= arrivals

(* A pointer is known, or the one registration of it is posted, exactly      *)
(* while its device is plugged in.                                           *)
Registers(s, i, p) == s[i].does = "register" /\ s[i].pointer = p
Registering(s, p, id) == \E i \in DOMAIN s : Registers(s, i, p) /\ s[i].id = id
OneRegisters(s, p) == \A i, j \in DOMAIN s : Registers(s, i, p) /\ Registers(s, j, p) => i = j
NoneRegisters(s, p) == \A i \in DOMAIN s : ~Registers(s, i, p)
PointerSound(p) ==
    /\ usb[p] # 0 /\ p \notin known => Registering(loop, p, usb[p]) /\ OneRegisters(loop, p)
    /\ usb[p] # 0 /\ p \in known => usb[p] \in announced
    /\ usb[p] = 0 => p \notin known
    /\ usb[p] = 0 \/ p \in known => NoneRegisters(loop, p)

ProbingInv ==
    /\ TypeOK
    /\ Registered
    /\ \A p \in Pointer \ raced : PointerSound(p)
    /\ \A id \in Arrivals : HelperSound(loop, id, probe[id])

-----------------------------------------------------------------------------
(* The loop                                                                  *)

(* What the loop holds.                                                      *)
LEMMA EntryFacts ==
    /\ \A e \in Entries : /\ e.does \in Does \cup {"register"} /\ e.id \in Arrivals
                          /\ e.does = "register" => e.pointer \in Pointer
    /\ \A does \in Does, id \in Arrivals :
          LET e == [does |-> does, id |-> id] IN e \in Entries /\ e.does = does /\ e.id = id
    /\ \A id \in Arrivals, p \in Pointer :
          LET e == [does |-> "register", id |-> id, pointer |-> p] IN
          e \in Entries /\ e.does = "register" /\ e.id = id /\ e.pointer = p
    /\ "register" \notin Does
BY DEF Entries, Posts, Registrations, Does

(* Taking what was posted first leaves the rest, in its order.               *)
LEMMA Taken ==
    ASSUME NEW s \in Seq(Entries), s # <<>>
    PROVE  /\ Head(s) \in Entries /\ Tail(s) \in Seq(Entries) /\ Head(s) = s[1] /\ 1 \in DOMAIN s
           /\ \A i \in DOMAIN Tail(s) : Tail(s)[i] = s[i + 1] /\ i + 1 \in DOMAIN s /\ i \in Nat \ {0}
           /\ \A i \in DOMAIN s : i = 1 \/ (i - 1 \in DOMAIN Tail(s) /\ i \in Nat)
<1>1. Len(s) \in Nat \ {0} /\ DOMAIN s = 1..Len(s)
  BY LenProperties, EmptySeq
<1>2. Head(s) \in Entries /\ Tail(s) \in Seq(Entries) /\ Len(Tail(s)) = Len(s) - 1
  BY HeadTailProperties
<1>3. DOMAIN Tail(s) = 1..Len(s) - 1
  BY <1>2, LenProperties
<1>4. \A i \in 1..Len(s) - 1 : Tail(s)[i] = s[i + 1]
  BY HeadTailProperties
<1>5. Head(s) = s[1]
  BY HeadTailProperties
<1> DEFINE n == Len(s)
<1> HIDE DEF n
<1>6. 1 \in 1..n /\ \A i \in 1..n - 1 : i + 1 \in 1..n /\ i \in Nat \ {0}
  BY <1>1 DEF n
<1>7. \A i \in 1..n : i = 1 \/ (i - 1 \in 1..n - 1 /\ i \in Nat)
  BY <1>1 DEF n
<1> QED
  BY <1>1, <1>2, <1>3, <1>4, <1>5, <1>6, <1>7 DEF n

(* What is left of the events of a helper.                                   *)
LEMMA Left ==
    ASSUME NEW s \in Seq(Entries), s # <<>>
    PROVE  /\ \A does, id : Has(Tail(s), does, id) => Has(s, does, id)
           /\ \A does, id : Once(s, does, id) => Once(Tail(s), does, id)
           /\ \A id : StopsLast(s, id) => StopsLast(Tail(s), id)
           /\ Once(s, Head(s).does, Head(s).id) => ~Has(Tail(s), Head(s).does, Head(s).id)
           /\ Head(s).does = "doStopSession" /\ StopsLast(s, Head(s).id) => ~Has(Tail(s), "processQueue", Head(s).id)
           /\ Has(s, Head(s).does, Head(s).id)
<1> DEFINE t == Tail(s)
<1>1. /\ Head(s) = s[1] /\ 1 \in DOMAIN s
      /\ \A i \in DOMAIN t : t[i] = s[i + 1] /\ i + 1 \in DOMAIN s /\ i \in Nat \ {0}
  BY Taken
<1> HIDE DEF t
<1>2. \A i \in DOMAIN t : \A does, id : Is(t, i, does, id) <=> Is(s, i + 1, does, id)
  BY <1>1 DEF Is
<1>3. \A i, j \in DOMAIN t : (i + 1 = j + 1 <=> i = j) /\ (i + 1 < j + 1 <=> i < j) /\ ~(i + 1 < 1) /\ i + 1 # 1
  BY <1>1
<1>4. \A does, id : Has(t, does, id) => Has(s, does, id)
  BY <1>1, <1>2 DEF Has
<1>5. ASSUME NEW does, NEW id, Once(s, does, id) PROVE Once(t, does, id)
  BY <1>1, <1>2, <1>3, <1>5 DEF Once
<1>6. ASSUME NEW id, StopsLast(s, id) PROVE StopsLast(t, id)
  BY <1>1, <1>2, <1>3, <1>6 DEF StopsLast
<1>7. Is(s, 1, Head(s).does, Head(s).id)
  BY <1>1 DEF Is
<1>8. ASSUME Once(s, Head(s).does, Head(s).id) PROVE ~Has(t, Head(s).does, Head(s).id)
  BY <1>1, <1>2, <1>3, <1>7, <1>8 DEF Once, Has
<1>9. ASSUME Head(s).does = "doStopSession", StopsLast(s, Head(s).id)
      PROVE  ~Has(t, "processQueue", Head(s).id)
  BY <1>1, <1>2, <1>3, <1>7, <1>9 DEF StopsLast, Has
<1> QED
  BY <1>1, <1>4, <1>5, <1>6, <1>7, <1>8, <1>9 DEF t, Has

Among(does, posts) == \E k \in DOMAIN posts : posts[k] = does

(* What a slot posts comes last.                                             *)
LEMMA Appended ==
    ASSUME NEW s \in Seq(Entries), NEW id \in Arrivals, NEW posts \in Seq(Does)
    PROVE  LET t == s \o Events(id, posts) IN
           /\ t \in Seq(Entries) /\ DOMAIN s \subseteq DOMAIN t
           /\ \A i \in DOMAIN s : t[i] = s[i] /\ i \in Nat
           /\ \A i \in DOMAIN t : i \in Nat /\ (i \in DOMAIN s \/ (i - Len(s) \in DOMAIN posts /\ t[i] = [does |-> posts[i - Len(s)], id |-> id]))
           /\ \A k \in DOMAIN posts : Len(s) + k \in DOMAIN t /\ t[Len(s) + k] = [does |-> posts[k], id |-> id]
           /\ \A i \in DOMAIN s : \A j \in DOMAIN t \ DOMAIN s : i < j
<1> DEFINE n == Len(s)
           m == Len(posts)
           e == Events(id, posts)
           t == s \o e
<1>1. n \in Nat /\ DOMAIN s = 1..n /\ m \in Nat /\ DOMAIN posts = 1..m
  BY LenProperties
<1>2. \A k \in 1..m : [does |-> posts[k], id |-> id] \in Entries
  BY <1>1, ElementOfSeq, EntryFacts
<1>3. e \in [1..m -> Entries] /\ \A k \in 1..m : e[k] = [does |-> posts[k], id |-> id]
  BY <1>1, <1>2 DEF Events
<1>4. e \in Seq(Entries) /\ Len(e) = m
  BY <1>1, <1>3, SeqDef, LenProperties
<1>5. t \in Seq(Entries) /\ Len(t) = n + m /\ \A i \in 1..n + m : t[i] = IF i <= n THEN s[i] ELSE e[i - n]
  <2> HIDE DEF e
  <2>1. /\ s \o e \in Seq(Entries) /\ Len(s \o e) = Len(s) + Len(e)
        /\ \A i \in 1..Len(s) + Len(e) : (s \o e)[i] = IF i <= Len(s) THEN s[i] ELSE e[i - Len(s)]
    BY <1>4, ConcatProperties
  <2> QED
    BY <1>4, <2>1
<1>6. DOMAIN t = 1..n + m
  BY <1>5, LenProperties
<1> HIDE DEF n, m, e, t
<1>7. \A i \in 1..n : i \in 1..n + m /\ i <= n /\ i \in Nat
  BY <1>1
<1>8. \A i \in 1..n + m : i \in Nat /\ (i \in 1..n \/ (i - n \in 1..m /\ ~(i <= n)))
  BY <1>1
<1>9. \A k \in 1..m : n + k \in 1..n + m /\ (n + k) - n = k /\ ~(n + k <= n)
  BY <1>1
<1>10. \A i \in 1..n : \A j \in (1..n + m) \ (1..n) : i < j
  BY <1>1
<1>11. t \in Seq(Entries) /\ DOMAIN s \subseteq DOMAIN t
  BY <1>1, <1>5, <1>6, <1>7
<1>12. \A i \in DOMAIN s : t[i] = s[i] /\ i \in Nat
  BY <1>1, <1>5, <1>7
<1>13. \A i \in DOMAIN t : i \in Nat /\ (i \in DOMAIN s \/ (i - n \in DOMAIN posts /\ t[i] = [does |-> posts[i - n], id |-> id]))
  BY <1>1, <1>3, <1>5, <1>6, <1>8
<1>14. \A k \in DOMAIN posts : n + k \in DOMAIN t /\ t[n + k] = [does |-> posts[k], id |-> id]
  BY <1>1, <1>3, <1>5, <1>6, <1>9
<1>15. \A i \in DOMAIN s : \A j \in DOMAIN t \ DOMAIN s : i < j
  BY <1>1, <1>6, <1>10
<1> QED
  BY <1>11, <1>12, <1>13, <1>14, <1>15 DEF n, t, e

(* The events of the helpers after a slot of one of them.                    *)
LEMMA Added ==
    ASSUME NEW s \in Seq(Entries), NEW id \in Arrivals, NEW posts \in Seq(Does)
    PROVE  LET t == s \o Events(id, posts) IN
           /\ t \in Seq(Entries)
           /\ \A does, other : Has(t, does, other) <=> Has(s, does, other) \/ (other = id /\ Among(does, posts))
           /\ \A does, other : Once(s, does, other) /\ ~(other = id /\ Among(does, posts)) => Once(t, does, other)
           /\ \A does : /\ ~Has(s, does, id)
                        /\ \A k, l \in DOMAIN posts : posts[k] = does /\ posts[l] = does => k = l
                        => Once(t, does, id)
           /\ \A other : StopsLast(s, other) /\ ~(other = id /\ Among("processQueue", posts)) => StopsLast(t, other)
           /\ ~Has(s, "doStopSession", id) /\ ~Among("doStopSession", posts) => StopsLast(t, id)
<1> DEFINE t == s \o Events(id, posts)
           n == Len(s)
<1>1. /\ t \in Seq(Entries) /\ DOMAIN s \subseteq DOMAIN t
      /\ \A i \in DOMAIN s : t[i] = s[i] /\ i \in Nat
      /\ \A i \in DOMAIN t : i \in Nat /\ (i \in DOMAIN s \/ (i - n \in DOMAIN posts /\ t[i] = [does |-> posts[i - n], id |-> id]))
      /\ \A k \in DOMAIN posts : n + k \in DOMAIN t /\ t[n + k] = [does |-> posts[k], id |-> id]
      /\ \A i \in DOMAIN s : \A j \in DOMAIN t \ DOMAIN s : i < j
  BY Appended
<1>2. n \in Nat
  BY LenProperties
<1> HIDE DEF t, n
<1>3. \A i \in DOMAIN s : \A does, other : Is(t, i, does, other) <=> Is(s, i, does, other)
  BY <1>1 DEF Is
<1>4. \A i \in DOMAIN t \ DOMAIN s : \A does, other :
          Is(t, i, does, other) <=> other = id /\ posts[i - n] = does /\ i - n \in DOMAIN posts
  BY <1>1 DEF Is
<1>5. ASSUME NEW does, NEW other
      PROVE  Has(t, does, other) <=> Has(s, does, other) \/ (other = id /\ Among(does, posts))
  <2>1. ASSUME Has(t, does, other) PROVE Has(s, does, other) \/ (other = id /\ Among(does, posts))
    BY <1>3, <1>4, <2>1 DEF Has, Among
  <2>2. ASSUME Has(s, does, other) PROVE Has(t, does, other)
    BY <1>1, <1>3, <2>2 DEF Has
  <2>3. ASSUME other = id, NEW k \in DOMAIN posts, posts[k] = does PROVE Has(t, does, other)
    <3>1. n + k \in DOMAIN t /\ t[n + k] = [does |-> posts[k], id |-> id]
      BY <1>1, <2>3
    <3>2. Is(t, n + k, does, other)
      BY <2>3, <3>1 DEF Is
    <3> QED
      BY <3>1, <3>2 DEF Has
  <2> QED
    BY <2>1, <2>2, <2>3 DEF Among
<1>6. ASSUME NEW does, NEW other, Once(s, does, other), ~(other = id /\ Among(does, posts)) PROVE Once(t, does, other)
  <2>1. \A i \in DOMAIN t : Is(t, i, does, other) => i \in DOMAIN s /\ Is(s, i, does, other)
    BY <1>3, <1>4, <1>6 DEF Among
  <2> QED
    BY <1>6, <2>1 DEF Once
<1>7. ASSUME NEW does, ~Has(s, does, id), \A k, l \in DOMAIN posts : posts[k] = does /\ posts[l] = does => k = l
      PROVE  Once(t, does, id)
  <2>1. \A i \in DOMAIN t : Is(t, i, does, id) => i - n \in DOMAIN posts /\ posts[i - n] = does /\ i \in Nat
    BY <1>1, <1>3, <1>4, <1>7 DEF Has
  <2>2. \A i, j \in Nat : i - n = j - n => i = j
    BY <1>2
  <2>3. ASSUME NEW i \in DOMAIN t, NEW j \in DOMAIN t, Is(t, i, does, id), Is(t, j, does, id) PROVE i = j
    BY <1>7, <2>1, <2>2, <2>3
  <2> QED
    BY <2>3 DEF Once
<1>8. ASSUME NEW other, StopsLast(s, other), ~(other = id /\ Among("processQueue", posts)) PROVE StopsLast(t, other)
  <2>1. \A j \in DOMAIN t : Is(t, j, "processQueue", other) => j \in DOMAIN s /\ Is(s, j, "processQueue", other)
    BY <1>3, <1>4, <1>8 DEF Among
  <2> QED
    BY <1>1, <1>3, <1>8, <2>1 DEF StopsLast
<1>9. ASSUME ~Has(s, "doStopSession", id), ~Among("doStopSession", posts) PROVE StopsLast(t, id)
  BY <1>3, <1>4, <1>9 DEF StopsLast, Has, Among
<1> QED
  BY <1>1, <1>5, <1>6, <1>7, <1>8, <1>9 DEF t

(* The events that slots post.                                               *)
LEMMA Postings ==
    /\ <<>> \in Seq(Does) /\ \A e : ~Among(e, <<>>)
    /\ \A d \in Does : /\ <<d>> \in Seq(Does) /\ \A e : Among(e, <<d>>) <=> e = d
                       /\ \A k, l \in DOMAIN <<d>> : k = l
    /\ LET two == <<"next", "processQueue">> IN
       /\ two \in Seq(Does) /\ \A e : Among(e, two) <=> e \in {"next", "processQueue"}
       /\ \A k, l \in DOMAIN two : two[k] = two[l] => k = l
<1>1. <<>> \in Seq(Does) /\ \A e : ~Among(e, <<>>)
  BY EmptySeq DEF Among
<1>2. ASSUME NEW d \in Does
      PROVE  /\ <<d>> \in Seq(Does) /\ \A e : Among(e, <<d>>) <=> e = d
             /\ \A k, l \in DOMAIN <<d>> : k = l
  BY DEF Among
<1> DEFINE two == <<"next", "processQueue">>
<1>3. two \in Seq(Does) /\ \A e : Among(e, two) <=> e \in {"next", "processQueue"}
  BY DEF Among, Does
<1>4. \A k, l \in DOMAIN two : two[k] = two[l] => k = l
  <2>1. DOMAIN two = {1, 2} /\ two[1] = "next" /\ two[2] = "processQueue"
    OBVIOUS
  <2> QED
    BY <2>1
<1> QED
  BY <1>1, <1>2, <1>3, <1>4

(* What a slot adds to the events of its helper: nothing, one event, or the  *)
(* two after an answer.                                                      *)
Keeps(s, t, id) ==
    /\ \A does \in Does : Has(t, does, id) => Has(s, does, id)
    /\ \A does \in Does : Once(s, does, id) => Once(t, does, id)
    /\ StopsLast(s, id) => StopsLast(t, id)
GainsOne(s, t, id, d) ==
    /\ \A does : Has(t, does, id) <=> Has(s, does, id) \/ does = d
    /\ \A does : Once(s, does, id) /\ does # d => Once(t, does, id)
    /\ ~Has(s, d, id) => Once(t, d, id)
    /\ StopsLast(s, id) /\ d # "processQueue" => StopsLast(t, id)
    /\ ~Has(s, "doStopSession", id) /\ d # "doStopSession" => StopsLast(t, id)
GainsTwo(s, t, id) ==
    /\ \A does : Has(t, does, id) <=> Has(s, does, id) \/ does \in {"next", "processQueue"}
    /\ \A does : Once(s, does, id) /\ does \notin {"next", "processQueue"} => Once(t, does, id)
    /\ ~Has(s, "next", id) => Once(t, "next", id)
    /\ ~Has(s, "doStopSession", id) => StopsLast(t, id)

(* A slot that posts nothing leaves the loop as it is for every helper.      *)
LEMMA AddedNone ==
    ASSUME NEW s \in Seq(Entries), NEW id \in Arrivals
    PROVE  s \o Events(id, <<>>) \in Seq(Entries) /\ Keeps(s, s \o Events(id, <<>>), id)
<1> DEFINE none == <<>>
           t == s \o Events(id, none)
<1>1. none \in Seq(Does) /\ \A e : ~Among(e, none)
  BY Postings
<1> HIDE DEF none
<1>2. /\ t \in Seq(Entries)
      /\ \A does, other : Has(t, does, other) <=> Has(s, does, other) \/ (other = id /\ Among(does, none))
      /\ \A does, other : Once(s, does, other) /\ ~(other = id /\ Among(does, none)) => Once(t, does, other)
      /\ \A other : StopsLast(s, other) /\ ~(other = id /\ Among("processQueue", none)) => StopsLast(t, other)
  BY <1>1, Added
<1> HIDE DEF t
<1>3. t \in Seq(Entries) /\ Keeps(s, t, id)
  BY <1>1, <1>2 DEF Keeps
<1> QED
  BY <1>3 DEF t, none

(* One event.                                                                *)
LEMMA AddedOne ==
    ASSUME NEW s \in Seq(Entries), NEW id \in Arrivals, NEW d \in Does
    PROVE  s \o Events(id, <<d>>) \in Seq(Entries) /\ GainsOne(s, s \o Events(id, <<d>>), id, d)
<1> DEFINE one == <<d>>
<1>1. /\ one \in Seq(Does) /\ \A e : Among(e, one) <=> e = d
      /\ \A k, l \in DOMAIN one : k = l
  BY Postings
<1> HIDE DEF one
<1>2. s \o Events(id, one) \in Seq(Entries) /\ GainsOne(s, s \o Events(id, one), id, d)
  BY <1>1, Added DEF GainsOne
<1> QED
  BY <1>2 DEF one

(* The next step of the helper, and of its session.                          *)
LEMMA AddedTwo ==
    ASSUME NEW s \in Seq(Entries), NEW id \in Arrivals
    PROVE  LET t == s \o Events(id, <<"next", "processQueue">>) IN t \in Seq(Entries) /\ GainsTwo(s, t, id)
<1> DEFINE two == <<"next", "processQueue">>
<1>1. /\ two \in Seq(Does) /\ \A e : Among(e, two) <=> e \in {"next", "processQueue"}
      /\ \A k, l \in DOMAIN two : two[k] = two[l] => k = l
  BY Postings
<1> HIDE DEF two
<1>2. s \o Events(id, two) \in Seq(Entries) /\ GainsTwo(s, s \o Events(id, two), id)
  BY <1>1, Added DEF GainsTwo
<1> QED
  BY <1>2 DEF two

(* The slot of one helper posts nothing to the others.                       *)
LEMMA OthersAlone ==
    ASSUME NEW s \in Seq(Entries), NEW id \in Arrivals, NEW posts \in Seq(Does), NEW other, other # id
    PROVE  Keeps(s, s \o Events(id, posts), other)
BY Added DEF Keeps

-----------------------------------------------------------------------------
(* What a slot makes of a helper, and what it posts                          *)

Result(p, posts) == [p |-> p, posts |-> posts]
Nothing == <<>>
Reported(p, report) == [p EXCEPT !.at = "Finished", !.reports = Append(@, report)]

(* The parts of a slot.                                                      *)
LEMMA SlotParts ==
    ASSUME NEW p \in Probes, NEW posts
    PROVE  /\ Slot(p) = Result(p, Nothing)
           /\ Result(p, posts).p = p /\ Result(p, posts).posts = posts
           /\ \A d : Post(Result(p, posts), d) = Result(p, Append(posts, d))
           /\ \A report : Finish(Result(p, posts), report) = Result(Reported(p, report), posts)
           /\ \A report \in {"ok", "error"} :
                /\ Reported(p, report) \in Probes
                /\ Reported(p, report).at = "Finished"
                /\ p.reports = <<>> => Reported(p, report).reports = <<report>>
                /\ AllErrors(p.reports) => AllErrors(Reported(p, "error").reports)
<1>1. ASSUME NEW report \in {"ok", "error"}
      PROVE  /\ Reported(p, report) \in Probes
             /\ Reported(p, report).at = "Finished"
             /\ p.reports = <<>> => Reported(p, report).reports = <<report>>
             /\ AllErrors(p.reports) => AllErrors(Reported(p, "error").reports)
  <2>1. p.reports \in Seq({"ok", "error"})
    BY DEF Probes
  <2>2. ASSUME NEW r \in {"ok", "error"}
        PROVE  /\ Append(p.reports, r) \in Seq({"ok", "error"})
               /\ p.reports = <<>> => Append(p.reports, r) = <<r>>
    <3>1. Append(p.reports, r) \in Seq({"ok", "error"})
      BY <2>1, AppendProperties
    <3>2. Append(<<>>, r) = <<r>>
      OBVIOUS
    <3> QED
      BY <3>1, <3>2
  <2>3. AllErrors(p.reports) => AllErrors(Append(p.reports, "error"))
    BY <2>1, AppendProperties, LenProperties DEF AllErrors
  <2> DEFINE more(r) == Append(p.reports, r)
  <2>4. Reported(p, report).reports = more(report) /\ Reported(p, "error").reports = more("error")
    BY DEF Reported, Probes
  <2>5. Reported(p, report) = [p EXCEPT !.at = "Finished", !.reports = more(report)]
    BY DEF Reported
  <2>6. more(report) \in Seq({"ok", "error"})
    BY <2>2
  <2> HIDE DEF more
  <2>7. Reported(p, report) \in Probes /\ Reported(p, report).at = "Finished"
    BY <2>5, <2>6 DEF Probes, Places
  <2> QED
    BY <2>2, <2>3, <2>4, <2>7 DEF more
<1>2. \A d : Post(Result(p, posts), d) = Result(p, Append(posts, d))
  BY DEF Post, Result
<1>3. ASSUME NEW report PROVE Finish(Result(p, posts), report) = Result(Reported(p, report), posts)
  <2> DEFINE more == Append(p.reports, report)
             q == [p EXCEPT !.at = "Finished", !.reports = more]
  <2>1. Finish(Result(p, posts), report) = [[p |-> p, posts |-> posts] EXCEPT !.p = [[p EXCEPT !.at = "Finished"] EXCEPT !.reports = Append(@, report)]]
    BY DEF Finish, Result
  <2> QED
    BY <2>1 DEF Result, Reported
<1> QED
  BY <1>1, <1>2, <1>3 DEF Slot, Result, Nothing

(* A slot begins with its helper and nothing posted.                         *)
LEMMA FreshSlot == \A p : Slot(p) = Result(p, Nothing)
BY DEF Slot, Result, Nothing

(* What a slot posts,                                                        *)
LEMMA PostPart ==
    ASSUME NEW p, NEW posts, NEW d
    PROVE  Post(Result(p, posts), d) = Result(p, Append(posts, d))
BY DEF Result, Post

(* and what it assigns.                                                      *)
LEMMA ResultParts ==
    ASSUME NEW p, NEW posts
    PROVE  Result(p, posts).p = p /\ Result(p, posts).posts = posts
BY DEF Result

(* The same for the field at,                                                *)
LEMMA AtPart ==
    ASSUME NEW p, NEW posts, NEW v
    PROVE  [Result(p, posts) EXCEPT !.p.at = v] = Result([p EXCEPT !.at = v], posts)
BY DEF Result

(* the operation,                                                            *)
LEMMA OperationPart ==
    ASSUME NEW p, NEW posts, NEW v
    PROVE  [Result(p, posts) EXCEPT !.p.operation = v] = Result([p EXCEPT !.operation = v], posts)
BY DEF Result

(* the state of the SerialInitHelper,                                        *)
LEMMA InitPart ==
    ASSUME NEW p, NEW posts, NEW v
    PROVE  [Result(p, posts) EXCEPT !.p.init = v] = Result([p EXCEPT !.init = v], posts)
BY DEF Result

(* the error of the session,                                                 *)
LEMMA ErrorPart ==
    ASSUME NEW p, NEW posts, NEW v
    PROVE  [Result(p, posts) EXCEPT !.p.error = v] = Result([p EXCEPT !.error = v], posts)
BY DEF Result

(* the tries that are left,                                                  *)
LEMMA TriesPart ==
    ASSUME NEW p, NEW posts, NEW v
    PROVE  [Result(p, posts) EXCEPT !.p.tries = v] = Result([p EXCEPT !.tries = v], posts)
BY DEF Result

(* the state of the session,                                                 *)
LEMMA SessionPart ==
    ASSUME NEW p, NEW posts, NEW v
    PROVE  [Result(p, posts) EXCEPT !.p.session = v] = Result([p EXCEPT !.session = v], posts)
BY DEF Result

(* and all that startSession() sets.                                         *)
LEMMA Started ==
    ASSUME NEW p, NEW posts
    PROVE  StartSession(Result(p, posts)) =
               {Result([p EXCEPT !.session = "Starting", !.init = "Ready", !.tries = RetryCount], posts),
                PluginFails(Result(p, posts))}
<1> DEFINE x == Result(p, posts)
           a == "Starting"
           b == "Ready"
           c == RetryCount
           q == [p EXCEPT !.session = a]
           u == [q EXCEPT !.init = b]
           y == Result(q, posts)
           z == Result(u, posts)
<1>1. StartSession(x) = {[x EXCEPT !.p.session = a, !.p.init = b, !.p.tries = c], PluginFails(x)}
  BY DEF StartSession
<1>2. [x EXCEPT !.p.session = a, !.p.init = b, !.p.tries = c] =
          [[[x EXCEPT !.p.session = a] EXCEPT !.p.init = b] EXCEPT !.p.tries = c]
  OBVIOUS
<1>3. [p EXCEPT !.session = a, !.init = b, !.tries = c] = [u EXCEPT !.tries = c]
  OBVIOUS
<1> HIDE DEF a, b, c
<1>4. [x EXCEPT !.p.session = a] = y
  BY SessionPart
<1> HIDE DEF x, q
<1>5. [y EXCEPT !.p.init = b] = z
  BY InitPart
<1> HIDE DEF u, y
<1>6. [z EXCEPT !.p.tries = c] = Result([u EXCEPT !.tries = c], posts)
  BY TriesPart
<1> HIDE DEF z
<1>7. [x EXCEPT !.p.session = a, !.p.init = b, !.p.tries = c] = Result([u EXCEPT !.tries = c], posts)
  BY <1>2, <1>4, <1>5, <1>6
<1> QED
  BY <1>1, <1>3, <1>7 DEF a, b, c, x

(* The whole helper may be set.                                              *)
LEMMA WholePart ==
    ASSUME NEW p, NEW posts, NEW v
    PROVE  [Result(p, posts) EXCEPT !.p = v] = Result(v, posts)
BY DEF Result

(* The state of the session is set, and its helper is told.                  *)
LEMMA StatusChanged ==
    ASSUME NEW p \in Probes, NEW posts
    PROVE  LET r == OnSessionStatusChanged(Result(p, posts)) IN
           /\ p.error => r = Result(Reported(p, "error"), posts)
           /\ ~p.error /\ p.at = "StartingRPCSession" /\ IsUp(p) => r = Result(p, Append(posts, "next"))
           /\ ~p.error /\ p.at = "StoppingRPCSession" /\ ~IsUp(p) => r = Result(Reported(p, "ok"), posts)
           /\ ~p.error /\ ~(p.at = "StartingRPCSession" /\ IsUp(p)) /\ ~(p.at = "StoppingRPCSession" /\ ~IsUp(p))
                => r = Result(p, posts)
<1> DEFINE r == Result(p, posts)
<1>1. /\ r.p = p /\ Post(r, "next") = Result(p, Append(posts, "next"))
      /\ \A report : Finish(r, report) = Result(Reported(p, report), posts)
  BY SlotParts
<1> HIDE DEF r
<1>2. OnSessionStatusChanged(r) =
          CASE p.error -> Finish(r, "error")
            [] ~p.error /\ p.at = "StartingRPCSession" /\ IsUp(p) -> Post(r, "next")
            [] ~p.error /\ p.at = "StoppingRPCSession" /\ ~IsUp(p) -> Finish(r, "ok")
            [] OTHER -> r
  BY <1>1 DEF OnSessionStatusChanged, IsDone
<1>3. p.error \in BOOLEAN
  BY DEF Probes
<1>4. p.error => OnSessionStatusChanged(r) = Finish(r, "error")
  BY <1>2, <1>3
<1>5. ~p.error /\ p.at = "StartingRPCSession" /\ IsUp(p) => OnSessionStatusChanged(r) = Post(r, "next")
  BY <1>2, <1>3
<1>6. ~p.error /\ p.at = "StoppingRPCSession" /\ ~IsUp(p) => OnSessionStatusChanged(r) = Finish(r, "ok")
  BY <1>2, <1>3
<1>7. ~p.error /\ ~(p.at = "StartingRPCSession" /\ IsUp(p)) /\ ~(p.at = "StoppingRPCSession" /\ ~IsUp(p))
      => OnSessionStatusChanged(r) = r
  BY <1>2, <1>3
<1> QED
  BY <1>1, <1>4, <1>5, <1>6, <1>7 DEF r

(* Nothing happens when the session has that state.                          *)
LEMMA StateSet ==
    ASSUME NEW p, NEW posts, NEW state
    PROVE  SetSessionState(Result(p, posts), state) =
               IF p.session = state THEN Result(p, posts)
               ELSE OnSessionStatusChanged(Result([p EXCEPT !.session = state], posts))
<1>1. [Result(p, posts) EXCEPT !.p.session = state] = Result([p EXCEPT !.session = state], posts)
  BY DEF Result
<1>2. Result(p, posts).p = p
  BY ResultParts
<1> QED
  BY <1>1, <1>2 DEF SetSessionState

(* Only the state of the session changes.                                    *)
LEMMA StateOnly ==
    ASSUME NEW p \in Probes, NEW state \in SessionStates
    PROVE  LET q == [p EXCEPT !.session = state] IN
           /\ q \in Probes /\ q.session = state /\ q.at = p.at /\ q.dfu = p.dfu /\ q.tries = p.tries
           /\ q.init = p.init /\ q.error = p.error /\ q.lost = p.lost /\ q.operation = p.operation
           /\ q.answered = p.answered /\ q.reports = p.reports
<1> DEFINE q == [p EXCEPT !.session = state]
<1>1. q \in Probes
  BY DEF Probes
<1>2. /\ q.session = state /\ q.at = p.at /\ q.dfu = p.dfu /\ q.tries = p.tries
      /\ q.init = p.init /\ q.error = p.error /\ q.lost = p.lost /\ q.operation = p.operation
      /\ q.answered = p.answered /\ q.reports = p.reports
  BY DEF Probes
<1> QED
  BY <1>1, <1>2

-----------------------------------------------------------------------------
(* What is true of a helper stays true                                       *)

(* What has been asked, and where.                                           *)
LEMMA EarlierFacts ==
    /\ DOMAIN Earlier = Queries \cup {"StoppingRPCSession"}
    /\ Earlier["FetchingProtobufVersion"] = {}
    /\ Earlier["FetchingDeviceInfo"] = {"FetchingProtobufVersion"}
    /\ Earlier["CheckingSDCard"] = {"FetchingProtobufVersion", "FetchingDeviceInfo"}
    /\ Earlier["CheckingManifest"] = {"FetchingProtobufVersion", "FetchingDeviceInfo", "CheckingSDCard"}
    /\ Earlier["GettingTimeSkew"] = {"FetchingProtobufVersion", "FetchingDeviceInfo", "CheckingSDCard"}
    /\ Earlier["SyncingTime"] =
          {"FetchingProtobufVersion", "FetchingDeviceInfo", "CheckingSDCard", "GettingTimeSkew"}
    /\ Earlier["StoppingRPCSession"] = Queries \ {"CheckingManifest"}
BY DEF Earlier, Queries

(* Fewer events do no harm.                                                  *)
LEMMA FewerAreSound ==
    ASSUME NEW s, NEW t, NEW id, NEW p, HelperSound(s, id, p), Keeps(s, t, id)
    PROVE  HelperSound(t, id, p)
<1>1. Beginning(t, id, p)
  BY DEF HelperSound, Keeps, Beginning, Does
<1>2. Opening(t, id, p)
  BY DEF HelperSound, Keeps, Opening, Does
<1>3. Asking(t, id, p)
  BY DEF HelperSound, Keeps, Asking, Does
<1>4. Stopping(t, id, p)
  BY DEF HelperSound, Keeps, Stopping, Does
<1>5. Reporting(t, id, p)
  BY DEF HelperSound, Keeps, Reporting, Does
<1> QED
  BY <1>1, <1>2, <1>3, <1>4, <1>5 DEF HelperSound

ReportedWell(s, id, q) ==
    /\ q.reports = <<"ok">> /\ ~q.error /\ q.operation = "none" /\ q.session = "Stopped"
    /\ ~Has(s, "processQueue", id)
    /\ ~q.dfu => Queries \ {"CheckingManifest"} \subseteq q.answered

(* A helper that is finished does nothing more.                              *)
LEMMA FinishedIsSound ==
    ASSUME NEW s, NEW id, NEW q \in Probes, q.at = "Finished", q.init = "none", q.session # "Starting",
           ~Has(s, "serialInit", id), (q.reports # <<"ok">> /\ AllErrors(q.reports)) \/ ReportedWell(s, id, q)
    PROVE  HelperSound(s, id, q)
<1>1. Beginning(s, id, q)
  BY DEF Beginning
<1>2. Opening(s, id, q)
  BY DEF Opening, Once, Has
<1>3. Asking(s, id, q)
  BY EarlierFacts DEF Asking, NextDue, Queries
<1>4. Stopping(s, id, q)
  BY DEF Stopping, Queries
<1>5. Reporting(s, id, q)
  BY DEF Reporting, ReportedWell
<1> QED
  BY <1>1, <1>2, <1>3, <1>4, <1>5 DEF HelperSound

(* A report of an error is no report of the device.                          *)
LEMMA ErrorReported ==
    ASSUME NEW p \in Probes, AllErrors(p.reports)
    PROVE  LET q == Reported(p, "error") IN
           /\ q \in Probes /\ q.at = "Finished" /\ AllErrors(q.reports) /\ q.reports # <<"ok">>
           /\ q.init = p.init /\ q.session = p.session
<1> DEFINE q == Reported(p, "error")
<1>1. q \in Probes /\ q.at = "Finished" /\ AllErrors(q.reports)
  BY SlotParts
<1>2. q.init = p.init /\ q.session = p.session
  BY DEF Reported, Probes
<1>3. AllErrors(q.reports) => q.reports # <<"ok">>
  BY DEF AllErrors
<1> QED
  BY <1>1, <1>2, <1>3

(* A slot keeps its helper sound.                                            *)
SlotSound(s, id, r) ==
    /\ r.p \in Probes /\ r.p.at # "none" /\ r.posts \in Seq(Does)
    /\ HelperSound(s \o Events(id, r.posts), id, r.p)

(* Posting is appending.                                                     *)
LEMMA FirstPosted ==
    /\ \A d : Append(<<>>, d) = <<d>>
    /\ Append(Append(<<>>, "next"), "processQueue") = <<"next", "processQueue">>
<1>1. ASSUME NEW d PROVE Append(<<>>, d) = <<d>>
  OBVIOUS
<1> DEFINE one == <<"next">>
           two == <<"next", "processQueue">>
           last == "processQueue"
           both == Append(one, last)
<1>2. one \in Seq(Does) /\ Len(one) = 1 /\ one[1] = "next" /\ "processQueue" \in Does
  BY DEF Does
<1>3. two \in Seq(Does) /\ Len(two) = 2 /\ two[1] = "next" /\ two[2] = "processQueue"
  BY DEF Does
<1>4. both \in Seq(Does) /\ Len(both) = 1 + 1 /\ both[1] = "next" /\ both[1 + 1] = last
  <2>2. last \in Does
    BY DEF Does
  <2>3. ASSUME NEW S, NEW x \in Seq(S), NEW d \in S
        PROVE  /\ Append(x, d) \in Seq(S) /\ Len(Append(x, d)) = Len(x) + 1
               /\ \A i \in 1..Len(x) : Append(x, d)[i] = x[i]
               /\ Append(x, d)[Len(x) + 1] = d
    BY <2>3, AppendProperties
  <2> HIDE DEF one, last
  <2>1. /\ both \in Seq(Does) /\ Len(both) = Len(one) + 1
        /\ \A i \in 1..Len(one) : both[i] = one[i]
        /\ both[Len(one) + 1] = last
    BY ZenonT(30), <1>2, <2>2, <2>3
  <2> HIDE DEF both
  <2> QED
    BY <1>2, <2>1
<1>5. both = two
  <2> HIDE DEF both, two
  <2>1. \A i \in 1..Len(both) : both[i] = two[i]
    BY <1>3, <1>4
  <2> QED
    BY <1>3, <1>4, <2>1, SeqEqual
<1> QED
  BY <1>1, <1>5

(* It does when it posts nothing,                                            *)
LEMMA NoneIsSound ==
    ASSUME NEW s \in Seq(Entries), NEW id \in Arrivals, NEW q \in Probes, q.at # "none", HelperSound(s, id, q)
    PROVE  SlotSound(s, id, Result(q, Nothing))
BY AddedNone, FewerAreSound, Postings DEF SlotSound, Result, Nothing

(* one event,                                                                *)
LEMMA OneIsSound ==
    ASSUME NEW s \in Seq(Entries), NEW id \in Arrivals, NEW q \in Probes, q.at # "none", NEW d \in Does,
           \A t \in Seq(Entries) : GainsOne(s, t, id, d) => HelperSound(t, id, q)
    PROVE  SlotSound(s, id, Result(q, Append(Nothing, d)))
<1> DEFINE one == <<d>>
<1>1. Append(Nothing, d) = one
  BY FirstPosted DEF Nothing
<1>2. one \in Seq(Does) /\ HelperSound(s \o Events(id, one), id, q)
  BY AddedOne, Postings
<1> HIDE DEF one
<1> QED
  BY <1>1, <1>2 DEF SlotSound, Result

(* or two.                                                                   *)
LEMMA TwoAreSound ==
    ASSUME NEW s \in Seq(Entries), NEW id \in Arrivals, NEW q \in Probes, q.at # "none",
           \A t \in Seq(Entries) : GainsTwo(s, t, id) => HelperSound(t, id, q)
    PROVE  SlotSound(s, id, Result(q, Append(Append(Nothing, "next"), "processQueue")))
<1> DEFINE two == <<"next", "processQueue">>
<1>1. Append(Append(Nothing, "next"), "processQueue") = two
  BY FirstPosted DEF Nothing
<1>2. two \in Seq(Does) /\ HelperSound(s \o Events(id, two), id, q)
  BY AddedTwo, Postings
<1> HIDE DEF two
<1> QED
  BY <1>1, <1>2 DEF SlotSound, Result

-----------------------------------------------------------------------------
(* The next step of a helper                                                 *)

(* The order of the steps, and what each has asked before.                   *)
LEMMA NextFacts ==
    /\ DOMAIN NextState = {"Ready", "FindingSerialPort", "StartingRPCSession"} \cup Queries
    /\ NextState["Ready"] = "FindingSerialPort"
    /\ NextState["FindingSerialPort"] = "StartingRPCSession"
    /\ NextState["StartingRPCSession"] = "FetchingProtobufVersion"
    /\ \A at \in Queries : NextState[at] = "StoppingRPCSession" \/ NextState[at] \in Queries
    /\ \A at \in Queries : Earlier[NextState[at]] \subseteq Earlier[at] \cup ({at} \ {"CheckingManifest"})
<1>1. /\ DOMAIN NextState = {"Ready", "FindingSerialPort", "StartingRPCSession"} \cup Queries
      /\ NextState["Ready"] = "FindingSerialPort" /\ NextState["FindingSerialPort"] = "StartingRPCSession"
      /\ NextState["StartingRPCSession"] = "FetchingProtobufVersion"
  BY DEF NextState, Queries
<1>2. /\ NextState["FetchingProtobufVersion"] = "FetchingDeviceInfo"
      /\ NextState["FetchingDeviceInfo"] = "CheckingSDCard" /\ NextState["CheckingSDCard"] = "CheckingManifest"
      /\ NextState["CheckingManifest"] = "GettingTimeSkew" /\ NextState["GettingTimeSkew"] = "SyncingTime"
      /\ NextState["SyncingTime"] = "StoppingRPCSession"
  BY DEF NextState
<1>3. \A at \in Queries : NextState[at] = "StoppingRPCSession" \/ NextState[at] \in Queries
  BY <1>2 DEF Queries
<1>4. ASSUME NEW at \in Queries
      PROVE  Earlier[NextState[at]] \subseteq Earlier[at] \cup ({at} \ {"CheckingManifest"})
  BY <1>2, EarlierFacts DEF Queries
<1> QED
  BY <1>1, <1>3, <1>4

(* What the invariant says of a helper whose next step is due.               *)
LEMMA Due ==
    ASSUME NEW s, NEW id, NEW p \in Probes, HelperSound(s, id, p), NextDue(p), p.at \in DOMAIN NextState
    PROVE  /\ p.init = "none" /\ p.session # "Starting" /\ p.operation = "none" /\ p.reports = <<>>
           /\ ~Has(s, "serialInit", id) /\ AllErrors(p.reports)
           /\ p.at \in Queries => Earlier[NextState[p.at]] \subseteq p.answered
<1>1. /\ p.at \notin {"Finished", "gone", "none"}
      /\ p.at \in {"Ready", "FindingSerialPort"} => p.session = "Stopped"
  BY NextFacts DEF HelperSound, Beginning, Queries
<1>2. p.operation = "none" /\ p.reports = <<>> /\ AllErrors(p.reports)
  <2>1. AllErrors(<<>>)
    BY DEF AllErrors
  <2> QED
    BY <1>1, <2>1 DEF HelperSound, Beginning, NextDue
<1>3. p.init = "none" /\ p.session # "Starting"
  BY <1>1 DEF HelperSound, Opening, NextDue
<1>4. ~Has(s, "serialInit", id)
  BY <1>3 DEF HelperSound, Opening, InitDue
<1>5. ASSUME p.at \in Queries PROVE Earlier[NextState[p.at]] \subseteq p.answered
  <2>1. Earlier[p.at] \subseteq p.answered /\ (p.at \in p.answered \/ p.at = "CheckingManifest")
    BY <1>5, EarlierFacts DEF HelperSound, Asking, NextDue
  <2> QED
    BY <1>5, <2>1, NextFacts
<1> QED
  BY <1>2, <1>3, <1>4, <1>5

(* A helper that takes its next step without a report.                       *)
LEMMA Moves ==
    ASSUME NEW p \in Probes, NEW at \in Places
    PROVE  LET q == [p EXCEPT !.at = at] IN
           /\ q \in Probes /\ q.at = at /\ q.dfu = p.dfu /\ q.tries = p.tries /\ q.init = p.init
           /\ q.session = p.session /\ q.error = p.error /\ q.lost = p.lost /\ q.operation = p.operation
           /\ q.answered = p.answered /\ q.reports = p.reports
           /\ [Slot(p) EXCEPT !.p.at = at] = Result(q, Nothing)
<1> DEFINE q == [p EXCEPT !.at = at]
<1>1. q \in Probes
  BY DEF Probes
<1>2. /\ q.at = at /\ q.dfu = p.dfu /\ q.tries = p.tries /\ q.init = p.init
      /\ q.session = p.session /\ q.error = p.error /\ q.lost = p.lost /\ q.operation = p.operation
      /\ q.answered = p.answered /\ q.reports = p.reports
  BY DEF Probes
<1>3. [Slot(p) EXCEPT !.p.at = at] = Result(q, Nothing)
  BY FreshSlot, AtPart
<1> QED
  BY <1>1, <1>2, <1>3

(* enqueueOperation(): the operation is queued, and the session is woken.    *)
LEMMA Enqueued ==
    ASSUME NEW m \in Probes, NEW posts, m.at \in Queries
    PROVE  \E q \in Probes :
              /\ q.at = m.at /\ q.dfu = m.dfu /\ q.init = m.init /\ q.operation = "queued" /\ q.error = m.error
              /\ q.lost = m.lost /\ q.answered = m.answered /\ q.reports = m.reports
              /\ \/ q.session = m.session /\ EnqueueOperation(Result(m, posts)) = Result(q, posts)
                 \/ /\ q.session = "Running"
                    /\ EnqueueOperation(Result(m, posts)) =
                          Result(IF m.error THEN Reported(q, "error") ELSE q, Append(posts, "processQueue"))
<1> DEFINE x == [m EXCEPT !.operation = "queued"]
<1>1. /\ x \in Probes /\ x.at = m.at /\ x.dfu = m.dfu /\ x.init = m.init /\ x.operation = "queued"
      /\ x.session = m.session /\ x.error = m.error /\ x.lost = m.lost
      /\ x.answered = m.answered /\ x.reports = m.reports
  BY DEF Probes
<1>2. [Result(m, posts) EXCEPT !.p.operation = "queued"] = Result(x, posts) /\ Result(m, posts).p = m
  BY ResultParts, OperationPart
<1> HIDE DEF x
<1>3. EnqueueOperation(Result(m, posts)) =
          IF m.session = "Idle" THEN SetSessionState(Post(Result(x, posts), "processQueue"), "Running")
          ELSE Result(x, posts)
  BY <1>2 DEF EnqueueOperation
<1>4. CASE m.session # "Idle"
  BY <1>1, <1>3, <1>4
<1>5. CASE m.session = "Idle"
  <2> DEFINE one == Append(posts, "processQueue")
             up == "Running"
             q == [x EXCEPT !.session = up]
  <2>0. up = "Running" /\ up \in SessionStates /\ x.session # up
    BY <1>1, <1>5 DEF SessionStates
  <2> HIDE DEF up
  <2>1. Post(Result(x, posts), "processQueue") = Result(x, one)
    BY PostPart
  <2> HIDE DEF one
  <2>2. /\ SetSessionState(Result(x, one), up) = OnSessionStatusChanged(Result(q, one))
        /\ q \in Probes /\ q.session = up /\ q.at = x.at /\ q.dfu = x.dfu
        /\ q.init = x.init /\ q.error = x.error /\ q.lost = x.lost /\ q.operation = x.operation
        /\ q.answered = x.answered /\ q.reports = x.reports
    <3>1. SetSessionState(Result(x, one), up) = OnSessionStatusChanged(Result(q, one))
      BY <2>0, StateSet
    <3>2. /\ q \in Probes /\ q.session = up /\ q.at = x.at /\ q.dfu = x.dfu
          /\ q.init = x.init /\ q.error = x.error /\ q.lost = x.lost /\ q.operation = x.operation
          /\ q.answered = x.answered /\ q.reports = x.reports
      BY <1>1, <2>0, StateOnly
    <3> QED
      BY <3>1, <3>2
  <2> HIDE DEF q
  <2>3. q.at \notin {"StartingRPCSession", "StoppingRPCSession"} /\ q.error \in BOOLEAN
    BY <1>1, <2>2 DEF Queries, Probes
  <2>4. OnSessionStatusChanged(Result(q, one)) = Result(IF m.error THEN Reported(q, "error") ELSE q, one)
    BY <1>1, <2>2, <2>3, StatusChanged
  <2> QED
    BY <1>1, <1>3, <1>5, <2>0, <2>1, <2>2, <2>4 DEF one
<1> QED
  BY <1>4, <1>5

(* It asks the device.                                                       *)
LEMMA Asks ==
    ASSUME NEW s \in Seq(Entries), NEW id \in Arrivals, NEW p \in Probes, NEW at \in Queries,
           HelperSound(s, id, p), NextDue(p), ~Has(s, "next", id), p.at \in DOMAIN NextState, ~p.dfu,
           p.at \notin {"Ready", "FindingSerialPort"}, NextState[p.at] = at
    PROVE  SlotSound(s, id, EnqueueOperation(Result([p EXCEPT !.at = at], Nothing)))
<1> DEFINE m == [p EXCEPT !.at = at]
<1>1. /\ p.init = "none" /\ p.session # "Starting" /\ p.operation = "none" /\ p.reports = <<>>
      /\ ~Has(s, "serialInit", id) /\ AllErrors(p.reports)
      /\ p.at \in Queries => Earlier[at] \subseteq p.answered
  BY Due
<1>2. /\ m \in Probes /\ m.at = at /\ m.dfu = p.dfu /\ m.init = p.init
      /\ m.session = p.session /\ m.error = p.error /\ m.lost = p.lost
      /\ m.answered = p.answered /\ m.reports = p.reports
  <2>1. at \in Places
    BY DEF Places
  <2>2. /\ m \in Probes /\ m.at = at /\ m.dfu = p.dfu /\ m.tries = p.tries /\ m.init = p.init
        /\ m.session = p.session /\ m.error = p.error /\ m.lost = p.lost /\ m.operation = p.operation
        /\ m.answered = p.answered /\ m.reports = p.reports
    BY ZenonT(30), <2>1, Moves
  <2> HIDE DEF m
  <2> QED
    BY <2>2
<1>3. p.at \notin {"none", "Finished", "gone", "StoppingRPCSession"}
  BY NextFacts DEF Queries
<1>4. at \notin {"none", "Ready", "FindingSerialPort", "StartingRPCSession", "StoppingRPCSession", "Finished", "gone"}
  BY DEF Queries
<1> HIDE DEF m
<1>5. PICK q \in Probes :
          /\ q.at = m.at /\ q.dfu = m.dfu /\ q.init = m.init /\ q.operation = "queued" /\ q.error = m.error
          /\ q.lost = m.lost /\ q.answered = m.answered /\ q.reports = m.reports
          /\ \/ q.session = m.session /\ EnqueueOperation(Result(m, Nothing)) = Result(q, Nothing)
             \/ /\ q.session = "Running"
                /\ EnqueueOperation(Result(m, Nothing)) =
                      Result(IF m.error THEN Reported(q, "error") ELSE q, Append(Nothing, "processQueue"))
  BY <1>2, Enqueued
<1>6. Earlier[at] \subseteq q.answered
  <2>1. p.at \in Queries \/ at = "FetchingProtobufVersion"
    BY NextFacts
  <2> QED
    BY <1>1, <1>2, <1>5, <2>1, EarlierFacts
<1>7. ASSUME NEW t,
             \A d \in {"next", "serialInit", "doStopSession"} : Has(t, d, id) => Has(s, d, id),
             \A d \in {"next", "serialInit"} : Once(s, d, id) => Once(t, d, id)
      PROVE  HelperSound(t, id, q)
  <2>1. Beginning(t, id, q)
    BY <1>1, <1>2, <1>3, <1>4, <1>5, <1>7 DEF HelperSound, Beginning
  <2>2. Opening(t, id, q)
    BY <1>1, <1>2, <1>5, <1>7 DEF HelperSound, Opening, InitDue
  <2>3. Asking(t, id, q)
    BY <1>2, <1>5, <1>6, <1>7 DEF Asking
  <2>4. Stopping(t, id, q)
    BY <1>2, <1>3, <1>4, <1>5, <1>7 DEF HelperSound, Stopping
  <2>5. Reporting(t, id, q)
    BY <1>1, <1>2, <1>4, <1>5 DEF Reporting
  <2> QED
    BY <2>1, <2>2, <2>3, <2>4, <2>5 DEF HelperSound
<1>8. CASE EnqueueOperation(Result(m, Nothing)) = Result(q, Nothing)
  <2>1. HelperSound(s, id, q) /\ q.at # "none"
    BY <1>2, <1>4, <1>5, <1>7
  <2> QED
    BY <1>8, <2>1, NoneIsSound DEF m
<1>9. CASE EnqueueOperation(Result(m, Nothing)) = Result(q, Append(Nothing, "processQueue"))
  <2>1. ASSUME NEW t \in Seq(Entries), GainsOne(s, t, id, "processQueue") PROVE HelperSound(t, id, q)
    <3>1. /\ \A d \in {"next", "serialInit", "doStopSession"} : Has(t, d, id) => Has(s, d, id)
          /\ \A d \in {"next", "serialInit"} : Once(s, d, id) => Once(t, d, id)
      BY <2>1 DEF GainsOne
    <3> QED
      BY <1>7, <3>1
  <2>2. "processQueue" \in Does /\ q.at # "none"
    BY <1>2, <1>4, <1>5 DEF Does
  <2> QED
    BY <1>9, <2>1, <2>2, OneIsSound DEF m
<1>10. CASE /\ EnqueueOperation(Result(m, Nothing)) = Result(Reported(q, "error"), Append(Nothing, "processQueue"))
            /\ q.session = "Running"
  <2> DEFINE y == Reported(q, "error")
  <2>1. /\ y \in Probes /\ y.at = "Finished" /\ AllErrors(y.reports) /\ y.reports # <<"ok">>
        /\ y.init = "none" /\ y.session = "Running"
    BY <1>1, <1>2, <1>5, <1>10, ErrorReported
  <2> HIDE DEF y
  <2>2. ASSUME NEW t \in Seq(Entries), GainsOne(s, t, id, "processQueue") PROVE HelperSound(t, id, y)
    <3>1. ~Has(t, "serialInit", id)
      BY <1>1, <2>2 DEF GainsOne
    <3> QED
      BY <2>1, <3>1, FinishedIsSound
  <2>3. "processQueue" \in Does
    BY DEF Does
  <2> QED
    BY <1>10, <2>1, <2>2, <2>3, OneIsSound DEF y, m
<1> QED
  BY <1>5, <1>8, <1>9, <1>10

(* It looks for the port.                                                    *)
LEMMA Searches ==
    ASSUME NEW s \in Seq(Entries), NEW id \in Arrivals, NEW p \in Probes, HelperSound(s, id, p), NextDue(p),
           ~Has(s, "next", id), p.at = "Ready", ~p.dfu,
           NEW q \in Probes, q.at = "FindingSerialPort", q.dfu = p.dfu, q.init = p.init, q.session = p.session,
           q.error = p.error, q.operation = p.operation, q.answered = p.answered, q.reports = p.reports
    PROVE  SlotSound(s, id, Result(q, Nothing))
<1>1. p.init = "none" /\ p.operation = "none" /\ p.reports = <<>> /\ ~Has(s, "serialInit", id)
  BY Due, NextFacts
<1>2. Beginning(s, id, q)
  BY <1>1 DEF HelperSound, Beginning
<1>3. Opening(s, id, q)
  BY <1>1 DEF HelperSound, Opening
<1>4. Asking(s, id, q)
  BY <1>1, EarlierFacts DEF Asking, Queries
<1>5. Stopping(s, id, q)
  BY DEF HelperSound, Beginning, Stopping, Queries
<1>6. Reporting(s, id, q)
  BY <1>1 DEF Reporting, AllErrors
<1> QED
  BY <1>2, <1>3, <1>4, <1>5, <1>6, NoneIsSound DEF HelperSound

(* It starts the session, whose first step is posted.                        *)
LEMMA Starts ==
    ASSUME NEW s \in Seq(Entries), NEW id \in Arrivals, NEW p \in Probes, HelperSound(s, id, p), NextDue(p),
           ~Has(s, "next", id), p.at = "FindingSerialPort", ~p.dfu,
           NEW q \in Probes, q.at = "StartingRPCSession", q.dfu = p.dfu, q.init = "Ready", q.session = "Starting",
           q.error = p.error, q.operation = p.operation, q.answered = p.answered, q.reports = p.reports
    PROVE  SlotSound(s, id, Result(q, Append(Nothing, "serialInit")))
<1>1. p.init = "none" /\ p.operation = "none" /\ p.reports = <<>> /\ ~Has(s, "serialInit", id)
  BY Due, NextFacts
<1>2. ASSUME NEW t \in Seq(Entries), GainsOne(s, t, id, "serialInit") PROVE HelperSound(t, id, q)
  <2>1. /\ \A does : does # "serialInit" => (Has(t, does, id) <=> Has(s, does, id))
        /\ Once(s, "next", id) => Once(t, "next", id)
        /\ Once(t, "serialInit", id)
    BY <1>1, <1>2 DEF GainsOne
  <2>2. Beginning(t, id, q)
    BY <1>1, <2>1 DEF HelperSound, Beginning
  <2>3. Opening(t, id, q)
    BY <1>1, <2>1 DEF HelperSound, Beginning, Opening, InitDue
  <2>4. Asking(t, id, q)
    BY <1>1, <2>1, EarlierFacts DEF Asking, Queries
  <2>5. Stopping(t, id, q)
    BY <2>1 DEF HelperSound, Beginning, Stopping, Queries
  <2>6. Reporting(t, id, q)
    BY <1>1 DEF Reporting, AllErrors
  <2> QED
    BY <2>2, <2>3, <2>4, <2>5, <2>6 DEF HelperSound
<1>3. "serialInit" \in Does
  BY DEF Does
<1> QED
  BY <1>2, <1>3, OneIsSound

(* It has asked everything, and stops the session.                           *)
LEMMA Stops ==
    ASSUME NEW s \in Seq(Entries), NEW id \in Arrivals, NEW p \in Probes, HelperSound(s, id, p), NextDue(p),
           ~Has(s, "next", id), p.at \in Queries, NextState[p.at] = "StoppingRPCSession", ~p.dfu,
           NEW q \in Probes, q.at = "StoppingRPCSession", q.dfu = p.dfu, q.init = p.init, q.session = p.session,
           q.error = p.error, q.operation = p.operation, q.answered = p.answered, q.reports = p.reports
    PROVE  SlotSound(s, id, StopSession(Result(q, Nothing)))
<1>1. /\ p.init = "none" /\ p.session # "Starting" /\ p.operation = "none" /\ p.reports = <<>>
      /\ ~Has(s, "serialInit", id) /\ Earlier["StoppingRPCSession"] \subseteq q.answered
  BY Due, NextFacts
<1>2. StopSession(Result(q, Nothing)) = IF IsUp(q) THEN Result(q, Append(Nothing, "doStopSession")) ELSE Result(q, Nothing)
  BY ResultParts, PostPart DEF StopSession
<1>3. ASSUME NEW t,
             \A d \in {"next", "serialInit"} : Has(t, d, id) => Has(s, d, id),
             \A d \in {"next", "serialInit"} : Once(s, d, id) => Once(t, d, id),
             StopsLast(s, id) => StopsLast(t, id)
      PROVE  HelperSound(t, id, q)
  <2>1. p.at \notin {"none", "Ready", "FindingSerialPort", "StartingRPCSession", "StoppingRPCSession", "Finished", "gone"}
    BY DEF Queries
  <2>2. Beginning(t, id, q)
    BY <1>1, <1>3, <2>1 DEF HelperSound, Beginning
  <2>3. Opening(t, id, q)
    BY <1>1, <1>3 DEF HelperSound, Opening
  <2>4. Asking(t, id, q)
    BY <1>1, <1>3 DEF Asking
  <2>5. Stopping(t, id, q)
    BY <1>1, <1>3 DEF HelperSound, Stopping
  <2>6. Reporting(t, id, q)
    BY <1>1 DEF Reporting, AllErrors
  <2> QED
    BY <2>2, <2>3, <2>4, <2>5, <2>6 DEF HelperSound
<1>4. CASE IsUp(q)
  <2>1. ASSUME NEW t \in Seq(Entries), GainsOne(s, t, id, "doStopSession") PROVE HelperSound(t, id, q)
    <3>1. /\ \A d \in {"next", "serialInit"} : Has(t, d, id) => Has(s, d, id)
          /\ \A d \in {"next", "serialInit"} : Once(s, d, id) => Once(t, d, id)
          /\ StopsLast(s, id) => StopsLast(t, id)
      BY <2>1 DEF GainsOne
    <3> QED
      BY <1>3, <3>1
  <2>2. "doStopSession" \in Does
    BY DEF Does
  <2> QED
    BY <1>2, <1>4, <2>1, <2>2, OneIsSound
<1>5. CASE ~IsUp(q)
  BY <1>2, <1>3, <1>5, NoneIsSound
<1> QED
  BY <1>4, <1>5

(* nextStateLogic() of a helper for an online device, by the state it enters.*)
LEMMA OnlineLogic ==
    ASSUME NEW r, NEW s, NEW n, r.p.at \in DOMAIN NextState, ~r.p.dfu, n = NextState[r.p.at],
           s = [r EXCEPT !.p.at = NextState[r.p.at]], s.p.at = n
    PROVE  /\ n = "FindingSerialPort" => NextStateLogic(r) = {[s EXCEPT !.p.tries = NumTries]}
           /\ n = "StartingRPCSession" => NextStateLogic(r) = StartSession(s)
           /\ n \in Queries => NextStateLogic(r) = {EnqueueOperation(s)}
           /\ n = "StoppingRPCSession" => NextStateLogic(r) = {StopSession(s)}
<1>1. NextStateLogic(r) =
          CASE n = "FindingSerialPort" -> {[s EXCEPT !.p.tries = NumTries]}
            [] n = "StartingRPCSession" -> StartSession(s)
            [] n \in Queries -> {EnqueueOperation(s)}
            [] n = "StoppingRPCSession" -> {StopSession(s)}
  BY DEF NextStateLogic
<1>2. n \in Queries => n \notin {"FindingSerialPort", "StartingRPCSession", "StoppingRPCSession"}
  BY DEF Queries
<1>3. n = "FindingSerialPort" => NextStateLogic(r) = {[s EXCEPT !.p.tries = NumTries]}
  BY <1>1, <1>2
<1>4. n = "StartingRPCSession" => NextStateLogic(r) = StartSession(s)
  BY <1>1, <1>2
<1>5. n \in Queries => NextStateLogic(r) = {EnqueueOperation(s)}
  BY <1>1, <1>2
<1>6. n = "StoppingRPCSession" => NextStateLogic(r) = {StopSession(s)}
  BY <1>1, <1>2
<1> QED
  BY <1>3, <1>4, <1>5, <1>6

(* nextStateLogic(), by cases.                                               *)
LEMMA NextForms ==
    ASSUME NEW p \in Probes, NEW r \in NextStateLogic(Slot(p))
    PROVE  \/ p.at \notin DOMAIN NextState /\ r = Result(p, Nothing)
           \/ /\ p.at \in DOMAIN NextState /\ p.dfu
              /\ r = Result(Reported(p, "ok"), Nothing) \/ r = Result(Reported(p, "error"), Nothing)
           \/ /\ p.at = "Ready" /\ ~p.dfu
              /\ r = Result([[p EXCEPT !.at = "FindingSerialPort"] EXCEPT !.tries = NumTries], Nothing)
           \/ /\ p.at = "FindingSerialPort" /\ ~p.dfu
              /\ LET m == [p EXCEPT !.at = "StartingRPCSession"] IN
                 \/ r = Result([m EXCEPT !.session = "Starting", !.init = "Ready", !.tries = RetryCount], Nothing)
                 \/ r = PluginFails(Result(m, Nothing))
           \/ /\ p.at \in DOMAIN NextState /\ ~p.dfu /\ NextState[p.at] \in Queries
              /\ p.at \notin {"Ready", "FindingSerialPort"}
              /\ r = EnqueueOperation(Result([p EXCEPT !.at = NextState[p.at]], Nothing))
           \/ /\ p.at \in Queries /\ ~p.dfu /\ NextState[p.at] = "StoppingRPCSession"
              /\ r = StopSession(Result([p EXCEPT !.at = NextState[p.at]], Nothing))
<1> DEFINE n == NextState[p.at]
           m == [p EXCEPT !.at = n]
           x == Result(m, Nothing)
<1>1. /\ Slot(p) = Result(p, Nothing) /\ Slot(p).p = p
      /\ [Slot(p) EXCEPT !.p.at = n] = x /\ x.p = m
  BY FreshSlot, ResultParts, AtPart
<1>2. Finish(Slot(p), "ok") = Result(Reported(p, "ok"), Nothing) /\ Finish(Slot(p), "error") = Result(Reported(p, "error"), Nothing)
  <2>1. \A report : Finish(Result(p, Nothing), report) = Result(Reported(p, report), Nothing)
    BY SlotParts
  <2> QED
    BY <1>1, <2>1
<1>3. m.at = n
  BY DEF Probes
<1>4. ASSUME p.at \in DOMAIN NextState, ~p.dfu
      PROVE  /\ n = "FindingSerialPort" => NextStateLogic(Slot(p)) = {[x EXCEPT !.p.tries = NumTries]}
             /\ n = "StartingRPCSession" => NextStateLogic(Slot(p)) = StartSession(x)
             /\ n \in Queries => NextStateLogic(Slot(p)) = {EnqueueOperation(x)}
             /\ n = "StoppingRPCSession" => NextStateLogic(Slot(p)) = {StopSession(x)}
  <2> DEFINE f == Slot(p)
  <2>1. f.p.at \in DOMAIN NextState /\ ~f.p.dfu /\ n = NextState[f.p.at] /\ x = [f EXCEPT !.p.at = NextState[f.p.at]]
    BY <1>1, <1>4
  <2>2. x.p.at = n
    BY <1>1, <1>3
  <2> HIDE DEF x, n, f
  <2> QED
    BY <2>1, <2>2, OnlineLogic DEF f
<1>0. p.at \notin DOMAIN NextState => NextStateLogic(Slot(p)) = {Slot(p)}
  BY <1>1 DEF NextStateLogic
<1>5. CASE p.at \notin DOMAIN NextState
  BY <1>0, <1>1, <1>5
<1>6. CASE p.at \in DOMAIN NextState /\ p.dfu
  <2>1. NextStateLogic(Slot(p)) = {Finish(Slot(p), "ok"), Finish(Slot(p), "error")}
    BY <1>1, <1>6 DEF NextStateLogic
  <2> QED
    BY <1>2, <1>6, <2>1
<1>7. CASE p.at = "Ready" /\ ~p.dfu
  <2>1. n = "FindingSerialPort" /\ p.at \in DOMAIN NextState
    BY <1>7, NextFacts
  <2>2. [x EXCEPT !.p.tries = NumTries] = Result([m EXCEPT !.tries = NumTries], Nothing)
    BY TriesPart
  <2>3. n \notin Queries
    BY <2>1 DEF Queries
  <2> HIDE DEF x, m
  <2>4. NextStateLogic(Slot(p)) = {[x EXCEPT !.p.tries = NumTries]}
    BY <1>4, <1>7, <2>1, <2>3
  <2> QED
    BY <1>7, <2>1, <2>2, <2>4 DEF x, m
<1>8. CASE p.at = "FindingSerialPort" /\ ~p.dfu
  <2>1. n = "StartingRPCSession" /\ p.at \in DOMAIN NextState
    BY <1>8, NextFacts
  <2>2. StartSession(x) =
            {Result([m EXCEPT !.session = "Starting", !.init = "Ready", !.tries = RetryCount], Nothing), PluginFails(x)}
    BY Started
  <2>3. n \notin Queries
    BY <2>1 DEF Queries
  <2> HIDE DEF x, m
  <2>4. NextStateLogic(Slot(p)) = StartSession(x)
    BY <1>4, <1>8, <2>1, <2>3
  <2> QED
    BY <1>8, <2>1, <2>2, <2>4 DEF x, m
<1>9. CASE p.at \in {"StartingRPCSession"} \cup Queries /\ ~p.dfu
  <2>1. p.at \in DOMAIN NextState /\ (n \in Queries \/ (n = "StoppingRPCSession" /\ p.at \in Queries))
    BY <1>9, NextFacts DEF Queries
  <2>2. n \notin {"FindingSerialPort", "StartingRPCSession"} /\ (n \in Queries => n # "StoppingRPCSession")
    BY <2>1 DEF Queries
  <2>3. p.at \notin {"Ready", "FindingSerialPort"}
    BY <1>9 DEF Queries
  <2> HIDE DEF x, m, n
  <2>4. NextStateLogic(Slot(p)) = IF n \in Queries THEN {EnqueueOperation(x)} ELSE {StopSession(x)}
    BY <1>4, <1>9, <2>1
  <2> QED
    BY <1>9, <2>1, <2>3, <2>4 DEF x, m, n
<1> QED
  BY <1>5, <1>6, <1>7, <1>8, <1>9, NextFacts

(* The plugin cannot be loaded.                                              *)
LEMMA PluginFailed ==
    ASSUME NEW m \in Probes, NEW posts
    PROVE  \E q \in Probes :
              /\ q.at = m.at /\ q.init = m.init /\ q.session = m.session /\ q.reports = m.reports
              /\ PluginFails(Result(m, posts)) = Result(Reported(q, "error"), posts)
<1> DEFINE q == [m EXCEPT !.error = TRUE]
<1>1. /\ q \in Probes /\ q.at = m.at /\ q.init = m.init /\ q.session = m.session /\ q.reports = m.reports
      /\ q.error
  BY DEF Probes
<1>2. [Result(m, posts) EXCEPT !.p.error = TRUE] = Result(q, posts)
  BY ErrorPart
<1> HIDE DEF q
<1>3. OnSessionStatusChanged(Result(q, posts)) = Result(Reported(q, "error"), posts)
  BY <1>1, StatusChanged
<1> QED
  BY <1>1, <1>2, <1>3 DEF PluginFails

(* An operation that is queued does not touch the SerialInitHelper.          *)
LEMMA EnqueueKeepsInit ==
    ASSUME NEW m \in Probes, m.at \in Queries
    PROVE  EnqueueOperation(Result(m, Nothing)).p.init = m.init
<1>1. PICK q \in Probes :
          /\ q.init = m.init
          /\ \/ EnqueueOperation(Result(m, Nothing)) = Result(q, Nothing)
             \/ EnqueueOperation(Result(m, Nothing)) =
                      Result(IF m.error THEN Reported(q, "error") ELSE q, Append(Nothing, "processQueue"))
  BY Enqueued
<1>2. Reported(q, "error").init = q.init
  BY DEF Reported, Probes
<1> QED
  BY <1>1, <1>2, ResultParts

(* The next step of a helper keeps it sound.                                 *)
LEMMA NextSound ==
    ASSUME NEW s \in Seq(Entries), NEW id \in Arrivals, NEW p \in Probes, p.at \notin {"none", "gone"},
           HelperSound(s, id, p), NextDue(p), p.at # "Finished" => ~Has(s, "next", id),
           NEW r \in NextStateLogic(Slot(p))
    PROVE  SlotSound(s, id, Begins(r))
<1>0. r.p.init # "Ready" => Begins(r) = r
  BY DEF Begins
<1>1. CASE p.at \notin DOMAIN NextState /\ r = Result(p, Nothing)
  <2>1. p.init = "none"
    BY <1>1, NextFacts DEF HelperSound, Opening
  <2>2. r.p.init = "none"
    BY <1>1, <2>1, ResultParts
  <2> QED
    BY <1>0, <1>1, <2>2, NoneIsSound
<1>2. ASSUME p.at \in DOMAIN NextState
      PROVE  /\ p.init = "none" /\ p.session # "Starting" /\ p.operation = "none" /\ p.reports = <<>>
             /\ ~Has(s, "serialInit", id) /\ AllErrors(p.reports)
             /\ ~Has(s, "next", id)
  <2>1. p.at # "Finished"
    BY <1>2, NextFacts DEF Queries
  <2> QED
    BY <1>2, <2>1, Due
<1>3. ASSUME NEW q \in Probes, q.at = "Finished", q.init = "none", q.session # "Starting", ~Has(s, "serialInit", id),
             (q.reports # <<"ok">> /\ AllErrors(q.reports)) \/ ReportedWell(s, id, q),
             r = Result(q, Nothing)
      PROVE  SlotSound(s, id, Begins(r))
  <2>1. HelperSound(s, id, q)
    BY <1>3, FinishedIsSound
  <2>2. r.p.init = "none"
    BY <1>3, ResultParts
  <2> QED
    BY <1>0, <1>3, <2>1, <2>2, NoneIsSound
<1>4. CASE /\ p.at \in DOMAIN NextState /\ p.dfu
           /\ r = Result(Reported(p, "ok"), Nothing) \/ r = Result(Reported(p, "error"), Nothing)
  <2>1. CASE r = Result(Reported(p, "error"), Nothing)
    BY <1>2, <1>3, <1>4, <2>1, ErrorReported
  <2>2. CASE r = Result(Reported(p, "ok"), Nothing)
    <3> DEFINE q == Reported(p, "ok")
    <3>1. q \in Probes /\ q.at = "Finished" /\ q.reports = <<"ok">>
      BY <1>2, <1>4, SlotParts
    <3>2. /\ q.init = p.init /\ q.session = p.session /\ q.error = p.error /\ q.operation = p.operation
          /\ q.dfu = p.dfu
      BY DEF Reported, Probes
    <3>3. p.session = "Stopped" /\ ~p.error /\ ~Has(s, "processQueue", id)
      BY <1>4, NextFacts DEF HelperSound, Beginning, Queries
    <3> HIDE DEF q
    <3>4. ReportedWell(s, id, q)
      BY <1>2, <1>4, <3>1, <3>2, <3>3 DEF ReportedWell
    <3> QED
      BY <1>2, <1>3, <1>4, <2>2, <3>1, <3>2, <3>4 DEF q
  <2> QED
    BY <1>4, <2>1, <2>2
<1>5. CASE /\ p.at = "Ready" /\ ~p.dfu
           /\ r = Result([[p EXCEPT !.at = "FindingSerialPort"] EXCEPT !.tries = NumTries], Nothing)
  <2> DEFINE q == [[p EXCEPT !.at = "FindingSerialPort"] EXCEPT !.tries = NumTries]
  <2>1. /\ q \in Probes /\ q.at = "FindingSerialPort" /\ q.dfu = p.dfu /\ q.init = p.init /\ q.session = p.session
        /\ q.error = p.error /\ q.operation = p.operation /\ q.answered = p.answered /\ q.reports = p.reports
    BY CountsAreNumbers DEF Probes, Places
  <2> HIDE DEF q
  <2>2. r = Result(q, Nothing)
    BY <1>5 DEF q
  <2>3. p.at \in DOMAIN NextState
    BY <1>5, NextFacts
  <2>4. SlotSound(s, id, r)
    BY <1>2, <1>5, <2>1, <2>2, <2>3, Searches
  <2>5. r.p.init = "none"
    BY <1>2, <2>1, <2>2, <2>3, ResultParts
  <2> QED
    BY <1>0, <2>4, <2>5
<1>6. CASE p.at = "FindingSerialPort" /\ ~p.dfu
  <2> DEFINE starting == "StartingRPCSession"
             m == [p EXCEPT !.at = starting]
  <2>0. starting \in Places
    BY DEF Places
  <2>1. /\ m \in Probes /\ m.at = "StartingRPCSession" /\ m.dfu = p.dfu /\ m.init = p.init /\ m.session = p.session
        /\ m.error = p.error /\ m.operation = p.operation /\ m.answered = p.answered /\ m.reports = p.reports
    <3> HIDE DEF starting
    <3>1. /\ m \in Probes /\ m.at = starting /\ m.dfu = p.dfu /\ m.init = p.init /\ m.session = p.session
          /\ m.error = p.error /\ m.operation = p.operation /\ m.answered = p.answered /\ m.reports = p.reports
      BY <2>0, Moves
    <3> QED
      BY <3>1 DEF starting
  <2>2. p.at \in DOMAIN NextState
    BY <1>6, NextFacts
  <2>3. \/ r = Result([m EXCEPT !.session = "Starting", !.init = "Ready", !.tries = RetryCount], Nothing)
        \/ r = PluginFails(Result(m, Nothing))
    BY <1>6, <2>2, NextForms, NextFacts DEF Queries
  <2> HIDE DEF m
  <2>4. CASE r = Result([m EXCEPT !.session = "Starting", !.init = "Ready", !.tries = RetryCount], Nothing)
    <3> DEFINE q == [m EXCEPT !.session = "Starting", !.init = "Ready", !.tries = RetryCount]
    <3>1. /\ q \in Probes /\ q.at = "StartingRPCSession" /\ q.dfu = p.dfu /\ q.init = "Ready" /\ q.session = "Starting"
          /\ q.error = p.error /\ q.operation = p.operation /\ q.answered = p.answered /\ q.reports = p.reports
      BY <2>1, CountsAreNumbers DEF Probes, SessionStates
    <3> HIDE DEF q
    <3>2. r = Result(q, Nothing)
      BY <2>4 DEF q
    <3>3. Begins(r) = Post(r, "serialInit")
      BY <3>1, <3>2, ResultParts DEF Begins
    <3>4. Begins(r) = Result(q, Append(Nothing, "serialInit"))
      BY <3>2, <3>3, PostPart
    <3> QED
      BY <1>2, <1>6, <2>2, <3>1, <3>4, Starts
  <2>5. CASE r = PluginFails(Result(m, Nothing))
    <3>1. PICK q \in Probes :
              /\ q.at = m.at /\ q.init = m.init /\ q.session = m.session /\ q.reports = m.reports
              /\ PluginFails(Result(m, Nothing)) = Result(Reported(q, "error"), Nothing)
      BY <2>1, PluginFailed
    <3>2. AllErrors(q.reports) /\ q.init = "none" /\ q.session # "Starting"
      BY <1>2, <2>1, <2>2, <3>1
    <3> QED
      BY <1>2, <1>3, <2>2, <2>5, <3>1, <3>2, ErrorReported
  <2> QED
    BY <2>3, <2>4, <2>5
<1>7. CASE /\ p.at \in DOMAIN NextState /\ ~p.dfu /\ NextState[p.at] \in Queries
           /\ p.at \notin {"Ready", "FindingSerialPort"}
           /\ r = EnqueueOperation(Result([p EXCEPT !.at = NextState[p.at]], Nothing))
  <2> DEFINE at == NextState[p.at]
             m == [p EXCEPT !.at = at]
  <2>1. at \in Queries /\ at \in Places
    BY <1>7 DEF Places
  <2>2. SlotSound(s, id, r)
    BY <1>2, <1>7, Asks
  <2>3. m \in Probes /\ m.at = at /\ m.init = p.init
    BY <2>1, Moves
  <2> HIDE DEF m, at
  <2>4. r.p.init = "none"
    BY <1>2, <1>7, <2>1, <2>3, EnqueueKeepsInit DEF m, at
  <2> QED
    BY <1>0, <2>2, <2>4
<1>8. CASE /\ p.at \in Queries /\ ~p.dfu /\ NextState[p.at] = "StoppingRPCSession"
           /\ r = StopSession(Result([p EXCEPT !.at = NextState[p.at]], Nothing))
  <2> DEFINE at == NextState[p.at]
             q == [p EXCEPT !.at = at]
  <2>1. at = "StoppingRPCSession" /\ at \in Places
    BY <1>8 DEF Places
  <2>2. p.at \in DOMAIN NextState
    BY <1>8, NextFacts
  <2> HIDE DEF at
  <2>3. /\ q \in Probes /\ q.at = at /\ q.dfu = p.dfu /\ q.init = p.init /\ q.session = p.session
        /\ q.error = p.error /\ q.operation = p.operation /\ q.answered = p.answered /\ q.reports = p.reports
    <3>1. at \in Places
      BY <2>1
    <3> QED
      BY <3>1, Moves
  <2> HIDE DEF q
  <2>4. r = StopSession(Result(q, Nothing))
    BY <1>8 DEF q, at
  <2>5. SlotSound(s, id, r)
    BY <1>2, <1>8, <2>1, <2>2, <2>3, <2>4, Stops
  <2>6. r.p.init = "none"
    BY <1>2, <2>2, <2>3, <2>4, ResultParts, PostPart DEF StopSession
  <2> QED
    BY <1>0, <2>5, <2>6
<1> QED
  BY <1>1, <1>4, <1>5, <1>6, <1>7, <1>8, NextForms

-----------------------------------------------------------------------------
(* The session of a helper                                                   *)

(* What the invariant says of a helper whose operation is queued or runs.    *)
LEMMA Asked ==
    ASSUME NEW s, NEW id, NEW p \in Probes, HelperSound(s, id, p), p.operation # "none"
    PROVE  /\ p.at \in Queries \cup {"Finished"}
           /\ p.init = "none" /\ p.session # "Starting" /\ ~Has(s, "serialInit", id)
           /\ p.reports # <<"ok">> /\ AllErrors(p.reports)
           /\ p.at # "Finished" => ~Has(s, "next", id) /\ p.reports = <<>> /\ ~p.dfu
<1>1. p.at \in Queries \cup {"Finished"}
  BY DEF HelperSound, Asking, Reporting
<1>2. p.at \notin {"none", "Ready", "FindingSerialPort", "StartingRPCSession", "StoppingRPCSession", "gone"}
  BY <1>1 DEF Queries
<1>3. p.init = "none" /\ p.session # "Starting"
  BY <1>2 DEF HelperSound, Opening
<1>4. ~Has(s, "serialInit", id)
  BY <1>3 DEF HelperSound, Opening, InitDue
<1>5. p.at # "Finished" => ~Has(s, "next", id) /\ p.reports = <<>> /\ ~p.dfu
  BY <1>1, <1>2 DEF HelperSound, Asking, NextDue, Beginning
<1>6. AllErrors(p.reports) => p.reports # <<"ok">>
  BY DEF AllErrors
<1>7. AllErrors(p.reports)
  <2>1. AllErrors(<<>>)
    BY DEF AllErrors
  <2> QED
    BY <1>5, <2>1 DEF HelperSound, Reporting
<1> QED
  BY <1>1, <1>3, <1>4, <1>5, <1>6, <1>7

(* processQueue() begins what is queued, or finds that it cannot be sent.    *)
LEMMA QueueForms ==
    ASSUME NEW p \in Probes, NEW r \in ProcessQueue(Slot(p))
    PROVE  \/ /\ p.operation = "queued"
              /\ \E q \in Probes :
                    /\ q.at = p.at /\ q.dfu = p.dfu /\ q.init = p.init /\ q.session = p.session
                    /\ q.lost = p.lost /\ q.operation = "running" /\ q.answered = p.answered /\ q.reports = p.reports
                    /\ \/ q.error = p.error /\ r = Result(q, Nothing)
                       \/ q.error /\ (r = Result(q, Nothing) \/ r = Result(q, Append(Nothing, "doStopSession")))
           \/ p.operation # "queued" /\ r = SetSessionState(Result(p, Nothing), "Idle")
<1>1. Slot(p) = Result(p, Nothing) /\ Slot(p).p = p
  BY FreshSlot, ResultParts
<1>2. CASE p.operation # "queued"
  BY <1>1, <1>2 DEF ProcessQueue
<1>3. CASE p.operation = "queued"
  <2> DEFINE v == "running"
             q == [p EXCEPT !.operation = v]
             w == TRUE
             x == [q EXCEPT !.error = w]
  <2>1. /\ q \in Probes /\ q.at = p.at /\ q.dfu = p.dfu /\ q.init = p.init /\ q.session = p.session
        /\ q.lost = p.lost /\ q.operation = "running" /\ q.answered = p.answered /\ q.reports = p.reports
        /\ q.error = p.error
    BY DEF Probes
  <2>2. /\ x \in Probes /\ x.at = p.at /\ x.dfu = p.dfu /\ x.init = p.init /\ x.session = p.session
        /\ x.lost = p.lost /\ x.operation = "running" /\ x.answered = p.answered /\ x.reports = p.reports
        /\ x.error
    BY DEF Probes
  <2> DEFINE f == Slot(p)
  <2>3. r \in {[f EXCEPT !.p.operation = v], StopSession([[f EXCEPT !.p.operation = v] EXCEPT !.p.error = w])}
    BY <1>1, <1>3 DEF ProcessQueue
  <2>4. f = Result(p, Nothing)
    BY <1>1
  <2> HIDE DEF f, v, w
  <2>5. [f EXCEPT !.p.operation = v] = Result(q, Nothing)
    BY <2>4, OperationPart
  <2> HIDE DEF q
  <2>6. [Result(q, Nothing) EXCEPT !.p.error = w] = Result(x, Nothing)
    BY ErrorPart
  <2> HIDE DEF x
  <2>7. StopSession(Result(x, Nothing)) = Result(x, Nothing)
        \/ StopSession(Result(x, Nothing)) = Result(x, Append(Nothing, "doStopSession"))
    BY ResultParts, PostPart DEF StopSession
  <2> QED
    <3>1. r = Result(q, Nothing) \/ r = Result(x, Nothing) \/ r = Result(x, Append(Nothing, "doStopSession"))
      BY <2>3, <2>5, <2>6, <2>7
    <3>2. CASE r = Result(q, Nothing)
      BY <1>3, <2>1, <3>2
    <3>3. CASE r = Result(x, Nothing) \/ r = Result(x, Append(Nothing, "doStopSession"))
      BY <1>3, <2>2, <3>3
    <3> QED
      BY <3>1, <3>2, <3>3
<1> QED
  BY <1>2, <1>3

(* The state of the session is set to Idle, which may begin the first query. *)
LEMMA IdleForms ==
    ASSUME NEW p \in Probes, NEW posts
    PROVE  \/ p.session = "Idle" /\ SetSessionState(Result(p, posts), "Idle") = Result(p, posts)
           \/ /\ p.session # "Idle"
              /\ \E q \in Probes :
                    /\ q.at = p.at /\ q.dfu = p.dfu /\ q.init = p.init /\ q.session = "Idle" /\ q.error = p.error
                    /\ q.lost = p.lost /\ q.operation = p.operation /\ q.answered = p.answered /\ q.reports = p.reports
                    /\ SetSessionState(Result(p, posts), "Idle") =
                          IF p.error THEN Result(Reported(q, "error"), posts)
                          ELSE IF p.at = "StartingRPCSession" THEN Result(q, Append(posts, "next"))
                          ELSE Result(q, posts)
<1> DEFINE v == "Idle"
           q == [p EXCEPT !.session = v]
<1>1. v = "Idle" /\ v \in SessionStates
  BY DEF SessionStates
<1> HIDE DEF v
<1>2. SetSessionState(Result(p, posts), v) =
          IF p.session = v THEN Result(p, posts) ELSE OnSessionStatusChanged(Result(q, posts))
  BY StateSet
<1>3. /\ q \in Probes /\ q.session = v /\ q.at = p.at /\ q.dfu = p.dfu
      /\ q.init = p.init /\ q.error = p.error /\ q.lost = p.lost /\ q.operation = p.operation
      /\ q.answered = p.answered /\ q.reports = p.reports
  BY <1>1, StateOnly
<1> HIDE DEF q
<1>4. IsUp(q) /\ q.error \in BOOLEAN
  BY <1>1, <1>3 DEF IsUp, Probes
<1>5. OnSessionStatusChanged(Result(q, posts)) =
          IF p.error THEN Result(Reported(q, "error"), posts)
          ELSE IF p.at = "StartingRPCSession" THEN Result(q, Append(posts, "next"))
          ELSE Result(q, posts)
  BY <1>3, <1>4, StatusChanged
<1> QED
  BY <1>1, <1>2, <1>3, <1>5

(* The session is stopped, which ends its helper when it is the last step.   *)
LEMMA StoppedForms ==
    ASSUME NEW p \in Probes, NEW posts
    PROVE  \/ p.session = "Stopped" /\ SetSessionState(Result(p, posts), "Stopped") = Result(p, posts)
           \/ /\ p.session # "Stopped"
              /\ \E q \in Probes :
                    /\ q.at = p.at /\ q.dfu = p.dfu /\ q.init = p.init /\ q.session = "Stopped" /\ q.error = p.error
                    /\ q.lost = p.lost /\ q.operation = p.operation /\ q.answered = p.answered /\ q.reports = p.reports
                    /\ SetSessionState(Result(p, posts), "Stopped") =
                          IF p.error THEN Result(Reported(q, "error"), posts)
                          ELSE IF p.at = "StoppingRPCSession" THEN Result(Reported(q, "ok"), posts)
                          ELSE Result(q, posts)
<1> DEFINE v == "Stopped"
           q == [p EXCEPT !.session = v]
<1>1. v = "Stopped" /\ v \in SessionStates
  BY DEF SessionStates
<1> HIDE DEF v
<1>2. SetSessionState(Result(p, posts), v) =
          IF p.session = v THEN Result(p, posts) ELSE OnSessionStatusChanged(Result(q, posts))
  BY StateSet
<1>3. /\ q \in Probes /\ q.session = v /\ q.at = p.at /\ q.dfu = p.dfu
      /\ q.init = p.init /\ q.error = p.error /\ q.lost = p.lost /\ q.operation = p.operation
      /\ q.answered = p.answered /\ q.reports = p.reports
  BY <1>1, StateOnly
<1> HIDE DEF q
<1>4. ~IsUp(q) /\ q.error \in BOOLEAN
  BY <1>1, <1>3 DEF IsUp, Probes
<1>5. OnSessionStatusChanged(Result(q, posts)) =
          IF p.error THEN Result(Reported(q, "error"), posts)
          ELSE IF p.at = "StoppingRPCSession" THEN Result(Reported(q, "ok"), posts)
          ELSE Result(q, posts)
  BY <1>3, <1>4, StatusChanged
<1> QED
  BY <1>1, <1>2, <1>3, <1>5

(* processQueue() keeps the helper sound.                                    *)
LEMMA QueueSound ==
    ASSUME NEW s \in Seq(Entries), NEW id \in Arrivals, NEW p \in Probes, HelperSound(s, id, p),
           p.at \in Queries \cup {"StoppingRPCSession", "Finished"}, p.reports # <<"ok">>,
           NEW r \in ProcessQueue(Slot(p))
    PROVE  SlotSound(s, id, r)
<1>0. p.at \notin {"none", "Ready", "FindingSerialPort", "StartingRPCSession", "gone"}
  BY DEF Queries
<1>1. CASE p.operation = "queued"
  <2>1. PICK q \in Probes :
            /\ q.at = p.at /\ q.dfu = p.dfu /\ q.init = p.init /\ q.session = p.session
            /\ q.lost = p.lost /\ q.operation = "running" /\ q.answered = p.answered /\ q.reports = p.reports
            /\ \/ q.error = p.error /\ r = Result(q, Nothing)
               \/ q.error /\ (r = Result(q, Nothing) \/ r = Result(q, Append(Nothing, "doStopSession")))
    BY <1>1, QueueForms
  <2>2. /\ p.at \in Queries \cup {"Finished"}
        /\ p.init = "none" /\ p.session # "Starting" /\ ~Has(s, "serialInit", id)
        /\ p.reports # <<"ok">> /\ AllErrors(p.reports)
        /\ p.at # "Finished" => ~Has(s, "next", id) /\ p.reports = <<>> /\ ~p.dfu
    BY <1>1, Asked
  <2>3. ASSUME NEW t, \A d \in {"next", "serialInit"} : Has(t, d, id) => Has(s, d, id),
               \A d \in {"next", "serialInit"} : Once(s, d, id) => Once(t, d, id),
               q.error \/ (Has(t, "doStopSession", id) => Has(s, "doStopSession", id)),
               q.error \/ q.error = p.error
        PROVE  HelperSound(t, id, q)
    <3>1. Beginning(t, id, q)
      BY <1>0, <2>1, <2>2, <2>3 DEF HelperSound, Beginning
    <3>2. Opening(t, id, q)
      BY <2>1, <2>2, <2>3 DEF HelperSound, Opening
    <3>3. Asking(t, id, q)
      BY <1>0, <2>1, <2>2, <2>3, EarlierFacts DEF HelperSound, Asking, NextDue, Queries
    <3>4. Stopping(t, id, q)
      BY <1>0, <2>1, <2>3 DEF HelperSound, Stopping
    <3>5. Reporting(t, id, q)
      BY <1>0, <2>1, <2>2 DEF Reporting
    <3> QED
      BY <3>1, <3>2, <3>3, <3>4, <3>5 DEF HelperSound
  <2>4. CASE r = Result(q, Nothing)
    <3>1. HelperSound(s, id, q) /\ q.at # "none"
      BY <1>0, <2>1, <2>3
    <3> QED
      BY <2>4, <3>1, NoneIsSound
  <2>5. CASE q.error /\ r = Result(q, Append(Nothing, "doStopSession"))
    <3>1. ASSUME NEW t \in Seq(Entries), GainsOne(s, t, id, "doStopSession") PROVE HelperSound(t, id, q)
      <4>1. /\ \A d \in {"next", "serialInit"} : Has(t, d, id) => Has(s, d, id)
            /\ \A d \in {"next", "serialInit"} : Once(s, d, id) => Once(t, d, id)
        BY <3>1 DEF GainsOne
      <4> QED
        BY <2>3, <2>5, <4>1
    <3>2. "doStopSession" \in Does /\ q.at # "none"
      BY <1>0, <2>1 DEF Does
    <3> QED
      BY <2>5, <3>1, <3>2, OneIsSound
  <2> QED
    BY <2>1, <2>4, <2>5
<1>2. CASE p.operation # "queued"
  <2>1. r = SetSessionState(Result(p, Nothing), "Idle")
    BY <1>2, QueueForms
  <2>2. CASE p.session = "Idle"
    <3>1. r = Result(p, Nothing)
      BY <2>1, <2>2, IdleForms
    <3> QED
      BY <1>0, <3>1, NoneIsSound
  <2>3. CASE p.session # "Idle"
    <3>1. PICK q \in Probes :
              /\ q.at = p.at /\ q.dfu = p.dfu /\ q.init = p.init /\ q.session = "Idle" /\ q.error = p.error
              /\ q.lost = p.lost /\ q.operation = p.operation /\ q.answered = p.answered /\ q.reports = p.reports
              /\ SetSessionState(Result(p, Nothing), "Idle") =
                    IF p.error THEN Result(Reported(q, "error"), Nothing)
                    ELSE IF p.at = "StartingRPCSession" THEN Result(q, Append(Nothing, "next"))
                    ELSE Result(q, Nothing)
      BY <2>3, IdleForms
    <3>2. p.init = "none" /\ ~Has(s, "serialInit", id) /\ AllErrors(p.reports)
      BY <1>0 DEF HelperSound, Opening, InitDue, Reporting
    <3>3. CASE p.error
      <4> DEFINE y == Reported(q, "error")
      <4>1. /\ y \in Probes /\ y.at = "Finished" /\ AllErrors(y.reports) /\ y.reports # <<"ok">>
            /\ y.init = "none" /\ y.session = "Idle"
        BY <3>1, <3>2, ErrorReported
      <4>2. r = Result(y, Nothing)
        BY <2>1, <3>1, <3>3
      <4> HIDE DEF y
      <4>3. HelperSound(s, id, y)
        BY <3>2, <4>1, FinishedIsSound
      <4> QED
        BY <4>1, <4>2, <4>3, NoneIsSound
    <3>4. CASE ~p.error
      <4>1. r = Result(q, Nothing)
        BY <1>0, <2>1, <3>1, <3>4
      <4>2. Beginning(s, id, q)
        BY <1>0, <3>1 DEF HelperSound, Beginning
      <4>3. Opening(s, id, q)
        BY <3>1, <3>2 DEF HelperSound, Opening
      <4>4. Asking(s, id, q)
        BY <1>0, <3>1 DEF HelperSound, Asking, NextDue
      <4>5. Stopping(s, id, q)
        BY <3>1 DEF HelperSound, Stopping
      <4>6. Reporting(s, id, q)
        BY <1>0, <3>1, <3>2 DEF Reporting
      <4> QED
        BY <1>0, <3>1, <4>1, <4>2, <4>3, <4>4, <4>5, <4>6, NoneIsSound DEF HelperSound
    <3> QED
      BY <3>3, <3>4
  <2> QED
    BY <2>2, <2>3
<1> QED
  BY <1>1, <1>2

(* doStopSession() fails what runs, and stops.                               *)
LEMMA StopForms ==
    ASSUME NEW p \in Probes
    PROVE  /\ p.operation # "running" => DoStopSession(Slot(p)) = SetSessionState(Result(p, Nothing), "Stopped")
           /\ p.operation = "running" /\ AllErrors(p.reports) =>
                \E q \in Probes :
                    /\ q.at = "Finished" /\ q.init = p.init /\ q.session = p.session
                    /\ AllErrors(q.reports) /\ q.reports # <<"ok">>
                    /\ OperationFails(Slot(p)) = Result(q, Append(Nothing, "processQueue"))
                    /\ DoStopSession(Slot(p)) = SetSessionState(Result(q, Append(Nothing, "processQueue")), "Stopped")
<1>1. Slot(p) = Result(p, Nothing) /\ Slot(p).p = p
  BY FreshSlot, ResultParts
<1>2. ASSUME p.operation # "running" PROVE DoStopSession(Slot(p)) = SetSessionState(Result(p, Nothing), "Stopped")
  BY <1>1, <1>2 DEF DoStopSession
<1>3. ASSUME p.operation = "running", AllErrors(p.reports)
      PROVE  \E q \in Probes :
                /\ q.at = "Finished" /\ q.init = p.init /\ q.session = p.session
                /\ AllErrors(q.reports) /\ q.reports # <<"ok">>
                /\ OperationFails(Slot(p)) = Result(q, Append(Nothing, "processQueue"))
                /\ DoStopSession(Slot(p)) = SetSessionState(Result(q, Append(Nothing, "processQueue")), "Stopped")
  <2> DEFINE f == Slot(p)
             v == "none"
             x == [p EXCEPT !.operation = v]
             q == Reported(x, "error")
  <2>1. x \in Probes /\ x.init = p.init /\ x.session = p.session /\ x.reports = p.reports
    BY DEF Probes
  <2>2. OperationFails(f) = Post(Finish([f EXCEPT !.p.operation = v], "error"), "processQueue")
    BY DEF OperationFails
  <2>3. f = Result(p, Nothing)
    BY <1>1
  <2> HIDE DEF f, v
  <2>4. [f EXCEPT !.p.operation = v] = Result(x, Nothing)
    BY <2>3, OperationPart
  <2> HIDE DEF x
  <2>5. Finish(Result(x, Nothing), "error") = Result(q, Nothing)
    <3>1. \A report : Finish(Result(x, Nothing), report) = Result(Reported(x, report), Nothing)
      BY <2>1, SlotParts
    <3> QED
      BY <3>1
  <2>6. /\ q \in Probes /\ q.at = "Finished" /\ AllErrors(q.reports) /\ q.reports # <<"ok">>
        /\ q.init = x.init /\ q.session = x.session
    BY <1>3, <2>1, ErrorReported
  <2> HIDE DEF q
  <2>7. OperationFails(f) = Result(q, Append(Nothing, "processQueue"))
    BY <2>2, <2>4, <2>5, PostPart
  <2>8. DoStopSession(f) = SetSessionState(OperationFails(f), "Stopped")
    BY <1>1, <1>3 DEF DoStopSession, f
  <2> QED
    BY <2>1, <2>6, <2>7, <2>8 DEF f
<1> QED
  BY <1>2, <1>3

(* doStopSession() keeps the helper sound.                                   *)
LEMMA StopSound ==
    ASSUME NEW s \in Seq(Entries), NEW id \in Arrivals, NEW p \in Probes, HelperSound(s, id, p),
           p.at \in {"StartingRPCSession", "StoppingRPCSession", "Finished"} \cup Queries, p.init = "none",
           \/ /\ p.at = "StoppingRPCSession" /\ ~p.error /\ p.operation = "none"
              /\ ~Has(s, "processQueue", id)
           \/ ~(p.at = "StoppingRPCSession" /\ ~p.error /\ p.operation = "none")
    PROVE  SlotSound(s, id, DoStopSession(Slot(p)))
<1>0. p.at \notin {"none", "Ready", "FindingSerialPort", "gone"}
  BY DEF Queries
<1>1. p.session # "Starting" /\ ~Has(s, "serialInit", id)
  BY DEF HelperSound, Opening, InitDue
<1>2. ASSUME NEW q \in Probes, q.at = "Finished", q.init = "none", q.session # "Starting",
             AllErrors(q.reports), q.reports # <<"ok">>
      PROVE  SlotSound(s, id, Result(q, Nothing)) /\ SlotSound(s, id, Result(q, Append(Nothing, "processQueue")))
  <2>1. HelperSound(s, id, q)
    BY <1>1, <1>2, FinishedIsSound
  <2>2. ASSUME NEW t \in Seq(Entries), GainsOne(s, t, id, "processQueue") PROVE HelperSound(t, id, q)
    <3>1. ~Has(t, "serialInit", id)
      BY <1>1, <2>2 DEF GainsOne
    <3> QED
      BY <1>2, <3>1, FinishedIsSound
  <2>3. "processQueue" \in Does
    BY DEF Does
  <2> QED
    BY <1>2, <2>1, <2>2, <2>3, NoneIsSound, OneIsSound
<1>3. CASE p.operation = "running"
  <2>1. AllErrors(p.reports)
    BY <1>3, Asked
  <2>2. PICK q \in Probes :
            /\ q.at = "Finished" /\ q.init = p.init /\ q.session = p.session
            /\ AllErrors(q.reports) /\ q.reports # <<"ok">>
            /\ DoStopSession(Slot(p)) = SetSessionState(Result(q, Append(Nothing, "processQueue")), "Stopped")
    BY <1>3, <2>1, StopForms
  <2> DEFINE one == Append(Nothing, "processQueue")
  <2>3. CASE q.session = "Stopped"
    BY <1>1, <1>2, <2>2, <2>3, StoppedForms
  <2>4. CASE q.session # "Stopped"
    <3> HIDE DEF one
    <3>1. PICK x \in Probes :
              /\ x.at = q.at /\ x.init = q.init /\ x.session = "Stopped" /\ x.error = q.error /\ x.reports = q.reports
              /\ SetSessionState(Result(q, one), "Stopped") =
                    IF q.error THEN Result(Reported(x, "error"), one)
                    ELSE IF q.at = "StoppingRPCSession" THEN Result(Reported(x, "ok"), one)
                    ELSE Result(x, one)
      BY <2>4, StoppedForms
    <3>2. DoStopSession(Slot(p)) = Result(IF q.error THEN Reported(x, "error") ELSE x, one)
      BY <2>2, <3>1 DEF one
    <3>3. /\ Reported(x, "error") \in Probes /\ Reported(x, "error").at = "Finished"
          /\ AllErrors(Reported(x, "error").reports) /\ Reported(x, "error").reports # <<"ok">>
          /\ Reported(x, "error").init = "none" /\ Reported(x, "error").session = "Stopped"
      BY <2>2, <3>1, ErrorReported
    <3>4. CASE q.error
      BY <1>2, <3>2, <3>3, <3>4 DEF one
    <3>5. CASE ~q.error
      BY <1>2, <2>2, <3>1, <3>2, <3>5 DEF one
    <3> QED
      BY <3>4, <3>5
  <2> QED
    BY <2>3, <2>4
<1>4. CASE p.operation # "running"
  <2>1. DoStopSession(Slot(p)) = SetSessionState(Result(p, Nothing), "Stopped")
    BY <1>4, StopForms
  <2>2. CASE p.session = "Stopped"
    <3>1. DoStopSession(Slot(p)) = Result(p, Nothing)
      BY <2>1, <2>2, StoppedForms
    <3> QED
      BY <1>0, <3>1, NoneIsSound
  <2>3. CASE p.session # "Stopped"
    <3>1. PICK q \in Probes :
              /\ q.at = p.at /\ q.dfu = p.dfu /\ q.init = p.init /\ q.session = "Stopped" /\ q.error = p.error
              /\ q.lost = p.lost /\ q.operation = p.operation /\ q.answered = p.answered /\ q.reports = p.reports
              /\ SetSessionState(Result(p, Nothing), "Stopped") =
                    IF p.error THEN Result(Reported(q, "error"), Nothing)
                    ELSE IF p.at = "StoppingRPCSession" THEN Result(Reported(q, "ok"), Nothing)
                    ELSE Result(q, Nothing)
      BY <2>3, StoppedForms
    <3>2. AllErrors(p.reports)
      <4>1. AllErrors(<<>>)
        BY DEF AllErrors
      <4> QED
        BY <1>0, <2>3, <4>1 DEF HelperSound, Beginning, Reporting
    <3>3. CASE p.error
      <4> DEFINE y == Reported(q, "error")
      <4>1. /\ y \in Probes /\ y.at = "Finished" /\ AllErrors(y.reports) /\ y.reports # <<"ok">>
            /\ y.init = "none" /\ y.session = "Stopped"
        BY <3>1, <3>2, ErrorReported
      <4>2. DoStopSession(Slot(p)) = Result(y, Nothing)
        BY <2>1, <3>1, <3>3
      <4> HIDE DEF y
      <4> QED
        BY <1>2, <4>1, <4>2
    <3>4. CASE ~p.error /\ p.at = "StoppingRPCSession"
      <4> DEFINE y == Reported(q, "ok")
      <4>1. p.operation = "none" /\ p.reports = <<>>
        BY <3>4 DEF HelperSound, Beginning, Asking, Queries
      <4> DEFINE ok == "ok"
                 z == Reported(q, ok)
      <4>2. y \in Probes /\ y.at = "Finished" /\ y.reports = <<"ok">>
        <5>1. ok \in {"ok", "error"} /\ q.reports = <<>>
          BY <3>1, <4>1
        <5> HIDE DEF ok
        <5>2. z \in Probes /\ z.at = "Finished" /\ z.reports = <<ok>>
          <6> HIDE DEF z
          <6> QED
            BY <5>1, SlotParts DEF z
        <5> QED
          BY <5>2 DEF ok
      <4>3. /\ y.init = q.init /\ y.session = q.session /\ y.error = q.error /\ y.operation = q.operation
            /\ y.answered = q.answered /\ y.dfu = q.dfu
        BY DEF Reported, Probes
      <4>4. Queries \ {"CheckingManifest"} \subseteq p.answered
        BY <3>4, EarlierFacts DEF HelperSound, Asking
      <4>5. DoStopSession(Slot(p)) = Result(y, Nothing)
        BY <2>1, <3>1, <3>4
      <4> HIDE DEF y
      <4>6. ~Has(s, "processQueue", id)
        BY <3>4, <4>1
      <4>7. ReportedWell(s, id, y)
        BY <3>1, <3>4, <4>1, <4>2, <4>3, <4>4, <4>6 DEF ReportedWell
      <4>8. HelperSound(s, id, y)
        BY <1>1, <3>1, <4>2, <4>3, <4>7, FinishedIsSound
      <4> QED
        BY <4>2, <4>5, <4>8, NoneIsSound
    <3>5. CASE ~p.error /\ p.at # "StoppingRPCSession"
      <4>1. DoStopSession(Slot(p)) = Result(q, Nothing)
        BY <2>1, <3>1, <3>5
      <4>2. Beginning(s, id, q)
        BY <1>0, <3>1 DEF HelperSound, Beginning
      <4>3. Opening(s, id, q)
        BY <1>1, <3>1 DEF HelperSound, Opening
      <4>4. Asking(s, id, q)
        BY <1>0, <3>1 DEF HelperSound, Asking, NextDue
      <4>5. Stopping(s, id, q)
        BY <3>1 DEF HelperSound, Stopping
      <4>6. Reporting(s, id, q)
        BY <1>0, <3>1 DEF HelperSound, Reporting
      <4> QED
        BY <1>0, <3>1, <4>1, <4>2, <4>3, <4>4, <4>5, <4>6, NoneIsSound DEF HelperSound
    <3> QED
      BY <3>3, <3>4, <3>5
  <2> QED
    BY <2>2, <2>3
<1> QED
  BY <1>3, <1>4

(* A step of the SerialInitHelper keeps the helper sound.                    *)
LEMMA InitSound ==
    ASSUME NEW s \in Seq(Entries), NEW id \in Arrivals, NEW p \in Probes, HelperSound(s, id, p),
           p.init # "none", ~Has(s, "serialInit", id)
    PROVE  SlotSound(s, id, SerialInit(Slot(p)))
<1>1. /\ p.at = "StartingRPCSession" /\ p.session = "Starting" /\ ~Has(s, "doStopSession", id)
      /\ p.operation = "none" /\ ~Has(s, "processQueue", id) /\ p.reports = <<>> /\ ~p.dfu
      /\ ~Has(s, "next", id) /\ AllErrors(p.reports)
  <2>1. AllErrors(<<>>)
    BY DEF AllErrors
  <2> QED
    BY <2>1 DEF HelperSound, Opening, Beginning, Asking, NextDue
<1>2. p.init \in {"Ready", "OpeningPort", "SkippingMOTD", "StartingRPC"}
  BY DEF Probes
<1>3. Slot(p) = Result(p, Nothing) /\ Slot(p).p = p
  BY FreshSlot, ResultParts
<1>4. CASE p.init # "StartingRPC"
  <2> DEFINE v == CASE p.init = "Ready" -> "OpeningPort" [] p.init = "OpeningPort" -> "SkippingMOTD"
                    [] OTHER -> "StartingRPC"
             f == Slot(p)
             q == [p EXCEPT !.init = v]
  <2>1. v \in {"OpeningPort", "SkippingMOTD", "StartingRPC"}
    BY <1>2, <1>4
  <2>2. SerialInit(f) = [f EXCEPT !.p.init = v]
    BY <1>2, <1>3, <1>4 DEF SerialInit
  <2>3. f = Result(p, Nothing)
    BY <1>3
  <2> HIDE DEF v, f
  <2>4. [f EXCEPT !.p.init = v] = Result(q, Nothing)
    BY <2>3, InitPart
  <2>5. /\ q \in Probes /\ q.at = p.at /\ q.dfu = p.dfu /\ q.init = v /\ q.session = p.session /\ q.error = p.error
        /\ q.lost = p.lost /\ q.operation = p.operation /\ q.answered = p.answered /\ q.reports = p.reports
    BY <2>1 DEF Probes
  <2> HIDE DEF q
  <2>6. Beginning(s, id, q)
    BY <1>1, <2>5 DEF HelperSound, Beginning
  <2>7. Opening(s, id, q)
    BY <1>1, <2>1, <2>5 DEF Opening, Once, Has
  <2>8. Asking(s, id, q)
    BY <1>1, <2>5, EarlierFacts DEF Asking, Queries
  <2>9. Stopping(s, id, q)
    BY <1>1, <2>5 DEF Stopping, Queries
  <2>10. Reporting(s, id, q)
    BY <1>1, <2>5 DEF Reporting
  <2> QED
    BY <1>1, <2>2, <2>4, <2>5, <2>6, <2>7, <2>8, <2>9, <2>10, NoneIsSound DEF HelperSound, f
<1>5. CASE p.init = "StartingRPC"
  <2> DEFINE v == "none"
             f == Slot(p)
             m == [p EXCEPT !.init = v]
  <2>1. v = "none"
    OBVIOUS
  <2>2. SerialInit(f) = SetSessionState([f EXCEPT !.p.init = v], "Idle")
    BY <1>3, <1>5 DEF SerialInit
  <2>3. f = Result(p, Nothing)
    BY <1>3
  <2>4. /\ m \in Probes /\ m.at = p.at /\ m.dfu = p.dfu /\ m.init = "none" /\ m.session = p.session /\ m.error = p.error
        /\ m.lost = p.lost /\ m.operation = p.operation /\ m.answered = p.answered /\ m.reports = p.reports
    BY DEF Probes
  <2> HIDE DEF v, f
  <2>5. [f EXCEPT !.p.init = v] = Result(m, Nothing)
    BY <2>3, InitPart
  <2> HIDE DEF m
  <2>6. PICK q \in Probes :
            /\ q.at = m.at /\ q.dfu = m.dfu /\ q.init = m.init /\ q.session = "Idle" /\ q.error = m.error
            /\ q.lost = m.lost /\ q.operation = m.operation /\ q.answered = m.answered /\ q.reports = m.reports
            /\ SetSessionState(Result(m, Nothing), "Idle") =
                  IF m.error THEN Result(Reported(q, "error"), Nothing)
                  ELSE IF m.at = "StartingRPCSession" THEN Result(q, Append(Nothing, "next"))
                  ELSE Result(q, Nothing)
    BY <1>1, <2>4, IdleForms
  <2>7. CASE p.error
    <3> DEFINE y == Reported(q, "error")
    <3>1. /\ y \in Probes /\ y.at = "Finished" /\ AllErrors(y.reports) /\ y.reports # <<"ok">>
          /\ y.init = "none" /\ y.session = "Idle"
      BY <1>1, <2>4, <2>6, ErrorReported
    <3>2. SerialInit(f) = Result(y, Nothing)
      BY <2>2, <2>4, <2>5, <2>6, <2>7
    <3> HIDE DEF y
    <3>3. HelperSound(s, id, y)
      BY <3>1, FinishedIsSound
    <3> QED
      BY <3>1, <3>2, <3>3, NoneIsSound DEF f
  <2>8. CASE ~p.error
    <3>1. SerialInit(f) = Result(q, Append(Nothing, "next"))
      BY <1>1, <2>2, <2>4, <2>5, <2>6, <2>8
    <3>2. ASSUME NEW t \in Seq(Entries), GainsOne(s, t, id, "next") PROVE HelperSound(t, id, q)
      <4>1. /\ Once(t, "next", id)
            /\ \A d \in {"serialInit", "processQueue", "doStopSession"} : ~Has(t, d, id)
        BY <1>1, <3>2 DEF GainsOne
      <4>2. Beginning(t, id, q)
        BY <1>1, <2>4, <2>6, <4>1 DEF Beginning
      <4>3. Opening(t, id, q)
        BY <1>1, <2>4, <2>6, <4>1 DEF Opening, Once, Has
      <4>4. Asking(t, id, q)
        BY <1>1, <2>4, <2>6, EarlierFacts DEF Asking, NextDue, Queries
      <4>5. Stopping(t, id, q)
        BY <1>1, <2>4, <2>6, <4>1 DEF Stopping, Queries
      <4>6. Reporting(t, id, q)
        BY <1>1, <2>4, <2>6 DEF Reporting
      <4> QED
        BY <4>2, <4>3, <4>4, <4>5, <4>6 DEF HelperSound
    <3>3. "next" \in Does
      BY DEF Does
    <3> QED
      BY <1>1, <2>4, <2>6, <3>1, <3>2, <3>3, OneIsSound DEF f
  <2> QED
    BY <2>7, <2>8
<1> QED
  BY <1>4, <1>5

-----------------------------------------------------------------------------
(* Timers, answers and errors                                                *)

(* A helper that is deleted is heard of no more.                             *)
LEMMA DeletionSound ==
    ASSUME NEW s, NEW id, NEW p \in Probes, HelperSound(s, id, p), p.at = "Finished",
           NEW q, q = [NoProbe EXCEPT !.at = "gone", !.reports = p.reports]
    PROVE  q \in Probes /\ q.at = "gone" /\ HelperSound(s, id, q)
<1>1. /\ q \in Probes /\ q.at = "gone" /\ ~q.dfu /\ q.init = "none" /\ q.session = "Stopped" /\ ~q.error
      /\ q.operation = "none" /\ q.reports = p.reports
  BY DEF NoProbe, Probes, Places, SessionStates
<1>2. ~Has(s, "serialInit", id)
  BY DEF HelperSound, Opening, InitDue
<1>3. Beginning(s, id, q)
  BY <1>1 DEF Beginning
<1>4. Opening(s, id, q)
  BY <1>1, <1>2 DEF HelperSound, Opening
<1>5. Asking(s, id, q)
  BY <1>1, EarlierFacts DEF Asking, NextDue, Queries
<1>6. Stopping(s, id, q)
  BY <1>1 DEF Stopping, Queries
<1>7. Reporting(s, id, q)
  BY <1>1 DEF HelperSound, Reporting
<1> QED
  BY <1>1, <1>3, <1>4, <1>5, <1>6, <1>7 DEF HelperSound

(* A helper that has failed, with nothing posted.                            *)
LEMMA FailedIsSound ==
    ASSUME NEW s \in Seq(Entries), NEW id \in Arrivals, NEW m \in Probes, m.init = "none", m.session # "Starting",
           ~Has(s, "serialInit", id), AllErrors(m.reports)
    PROVE  SlotSound(s, id, Result(Reported(m, "error"), Nothing))
<1> DEFINE y == Reported(m, "error")
<1>1. /\ y \in Probes /\ y.at = "Finished" /\ AllErrors(y.reports) /\ y.reports # <<"ok">>
      /\ y.init = "none" /\ y.session # "Starting"
  BY ErrorReported
<1> HIDE DEF y
<1>2. HelperSound(s, id, y)
  BY <1>1, FinishedIsSound
<1>3. SlotSound(s, id, Result(y, Nothing))
  BY <1>1, <1>2, NoneIsSound
<1> QED
  BY <1>3 DEF y

(* Tries that are left are a number.                                         *)
LEMMA Tried ==
    ASSUME NEW p \in Probes, NEW n \in Nat
    PROVE  LET q == [p EXCEPT !.tries = n] IN
           /\ q \in Probes /\ q.tries = n /\ q.at = p.at /\ q.dfu = p.dfu /\ q.init = p.init /\ q.session = p.session
           /\ q.error = p.error /\ q.lost = p.lost /\ q.operation = p.operation /\ q.answered = p.answered
           /\ q.reports = p.reports
BY DEF Probes

(* The timer of the SerialFinder.                                            *)
LEMMA FinderSound ==
    ASSUME NEW s \in Seq(Entries), NEW id \in Arrivals, NEW p \in Probes, HelperSound(s, id, p),
           p.at = "FindingSerialPort", p.tries > 0, NEW n \in Nat,
           NEW q, q = [p EXCEPT !.tries = n]
    PROVE  /\ SlotSound(s, id, Finish(Slot(q), "error"))
           /\ n = 0 => SlotSound(s, id, Post(Slot(q), "next"))
           /\ SlotSound(s, id, Slot(q))
<1>1. /\ q \in Probes /\ q.tries = n /\ q.at = p.at /\ q.dfu = p.dfu /\ q.init = p.init /\ q.session = p.session
      /\ q.error = p.error /\ q.lost = p.lost /\ q.operation = p.operation /\ q.answered = p.answered
      /\ q.reports = p.reports
  BY Tried
<1>2. /\ p.session = "Stopped" /\ p.init = "none" /\ p.reports = <<>> /\ AllErrors(p.reports)
      /\ p.operation = "none" /\ ~p.dfu /\ ~Has(s, "next", id) /\ ~Has(s, "serialInit", id)
      /\ ~Has(s, "doStopSession", id) /\ ~Has(s, "processQueue", id) /\ ~p.error
  <2>1. AllErrors(<<>>)
    BY DEF AllErrors
  <2>2. p.tries # 0
    BY DEF Probes
  <2> QED
    BY <2>1, <2>2 DEF HelperSound, Beginning, Opening, InitDue, Asking, NextDue
<1>3. Slot(q) = Result(q, Nothing)
  BY FreshSlot
<1>4. SlotSound(s, id, Finish(Slot(q), "error"))
  <2>1. \A report : Finish(Result(q, Nothing), report) = Result(Reported(q, report), Nothing)
    BY <1>1, SlotParts
  <2>2. Finish(Slot(q), "error") = Result(Reported(q, "error"), Nothing)
    BY <1>3, <2>1
  <2> QED
    BY <1>1, <1>2, <2>2, FailedIsSound
<1>5. ASSUME NEW t, Has(t, "next", id) => n = 0, Once(t, "next", id),
             \A d \in {"serialInit", "processQueue", "doStopSession"} : ~Has(t, d, id)
      PROVE  HelperSound(t, id, q)
  <2>1. Beginning(t, id, q)
    BY <1>1, <1>2, <1>5 DEF Beginning
  <2>2. Opening(t, id, q)
    BY <1>1, <1>2, <1>5 DEF Opening, Once, Has
  <2>3. Asking(t, id, q)
    BY <1>1, <1>2, <1>5, EarlierFacts DEF Asking, NextDue, Queries
  <2>4. Stopping(t, id, q)
    BY <1>1, <1>5 DEF Stopping, Queries
  <2>5. Reporting(t, id, q)
    BY <1>1, <1>2 DEF Reporting
  <2> QED
    BY <2>1, <2>2, <2>3, <2>4, <2>5 DEF HelperSound
<1>6. ASSUME n = 0 PROVE SlotSound(s, id, Post(Slot(q), "next"))
  <2>1. Post(Slot(q), "next") = Result(q, Append(Nothing, "next"))
    BY <1>3, PostPart
  <2>2. ASSUME NEW t \in Seq(Entries), GainsOne(s, t, id, "next") PROVE HelperSound(t, id, q)
    <3>1. /\ Once(t, "next", id)
          /\ \A d \in {"serialInit", "processQueue", "doStopSession"} : ~Has(t, d, id)
      BY <1>2, <2>2 DEF GainsOne
    <3> QED
      BY <1>5, <1>6, <3>1
  <2>3. "next" \in Does
    BY DEF Does
  <2> QED
    BY <1>1, <2>1, <2>2, <2>3, OneIsSound
<1>7. SlotSound(s, id, Slot(q))
  <2>1. Once(s, "next", id)
    BY <1>2 DEF Once, Has
  <2>2. HelperSound(s, id, q)
    BY <1>2, <1>5, <2>1
  <2> QED
    BY <1>1, <1>3, <2>2, NoneIsSound
<1> QED
  BY <1>4, <1>6, <1>7

(* What the invariant says while the port is opened and the session starts.  *)
LEMMA WhileOpening ==
    ASSUME NEW s, NEW id, NEW p \in Probes, HelperSound(s, id, p), p.init # "none"
    PROVE  /\ p.at = "StartingRPCSession" /\ p.session = "Starting" /\ p.operation = "none" /\ p.reports = <<>>
           /\ AllErrors(p.reports) /\ ~p.dfu
           /\ \A d \in {"next", "processQueue", "doStopSession"} : ~Has(s, d, id)
           /\ Has(s, "serialInit", id) /\ p.init = "OpeningPort" => p.tries = 0
<1>1. AllErrors(<<>>)
  BY DEF AllErrors
<1> QED
  BY <1>1 DEF HelperSound, Opening, InitDue, Beginning, Asking, NextDue

(* It goes on to open the port, and posts its next step or does not.         *)
LEMMA OpeningSound ==
    ASSUME NEW s \in Seq(Entries), NEW id \in Arrivals, NEW p \in Probes, HelperSound(s, id, p), p.init # "none",
           ~Has(s, "serialInit", id),
           NEW q \in Probes, q.at = p.at, q.dfu = p.dfu, q.init = p.init, q.session = p.session, q.error = p.error,
           q.operation = p.operation, q.reports = p.reports
    PROVE  /\ SlotSound(s, id, Slot(q))
           /\ (q.init = "OpeningPort" => q.tries = 0) => SlotSound(s, id, Post(Slot(q), "serialInit"))
<1>1. /\ p.at = "StartingRPCSession" /\ p.session = "Starting" /\ p.operation = "none" /\ p.reports = <<>>
      /\ AllErrors(p.reports) /\ ~p.dfu
      /\ \A d \in {"next", "processQueue", "doStopSession"} : ~Has(s, d, id)
  BY WhileOpening
<1>2. Slot(q) = Result(q, Nothing)
  BY FreshSlot
<1>3. ASSUME NEW t, Has(t, "serialInit", id) => (q.init = "OpeningPort" => q.tries = 0), Once(t, "serialInit", id),
             \A d \in {"next", "processQueue", "doStopSession"} : ~Has(t, d, id)
      PROVE  HelperSound(t, id, q)
  <2>1. Beginning(t, id, q)
    BY <1>1, <1>3 DEF Beginning, Once, Has
  <2>2. Opening(t, id, q)
    BY <1>1, <1>3 DEF Opening, InitDue
  <2>3. Asking(t, id, q)
    BY <1>1, <1>3, EarlierFacts DEF Asking, Queries
  <2>4. Stopping(t, id, q)
    BY <1>1, <1>3 DEF Stopping, Queries
  <2>5. Reporting(t, id, q)
    BY <1>1 DEF Reporting
  <2> QED
    BY <2>1, <2>2, <2>3, <2>4, <2>5 DEF HelperSound
<1>4. SlotSound(s, id, Slot(q))
  <2>1. Once(s, "serialInit", id)
    BY DEF Once, Has
  <2>2. HelperSound(s, id, q)
    BY <1>1, <1>3, <2>1
  <2> QED
    BY <1>1, <1>2, <2>2, NoneIsSound
<1>5. ASSUME q.init = "OpeningPort" => q.tries = 0 PROVE SlotSound(s, id, Post(Slot(q), "serialInit"))
  <2>1. Post(Slot(q), "serialInit") = Result(q, Append(Nothing, "serialInit"))
    BY <1>2, PostPart
  <2>2. ASSUME NEW t \in Seq(Entries), GainsOne(s, t, id, "serialInit") PROVE HelperSound(t, id, q)
    <3>1. /\ Once(t, "serialInit", id)
          /\ \A d \in {"next", "processQueue", "doStopSession"} : ~Has(t, d, id)
      BY <1>1, <2>2 DEF GainsOne
    <3> QED
      BY <1>3, <1>5, <3>1
  <2>3. "serialInit" \in Does
    BY DEF Does
  <2> QED
    BY <1>1, <2>1, <2>2, <2>3, OneIsSound
<1> QED
  BY <1>4, <1>5

(* An error ends the session before it is up.                                *)
LEMMA EarlySound ==
    ASSUME NEW s \in Seq(Entries), NEW id \in Arrivals, NEW p \in Probes, p.session = "Starting", AllErrors(p.reports),
           ~Has(s, "serialInit", id)
    PROVE  SlotSound(s, id, EndsEarly(p))
<1> DEFINE m == [p EXCEPT !.init = "none", !.error = TRUE]
<1>1. m \in Probes /\ m.init = "none" /\ m.error /\ m.session = p.session /\ m.reports = p.reports
  BY DEF Probes
<1> HIDE DEF m
<1>2. EndsEarly(p) = SetSessionState(Result(m, Nothing), "Stopped")
  BY FreshSlot DEF EndsEarly, m
<1>3. PICK q \in Probes :
          /\ q.init = m.init /\ q.session = "Stopped" /\ q.reports = m.reports
          /\ SetSessionState(Result(m, Nothing), "Stopped") =
                IF m.error THEN Result(Reported(q, "error"), Nothing)
                ELSE IF m.at = "StoppingRPCSession" THEN Result(Reported(q, "ok"), Nothing)
                ELSE Result(q, Nothing)
  BY <1>1, StoppedForms
<1>4. EndsEarly(p) = Result(Reported(q, "error"), Nothing)
  BY <1>1, <1>2, <1>3
<1> QED
  BY <1>1, <1>3, <1>4, FailedIsSound

(* The operation fails.                                                      *)
LEMMA FailureSound ==
    ASSUME NEW s \in Seq(Entries), NEW id \in Arrivals, NEW p \in Probes, HelperSound(s, id, p), p.operation = "running"
    PROVE  SlotSound(s, id, OperationFails(Slot(p)))
<1>1. p.init = "none" /\ p.session # "Starting" /\ ~Has(s, "serialInit", id) /\ AllErrors(p.reports)
  BY Asked
<1>2. PICK q \in Probes :
          /\ q.at = "Finished" /\ q.init = p.init /\ q.session = p.session
          /\ AllErrors(q.reports) /\ q.reports # <<"ok">>
          /\ OperationFails(Slot(p)) = Result(q, Append(Nothing, "processQueue"))
  BY <1>1, StopForms
<1>3. ASSUME NEW t \in Seq(Entries), GainsOne(s, t, id, "processQueue") PROVE HelperSound(t, id, q)
  <2>1. ~Has(t, "serialInit", id)
    BY <1>1, <1>3 DEF GainsOne
  <2> QED
    BY <1>1, <1>2, <2>1, FinishedIsSound
<1>4. "processQueue" \in Does
  BY DEF Does
<1> QED
  BY <1>2, <1>3, <1>4, OneIsSound

(* The operation is answered.                                                *)
LEMMA AnswerSound ==
    ASSUME NEW s \in Seq(Entries), NEW id \in Arrivals, NEW p \in Probes, HelperSound(s, id, p), p.operation = "running",
           ~p.lost, NEW present
    PROVE  SlotSound(s, id, OperationSucceeds(Slot(p), present))
<1> DEFINE at == IF p.at = "CheckingSDCard" /\ ~present THEN "CheckingManifest" ELSE p.at
           more == p.answered \cup {p.at}
           q == [p EXCEPT !.operation = "none", !.answered = more, !.at = at]
           one == Append(Nothing, "next")
<1>1. /\ p.at \in Queries \cup {"Finished"}
      /\ p.init = "none" /\ p.session # "Starting" /\ ~Has(s, "serialInit", id)
      /\ p.reports # <<"ok">> /\ AllErrors(p.reports)
      /\ p.at # "Finished" => ~Has(s, "next", id) /\ p.reports = <<>> /\ ~p.dfu
  BY Asked
<1>2. AfterAnswer(p, present) = q
  BY DEF AfterAnswer
<1>3. /\ at \in Queries \cup {"Finished"} /\ at \in Places /\ more \subseteq Places
      /\ (at = "Finished" <=> p.at = "Finished")
      /\ at # p.at => p.at = "CheckingSDCard" /\ at = "CheckingManifest"
  <2>1. "CheckingManifest" \in Queries /\ "CheckingManifest" # "Finished"
    BY DEF Queries
  <2>2. Queries \cup {"Finished"} \subseteq Places /\ p.at \in Places /\ p.answered \subseteq Places
    BY DEF Places, Probes
  <2> QED
    BY <1>1, <2>1, <2>2
<1>4. p.answered \subseteq more /\ p.at \in more
  OBVIOUS
<1> HIDE DEF at, more
<1>5. /\ q \in Probes /\ q.at = at /\ q.dfu = p.dfu /\ q.init = p.init /\ q.session = p.session
      /\ q.error = p.error /\ q.lost = p.lost /\ q.operation = "none" /\ q.answered = more
      /\ q.reports = p.reports
  BY <1>3 DEF Probes
<1> HIDE DEF q
<1>6. OperationSucceeds(Slot(p), present) = Post(Post(Result(q, Nothing), "next"), "processQueue")
  <2> DEFINE f == Slot(p)
  <2>1. OperationSucceeds(f, present) = Post(Post([f EXCEPT !.p = AfterAnswer(@, present)], "next"), "processQueue")
    BY DEF OperationSucceeds
  <2>2. f = Result(p, Nothing) /\ f.p = p
    BY FreshSlot, ResultParts
  <2> HIDE DEF f
  <2>3. [f EXCEPT !.p = AfterAnswer(@, present)] = [f EXCEPT !.p = q]
    BY <1>2, <2>2
  <2>4. [f EXCEPT !.p = q] = Result(q, Nothing)
    BY <2>2, WholePart
  <2> QED
    BY <2>1, <2>3, <2>4 DEF f
<1>7. Post(Result(q, Nothing), "next") = Result(q, one)
  BY PostPart
<1>8. OperationSucceeds(Slot(p), present) = Result(q, Append(one, "processQueue"))
  <2> HIDE DEF one
  <2>1. Post(Result(q, one), "processQueue") = Result(q, Append(one, "processQueue"))
    BY PostPart
  <2> QED
    BY <1>6, <1>7, <2>1
<1>9. at \notin {"none", "Ready", "FindingSerialPort", "StartingRPCSession", "StoppingRPCSession", "gone"}
  BY <1>3 DEF Queries
<1>10. at \in DOMAIN Earlier => Earlier[at] \subseteq more
  <2>1. CASE at = p.at
    BY <1>4, <2>1 DEF HelperSound, Asking
  <2>2. CASE at # p.at
    <3>1. Earlier["CheckingSDCard"] \subseteq p.answered
      BY <1>3, <2>2, EarlierFacts DEF HelperSound, Asking, Queries
    <3> QED
      BY <1>3, <1>4, <2>2, <3>1, EarlierFacts
  <2> QED
    BY <2>1, <2>2
<1>11. ASSUME NEW t \in Seq(Entries), GainsTwo(s, t, id) PROVE HelperSound(t, id, q)
  <2>1. /\ ~Has(t, "serialInit", id)
        /\ Has(t, "doStopSession", id) <=> Has(s, "doStopSession", id)
        /\ ~Has(s, "next", id) => Once(t, "next", id)
        /\ ~Has(s, "doStopSession", id) => StopsLast(t, id)
    BY <1>1, <1>11 DEF GainsTwo
  <2>2. Beginning(t, id, q)
    BY <1>1, <1>3, <1>5, <1>9, <2>1 DEF Beginning
  <2>3. Opening(t, id, q)
    BY <1>1, <1>5, <2>1 DEF Opening, Once, Has
  <2>4. Asking(t, id, q)
    BY <1>3, <1>4, <1>5, <1>9, <1>10 DEF Asking, NextDue
  <2>5. Stopping(t, id, q)
    <3>1. at \in Queries /\ ~p.error => ~Has(s, "doStopSession", id)
      BY <1>1, <1>3 DEF HelperSound, Stopping, Queries
    <3>2. Has(s, "doStopSession", id) => q.lost \/ q.error \/ q.at \in {"StoppingRPCSession", "Finished", "gone"}
      BY <1>1, <1>3, <1>5 DEF HelperSound, Stopping, Queries
    <3> QED
      BY <1>5, <1>9, <2>1, <3>1, <3>2 DEF Stopping
  <2>6. Reporting(t, id, q)
    BY <1>1, <1>5, <1>9 DEF Reporting
  <2> QED
    BY <2>2, <2>3, <2>4, <2>5, <2>6 DEF HelperSound
<1> QED
  BY <1>5, <1>8, <1>9, <1>11, TwoAreSound

(* The port is lost while the session is up.                                 *)
LEMMA LossSound ==
    ASSUME NEW s \in Seq(Entries), NEW id \in Arrivals, NEW p \in Probes, HelperSound(s, id, p), IsUp(p)
    PROVE  p.at # "none" /\ SlotSound(s, id, StopSession(Slot([p EXCEPT !.lost = TRUE])))
<1> DEFINE q == [p EXCEPT !.lost = TRUE]
<1>1. /\ q \in Probes /\ q.at = p.at /\ q.dfu = p.dfu /\ q.init = p.init /\ q.session = p.session
      /\ q.error = p.error /\ q.lost /\ q.operation = p.operation /\ q.answered = p.answered
      /\ q.reports = p.reports /\ q.tries = p.tries
  BY DEF Probes
<1> HIDE DEF q
<1>2. p.session \notin {"Stopped", "Starting"} /\ p.init = "none"
  BY DEF IsUp, HelperSound, Opening
<1>3. p.at \notin {"none", "Ready", "FindingSerialPort", "gone"}
  BY <1>2 DEF HelperSound, Beginning, NoProbe, Reporting
<1>4. StopSession(Slot(q)) = Result(q, Append(Nothing, "doStopSession"))
  <2>1. Slot(q) = Result(q, Nothing) /\ Slot(q).p = q
    BY FreshSlot, ResultParts
  <2>2. IsUp(q)
    BY <1>1 DEF IsUp
  <2>3. StopSession(Slot(q)) = Post(Result(q, Nothing), "doStopSession")
    BY <2>1, <2>2 DEF StopSession
  <2> QED
    BY <2>3, PostPart
<1>5. ASSUME NEW t \in Seq(Entries), GainsOne(s, t, id, "doStopSession") PROVE HelperSound(t, id, q)
  <2>1. /\ \A d \in {"next", "serialInit", "processQueue"} : Has(t, d, id) <=> Has(s, d, id)
        /\ \A d \in {"next", "serialInit"} : Once(s, d, id) => Once(t, d, id)
        /\ StopsLast(s, id) => StopsLast(t, id)
    BY <1>5 DEF GainsOne
  <2>2. Beginning(t, id, q)
    BY <1>1, <1>3, <2>1 DEF HelperSound, Beginning
  <2>3. Opening(t, id, q)
    BY <1>1, <1>2, <2>1 DEF HelperSound, Opening, InitDue
  <2>4. Asking(t, id, q)
    BY <1>1, <2>1 DEF HelperSound, Asking, NextDue
  <2>5. Stopping(t, id, q)
    BY <1>1, <2>1 DEF HelperSound, Stopping
  <2>6. Reporting(t, id, q)
    BY <1>1, <1>2, <2>1 DEF HelperSound, Reporting
  <2> QED
    BY <2>2, <2>3, <2>4, <2>5, <2>6 DEF HelperSound
<1>6. "doStopSession" \in Does
  BY DEF Does
<1> QED
  BY <1>1, <1>3, <1>4, <1>5, <1>6, OneIsSound DEF q

-----------------------------------------------------------------------------
(* Registrations                                                             *)

(* The registrations of pointers that stay as they are in the loop.          *)
KeepsRegistrations(s, t, pointers) ==
    \A p \in pointers :
        /\ \A id : Registering(s, p, id) => Registering(t, p, id)
        /\ OneRegisters(s, p) => OneRegisters(t, p)
        /\ NoneRegisters(s, p) => NoneRegisters(t, p)

(* Taking what was posted first leaves the other registrations.              *)
LEMMA RegistrationsLeft ==
    ASSUME NEW s \in Seq(Entries), s # <<>>, NEW pointers,
           Head(s).does = "register" => Head(s).pointer \notin pointers
    PROVE  KeepsRegistrations(s, Tail(s), pointers)
<1> DEFINE t == Tail(s)
<1>1. /\ Head(s) = s[1]
      /\ \A i \in DOMAIN t : t[i] = s[i + 1] /\ i + 1 \in DOMAIN s /\ i \in Nat \ {0}
      /\ \A i \in DOMAIN s : i = 1 \/ (i - 1 \in DOMAIN t /\ i \in Nat)
  BY Taken
<1> HIDE DEF t
<1>2. ASSUME NEW p \in pointers
      PROVE  /\ \A i \in DOMAIN t : Registers(t, i, p) <=> Registers(s, i + 1, p)
             /\ ~Registers(s, 1, p)
  BY <1>1 DEF Registers
<1>3. \A i, j \in DOMAIN t : i + 1 = j + 1 => i = j
  BY <1>1
<1>4. \A i \in DOMAIN s : i # 1 => (i - 1) + 1 = i
  BY <1>1
<1>5. ASSUME NEW p \in pointers, NEW id, Registering(s, p, id) PROVE Registering(t, p, id)
  <2>1. PICK i \in DOMAIN s : Registers(s, i, p) /\ s[i].id = id
    BY <1>5 DEF Registering
  <2>2. i # 1
    BY <1>2, <2>1
  <2>3. i - 1 \in DOMAIN t /\ (i - 1) + 1 = i
    BY <1>1, <1>4, <2>2
  <2>4. t[i - 1] = s[i]
    BY <1>1, <2>3
  <2> QED
    BY <2>1, <2>3, <2>4 DEF Registering, Registers
<1>6. ASSUME NEW p \in pointers, OneRegisters(s, p) PROVE OneRegisters(t, p)
  BY <1>1, <1>2, <1>3, <1>6 DEF OneRegisters
<1>7. ASSUME NEW p \in pointers, NoneRegisters(s, p) PROVE NoneRegisters(t, p)
  BY <1>1, <1>2, <1>7 DEF NoneRegisters
<1> QED
  BY <1>5, <1>6, <1>7 DEF KeepsRegistrations, t

(* When the one registration of a pointer is taken there is none.            *)
LEMMA LastRegistration ==
    ASSUME NEW s \in Seq(Entries), s # <<>>, NEW p, Registers(s, 1, p), OneRegisters(s, p)
    PROVE  NoneRegisters(Tail(s), p)
<1> DEFINE t == Tail(s)
<1>1. 1 \in DOMAIN s /\ \A i \in DOMAIN t : t[i] = s[i + 1] /\ i + 1 \in DOMAIN s /\ i \in Nat \ {0}
  BY Taken
<1> HIDE DEF t
<1>2. \A i \in DOMAIN t : i + 1 # 1 /\ (Registers(t, i, p) => Registers(s, i + 1, p))
  BY <1>1 DEF Registers
<1>3. NoneRegisters(t, p)
  BY <1>1, <1>2 DEF OneRegisters, NoneRegisters
<1> QED
  BY <1>3 DEF t

(* What a helper posts registers nothing.                                    *)
LEMMA RegistrationsStay ==
    ASSUME NEW s \in Seq(Entries), NEW id \in Arrivals, NEW posts \in Seq(Does), NEW pointers
    PROVE  LET t == s \o Events(id, posts) IN
           /\ KeepsRegistrations(s, t, pointers)
           /\ \A other : Has(t, "register", other) => Has(s, "register", other)
           /\ \A other : Once(s, "register", other) => Once(t, "register", other)
<1> DEFINE t == s \o Events(id, posts)
           n == Len(s)
<1>1. /\ DOMAIN s \subseteq DOMAIN t
      /\ \A i \in DOMAIN s : t[i] = s[i]
      /\ \A i \in DOMAIN t : i \in DOMAIN s \/ (i - n \in DOMAIN posts /\ t[i] = [does |-> posts[i - n], id |-> id])
  BY Appended
<1>2. \A k \in DOMAIN posts : posts[k] \in Does
  BY ElementOfSeq, LenProperties
<1>3. ~Among("register", posts)
  BY <1>2 DEF Among, Does
<1>4. /\ \A other : Has(t, "register", other) => Has(s, "register", other)
      /\ \A other : Once(s, "register", other) => Once(t, "register", other)
  BY <1>3, Added
<1> HIDE DEF t, n
<1>5. \A i \in DOMAIN t \ DOMAIN s : t[i].does # "register"
  BY <1>1, <1>2 DEF Does
<1>6. \A p : \A i \in DOMAIN t : Registers(t, i, p) => i \in DOMAIN s /\ Registers(s, i, p)
  BY <1>1, <1>5 DEF Registers
<1>7. \A p, other : Registering(s, p, other) => Registering(t, p, other)
  BY <1>1 DEF Registering, Registers
<1>8. \A p : OneRegisters(s, p) => OneRegisters(t, p)
  BY <1>6 DEF OneRegisters
<1>9. \A p : NoneRegisters(s, p) => NoneRegisters(t, p)
  BY <1>6 DEF NoneRegisters
<1> QED
  BY <1>4, <1>7, <1>8, <1>9 DEF KeepsRegistrations, t

(* A registration is posted.                                                 *)
LEMMA RegistrationPosted ==
    ASSUME NEW s \in Seq(Entries), NEW id \in Arrivals, NEW p \in Pointer
    PROVE  LET e == [does |-> "register", id |-> id, pointer |-> p]
               t == Append(s, e) IN
           /\ t \in Seq(Entries)
           /\ KeepsRegistrations(s, t, Pointer \ {p})
           /\ Registering(t, p, id) /\ (NoneRegisters(s, p) => OneRegisters(t, p))
           /\ \A other : Keeps(s, t, other)
           /\ \A other : Has(t, "register", other) => other = id \/ Has(s, "register", other)
           /\ \A other : Once(s, "register", other) /\ (other = id => ~Has(s, "register", id)) => Once(t, "register", other)
<1> DEFINE e == [does |-> "register", id |-> id, pointer |-> p]
           t == Append(s, e)
           n == Len(s) + 1
<1>1. e \in Entries /\ e.does = "register" /\ e.id = id /\ e.pointer = p
  BY EntryFacts
<1> HIDE DEF e
<1>2. /\ t \in Seq(Entries) /\ Len(t) = Len(s) + 1 /\ \A i \in 1..Len(s) : t[i] = s[i]
      /\ t[Len(s) + 1] = e
  BY <1>1, AppendProperties
<1>3. Len(s) \in Nat /\ DOMAIN s = 1..Len(s) /\ DOMAIN t = 1..Len(t)
  BY <1>2, LenProperties
<1> HIDE DEF t
<1>4. /\ DOMAIN t = DOMAIN s \cup {n} /\ n \notin DOMAIN s /\ n \in Nat
      /\ \A i \in DOMAIN s : t[i] = s[i] /\ i \in Nat
  BY <1>2, <1>3
<1>5. t[n] = e
  BY <1>2
<1> HIDE DEF n
<1>6. \A does, other : /\ \A i \in DOMAIN s : Is(t, i, does, other) <=> Is(s, i, does, other)
                       /\ Is(t, n, does, other) <=> does = "register" /\ other = id
  BY <1>1, <1>4, <1>5 DEF Is
<1>7. \A q : /\ \A i \in DOMAIN s : Registers(t, i, q) <=> Registers(s, i, q)
             /\ Registers(t, n, q) <=> q = p
  BY <1>1, <1>4, <1>5 DEF Registers
<1>8. ASSUME NEW other PROVE Keeps(s, t, other)
  <2>1. \A does \in Does : ~Is(t, n, does, other)
    BY <1>6 DEF Does
  <2>2. \A does \in Does : Has(t, does, other) => Has(s, does, other)
    BY <1>4, <1>6, <2>1 DEF Has
  <2>3. \A does \in Does : Once(s, does, other) => Once(t, does, other)
    BY <1>4, <1>6, <2>1 DEF Once
  <2>4. StopsLast(s, other) => StopsLast(t, other)
    <3>1. ~Is(t, n, "processQueue", other) /\ ~Is(t, n, "doStopSession", other)
      BY <2>1 DEF Does
    <3> QED
      BY <1>4, <1>6, <3>1 DEF StopsLast
  <2> QED
    BY <2>2, <2>3, <2>4 DEF Keeps
<1>9. \A other : Has(t, "register", other) => other = id \/ Has(s, "register", other)
  BY <1>4, <1>6 DEF Has
<1>10. \A other : Once(s, "register", other) /\ (other = id => ~Has(s, "register", id)) => Once(t, "register", other)
  BY <1>4, <1>6 DEF Once, Has
<1>11. KeepsRegistrations(s, t, Pointer \ {p})
  <2>1. ASSUME NEW q \in Pointer \ {p}, NEW other, Registering(s, q, other) PROVE Registering(t, q, other)
    BY <1>4, <1>7, <2>1 DEF Registering
  <2>2. ASSUME NEW q \in Pointer \ {p}, OneRegisters(s, q) PROVE OneRegisters(t, q)
    BY <1>4, <1>7, <2>2 DEF OneRegisters
  <2>3. ASSUME NEW q \in Pointer \ {p}, NoneRegisters(s, q) PROVE NoneRegisters(t, q)
    BY <1>4, <1>7, <2>3 DEF NoneRegisters
  <2> QED
    BY <2>1, <2>2, <2>3 DEF KeepsRegistrations
<1>12. Registering(t, p, id)
  BY <1>1, <1>4, <1>5, <1>7 DEF Registering
<1>13. NoneRegisters(s, p) => OneRegisters(t, p)
  BY <1>4, <1>7 DEF NoneRegisters, OneRegisters
<1> QED
  BY <1>2, <1>8, <1>9, <1>10, <1>11, <1>12, <1>13 DEF t, e

-----------------------------------------------------------------------------
(* The steps                                                                 *)

(* What is posted is well formed, and what is posted to nobody keeps         *)
(* everything sound: the other helpers, the registrations and the pointers.  *)
LEMMA HelperStep ==
    ASSUME ProbingInv, NEW id \in Arrivals, NEW r, NEW left \in Seq(Entries),
           probe[id].at # "none", SlotSound(left, id, r), Becomes(id, r, left),
           \A other \in Arrivals : Keeps(loop, left, other),
           \A other : Has(left, "register", other) => Has(loop, "register", other),
           \A other : Once(loop, "register", other) => Once(left, "register", other),
           KeepsRegistrations(loop, left, Pointer)
    PROVE  ProbingInv'
<1> DEFINE t == left \o Events(id, r.posts)
<1>1. /\ r.p \in Probes /\ r.p.at # "none" /\ r.posts \in Seq(Does) /\ HelperSound(t, id, r.p)
      /\ probe \in [Arrivals -> Probes]
  BY DEF SlotSound, ProbingInv, TypeOK
<1>2. t \in Seq(Entries)
  BY <1>1, Added
<1>3. /\ KeepsRegistrations(left, t, Pointer)
      /\ \A other : Has(t, "register", other) => Has(left, "register", other)
      /\ \A other : Once(left, "register", other) => Once(t, "register", other)
  BY <1>1, RegistrationsStay
<1>4. \A other : other # id => Keeps(left, t, other)
  BY <1>1, OthersAlone
<1>5. /\ loop' = t /\ probe' = [probe EXCEPT ![id] = r.p]
      /\ UNCHANGED <<usb, arrivals, known, announced, raced>>
  BY DEF Becomes
<1> HIDE DEF t
<1>6. /\ probe' \in [Arrivals -> Probes] /\ probe'[id] = r.p
      /\ \A other \in Arrivals : other # id => probe'[other] = probe[other]
  BY <1>1, <1>5
<1>7. TypeOK'
  BY <1>2, <1>5, <1>6 DEF ProbingInv, TypeOK
<1>8. Registered'
  <2>1. ~Has(loop, "register", id) /\ id <= arrivals
    BY DEF ProbingInv, Registered
  <2> QED
    BY <1>1, <1>3, <1>5, <1>6, <2>1 DEF ProbingInv, Registered
<1>9. ASSUME NEW p \in (Pointer \ raced)' PROVE PointerSound(p)'
  <2>1. PointerSound(p) /\ p \in Pointer
    BY <1>5, <1>9 DEF ProbingInv
  <2>2. /\ \A other : Registering(loop, p, other) => Registering(t, p, other)
        /\ OneRegisters(loop, p) => OneRegisters(t, p)
        /\ NoneRegisters(loop, p) => NoneRegisters(t, p)
    BY <1>3, <2>1 DEF KeepsRegistrations
  <2> QED
    BY <1>5, <2>1, <2>2 DEF PointerSound
<1>10. ASSUME NEW other \in Arrivals PROVE HelperSound(t, other, probe'[other])
  <2>1. CASE other = id
    BY <1>1, <1>6, <2>1
  <2>2. CASE other # id
    <3>1. HelperSound(loop, other, probe[other])
      BY DEF ProbingInv
    <3>2. HelperSound(left, other, probe[other])
      BY <3>1, FewerAreSound
    <3>3. HelperSound(t, other, probe[other])
      BY <1>4, <2>2, <3>2, FewerAreSound
    <3> QED
      BY <1>6, <2>2, <3>3
  <2> QED
    BY <2>1, <2>2
<1> QED
  BY <1>5, <1>7, <1>8, <1>9, <1>10 DEF ProbingInv

(* The loop as it is keeps itself.                                           *)
LEMMA LoopStays ==
    ASSUME ProbingInv
    PROVE  /\ loop \in Seq(Entries)
           /\ \A other \in Arrivals : Keeps(loop, loop, other)
           /\ KeepsRegistrations(loop, loop, Pointer)
BY DEF ProbingInv, TypeOK, Keeps, KeepsRegistrations

(* So does what is left when a post is taken.                                *)
LEMMA LoopGoesOn ==
    ASSUME ProbingInv, loop # <<>>
    PROVE  /\ Head(loop) \in Entries /\ Tail(loop) \in Seq(Entries)
           /\ \A other \in Arrivals : Keeps(loop, Tail(loop), other)
           /\ \A other : Has(Tail(loop), "register", other) => Has(loop, "register", other)
           /\ \A other : Once(loop, "register", other) => Once(Tail(loop), "register", other)
<1>1. loop \in Seq(Entries)
  BY DEF ProbingInv, TypeOK
<1>2. Head(loop) \in Entries /\ Tail(loop) \in Seq(Entries)
  BY <1>1, Taken
<1>3. /\ \A does, id : Has(Tail(loop), does, id) => Has(loop, does, id)
      /\ \A does, id : Once(loop, does, id) => Once(Tail(loop), does, id)
      /\ \A id : StopsLast(loop, id) => StopsLast(Tail(loop), id)
  BY <1>1, Left
<1> QED
  BY <1>2, <1>3 DEF Keeps

(* Only a helper that is there is posted to.                                 *)
LEMMA PostedIsThere ==
    ASSUME NEW s, NEW id, NEW p, HelperSound(s, id, p), NEW does \in Does, Has(s, does, id)
    PROVE  p.at # "none"
BY DEF HelperSound, Beginning

(* A post is dropped: that to a helper that is deleted, or the registration  *)
(* of a pointer that is known already.                                       *)
LEMMA DroppedStep ==
    ASSUME ProbingInv, loop # <<>>, loop' = Tail(loop),
           Head(loop).does = "register" => Head(loop).pointer \in raced,
           UNCHANGED <<usb, arrivals, known, announced, raced, probe>>
    PROVE  ProbingInv'
<1> DEFINE t == Tail(loop)
<1>1. /\ t \in Seq(Entries)
      /\ \A other \in Arrivals : Keeps(loop, t, other)
      /\ \A other : Has(t, "register", other) => Has(loop, "register", other)
      /\ \A other : Once(loop, "register", other) => Once(t, "register", other)
  BY LoopGoesOn
<1>2. KeepsRegistrations(loop, t, Pointer \ raced)
  BY RegistrationsLeft DEF ProbingInv, TypeOK
<1>3. loop' = t
  OBVIOUS
<1> HIDE DEF t
<1>4. TypeOK'
  BY <1>1, <1>3 DEF ProbingInv, TypeOK
<1>5. Registered'
  BY <1>1, <1>3 DEF ProbingInv, Registered
<1>6. ASSUME NEW p \in (Pointer \ raced)' PROVE PointerSound(p)'
  <2>1. PointerSound(p) /\ p \in Pointer \ raced
    BY <1>6 DEF ProbingInv
  <2>2. /\ \A other : Registering(loop, p, other) => Registering(t, p, other)
        /\ OneRegisters(loop, p) => OneRegisters(t, p)
        /\ NoneRegisters(loop, p) => NoneRegisters(t, p)
    BY <1>2, <2>1 DEF KeepsRegistrations
  <2> QED
    BY <1>3, <2>1, <2>2 DEF PointerSound
<1>7. ASSUME NEW other \in Arrivals PROVE HelperSound(t, other, probe[other])
  <2>1. HelperSound(loop, other, probe[other])
    BY DEF ProbingInv
  <2> QED
    BY <1>1, <2>1, FewerAreSound
<1> QED
  BY <1>3, <1>4, <1>5, <1>6, <1>7 DEF ProbingInv

(* A slot that was posted is run.                                            *)
LEMMA RunStep ==
    ASSUME ProbingInv, RunPosted PROVE ProbingInv'
<1> DEFINE e == Head(loop)
           id == e.id
           p == probe[id]
           s == Tail(loop)
<1>1. loop # <<>> /\ e.does # "register"
  BY DEF RunPosted
<1>2. /\ e \in Entries /\ s \in Seq(Entries)
      /\ \A other \in Arrivals : Keeps(loop, s, other)
      /\ \A other : Has(s, "register", other) => Has(loop, "register", other)
      /\ \A other : Once(loop, "register", other) => Once(s, "register", other)
  BY <1>1, LoopGoesOn
<1>3. e.does \in Does /\ id \in Arrivals
  BY <1>1, <1>2, EntryFacts
<1>4. KeepsRegistrations(loop, s, Pointer)
  BY <1>1, RegistrationsLeft DEF ProbingInv, TypeOK
<1>5. p \in Probes /\ HelperSound(loop, id, p)
  BY <1>3 DEF ProbingInv, TypeOK
<1>6. /\ Has(loop, e.does, id)
      /\ Once(loop, e.does, id) => ~Has(s, e.does, id)
      /\ e.does = "doStopSession" /\ StopsLast(loop, id) => ~Has(s, "processQueue", id)
  BY <1>1, Left DEF ProbingInv, TypeOK
<1>7. CASE probe[id].at = "gone"
  BY <1>1, <1>7, DroppedStep DEF RunPosted
<1>8. CASE probe[id].at # "gone"
  <2>1. PICK r \in Runs(e.does, Slot(p)) : Becomes(id, r, s)
    BY <1>8 DEF RunPosted
  <2> HIDE DEF e, id, p, s
  <2>2. p.at # "none" /\ HelperSound(s, id, p)
    BY <1>2, <1>3, <1>5, <1>6, PostedIsThere, FewerAreSound
  <2>3. p.at # "gone"
    BY <1>8 DEF p
  <2>4. SlotSound(s, id, r)
    <3>1. CASE e.does = "next"
      <4>1. PICK x \in NextStateLogic(Slot(p)) : r = Begins(x)
        BY <2>1, <3>1 DEF Runs
      <4>2. NextDue(p)
        BY <1>5, <1>6, <3>1 DEF HelperSound, Asking
      <4>3. p.at # "Finished" => ~Has(s, "next", id)
        BY <1>5, <1>6, <2>3, <3>1 DEF HelperSound, Beginning
      <4> QED
        BY <1>2, <1>3, <1>5, <2>2, <2>3, <4>1, <4>2, <4>3, NextSound
    <3>2. CASE e.does = "processQueue"
      <4>1. r \in ProcessQueue(Slot(p))
        BY <2>1, <3>2 DEF Runs
      <4>2. p.at \in Queries \cup {"StoppingRPCSession", "Finished"}
        BY <1>5, <1>6, <2>2, <2>3, <3>2 DEF HelperSound, Beginning, Probes, Places
      <4>3. p.reports # <<"ok">>
        BY <1>5, <1>6, <2>3, <3>2 DEF HelperSound, Beginning, Reporting
      <4> QED
        BY <1>2, <1>3, <1>5, <2>2, <4>1, <4>2, <4>3, QueueSound
    <3>3. CASE e.does = "doStopSession"
      <4>1. r = DoStopSession(Slot(p))
        BY <2>1, <3>3 DEF Runs
      <4>2. p.at \in {"StartingRPCSession", "StoppingRPCSession", "Finished"} \cup Queries
        BY <1>5, <1>6, <2>2, <2>3, <3>3 DEF HelperSound, Beginning, Probes, Places
      <4>3. p.init = "none"
        BY <1>5, <1>6, <3>3 DEF HelperSound, Opening
      <4>4. p.at = "StoppingRPCSession" /\ ~p.error /\ p.operation = "none" => ~Has(s, "processQueue", id)
        BY <1>5, <1>6, <3>3 DEF HelperSound, Stopping
      <4> QED
        BY <1>2, <1>3, <1>5, <2>2, <4>1, <4>2, <4>3, <4>4, StopSound
    <3>4. CASE e.does = "serialInit"
      <4>1. r = SerialInit(Slot(p))
        BY <2>1, <3>4 DEF Runs
      <4>2. p.init # "none" /\ ~Has(s, "serialInit", id)
        BY <1>5, <1>6, <3>4 DEF HelperSound, Opening, InitDue
      <4> QED
        BY <1>2, <1>3, <1>5, <2>2, <4>1, <4>2, InitSound
    <3> QED
      BY <1>3, <3>1, <3>2, <3>3, <3>4 DEF Does
  <2>5. probe[id].at # "none"
    BY <2>2 DEF p
  <2> QED
    BY <1>2, <1>3, <1>4, <2>1, <2>4, <2>5, HelperStep
<1> QED
  BY <1>7, <1>8

(* A slot of a helper that was not posted.                                   *)
LEMMA OwnStep ==
    ASSUME ProbingInv, NEW id \in Arrivals, NEW r, probe[id].at # "none", SlotSound(loop, id, r), Becomes(id, r, loop)
    PROVE  ProbingInv'
<1>1. /\ loop \in Seq(Entries)
      /\ \A other \in Arrivals : Keeps(loop, loop, other)
      /\ KeepsRegistrations(loop, loop, Pointer)
  BY LoopStays
<1> DEFINE left == loop
<1>2. Becomes(id, r, left) /\ left = loop
  OBVIOUS
<1> HIDE DEF left
<1> QED
  BY <1>1, <1>2, HelperStep

(* The helper of an arrival, as the invariant has it.                        *)
LEMMA TheHelper ==
    ASSUME ProbingInv, NEW id \in Arrivals
    PROVE  probe[id] \in Probes /\ HelperSound(loop, id, probe[id]) /\ loop \in Seq(Entries)
BY DEF ProbingInv, TypeOK

(* The port is looked for.                                                   *)
LEMMA FindStep ==
    ASSUME ProbingInv, NEW id \in Arrivals, FindMatchingPort(id) PROVE ProbingInv'
<1> DEFINE p == probe[id]
           n == p.tries - 1
           tried == [p EXCEPT !.tries = n]
           over == [p EXCEPT !.tries = 0]
<1>1. p \in Probes /\ HelperSound(loop, id, p) /\ loop \in Seq(Entries)
  BY TheHelper
<1>2. p.at = "FindingSerialPort" /\ p.tries > 0
  BY DEF FindMatchingPort
<1>3. n \in Nat /\ 0 \in Nat
  BY <1>1, <1>2 DEF Probes
<1>4. tried.tries = n /\ [tried EXCEPT !.tries = 0] = over
  BY <1>1, <1>3 DEF Probes
<1>5. /\ SlotSound(loop, id, Finish(Slot(tried), "error"))
      /\ SlotSound(loop, id, Slot(tried))
  <2> HIDE DEF p, n
  <2> QED
    BY <1>1, <1>2, <1>3, FinderSound
<1>6. SlotSound(loop, id, Post(Slot(over), "next"))
  <2> HIDE DEF p
  <2> QED
    BY <1>1, <1>2, <1>3, FinderSound
<1>7. \/ Becomes(id, Finish(Slot(tried), "error"), loop)
      \/ Becomes(id, Post(Slot(over), "next"), loop)
      \/ Becomes(id, Slot(tried), loop)
  BY <1>4 DEF FindMatchingPort
<1>8. probe[id].at # "none"
  BY <1>2
<1> QED
  BY <1>5, <1>6, <1>7, <1>8, OwnStep

(* The port is opened, or the helper gives up.                               *)
LEMMA OpenStep ==
    ASSUME ProbingInv, NEW id \in Arrivals, OpenPort(id) PROVE ProbingInv'
<1> DEFINE p == probe[id]
           n == p.tries - 1
           tried == [p EXCEPT !.tries = n]
           over == [p EXCEPT !.tries = 0]
<1>1. p \in Probes /\ HelperSound(loop, id, p) /\ loop \in Seq(Entries)
  BY TheHelper
<1>2. p.init = "OpeningPort" /\ p.tries > 0 /\ p.init # "none"
  BY DEF OpenPort
<1>3. n \in Nat /\ 0 \in Nat
  BY <1>1, <1>2 DEF Probes
<1>4. tried.tries = n /\ [tried EXCEPT !.tries = 0] = over
  BY <1>1, <1>3 DEF Probes
<1>5. p.at = "StartingRPCSession" /\ p.session = "Starting" /\ AllErrors(p.reports) /\ ~Has(loop, "serialInit", id)
  BY <1>1, <1>2, WhileOpening
<1>6. /\ tried \in Probes /\ tried.at = p.at /\ tried.dfu = p.dfu /\ tried.init = p.init /\ tried.session = p.session
      /\ tried.error = p.error /\ tried.operation = p.operation /\ tried.reports = p.reports
  <2> HIDE DEF p, n
  <2> QED
    BY <1>1, <1>3, Tried
<1>7. /\ over \in Probes /\ over.at = p.at /\ over.dfu = p.dfu /\ over.init = p.init /\ over.session = p.session
      /\ over.error = p.error /\ over.operation = p.operation /\ over.reports = p.reports /\ over.tries = 0
  <2> HIDE DEF p
  <2> QED
    BY <1>1, <1>3, Tried
<1>8. \/ Becomes(id, Post(Slot(over), "serialInit"), loop)
      \/ Becomes(id, EndsEarly(tried), loop)
      \/ Becomes(id, Slot(tried), loop)
  BY <1>4 DEF OpenPort
<1>9. probe[id].at # "none"
  BY <1>5
<1> HIDE DEF p, n, tried, over
<1>10. SlotSound(loop, id, Post(Slot(over), "serialInit"))
  BY <1>1, <1>2, <1>5, <1>7, OpeningSound
<1>11. SlotSound(loop, id, Slot(tried))
  BY <1>1, <1>2, <1>5, <1>6, OpeningSound
<1>12. SlotSound(loop, id, EndsEarly(tried))
  BY <1>1, <1>5, <1>6, EarlySound
<1> QED
  BY <1>8, <1>9, <1>10, <1>11, <1>12, OwnStep

(* While an operation on the port is under way nothing is posted for it.     *)
LEMMA NothingPosted ==
    ASSUME ProbingInv, NEW id \in Arrivals, [does |-> "serialInit", id |-> id] \notin Range(loop)
    PROVE  ~Has(loop, "serialInit", id)
<1>1. loop \in Seq(Entries)
  BY TheHelper
<1>2. ASSUME NEW i \in DOMAIN loop, Is(loop, i, "serialInit", id) PROVE FALSE
  <2>1. loop[i] \in Entries
    BY <1>1, <1>2, ElementOfSeq, LenProperties
  <2>2. loop[i] \in Posts
    BY <1>2, <2>1 DEF Entries, Registrations, Is
  <2>3. loop[i] = [does |-> "serialInit", id |-> id]
    BY <1>2, <2>2 DEF Posts, Is
  <2> QED
    BY <2>3 DEF Range
<1> QED
  BY <1>2 DEF Has

(* An operation on the port ends.                                            *)
LEMMA SerialStep ==
    ASSUME ProbingInv, NEW id \in Arrivals, SerialOperationEnds(id) PROVE ProbingInv'
<1> DEFINE p == probe[id]
<1>1. p \in Probes /\ HelperSound(loop, id, p) /\ loop \in Seq(Entries)
  BY TheHelper
<1>2. p.init \in {"SkippingMOTD", "StartingRPC"} /\ [does |-> "serialInit", id |-> id] \notin Range(loop)
  BY DEF SerialOperationEnds, MOTDSkipped, RPCStarted, SerialOperationFails, Under
<1>3. ~Has(loop, "serialInit", id)
  BY <1>2, NothingPosted
<1>4. p.init # "none" /\ p.init # "OpeningPort"
  BY <1>2
<1>5. p.at = "StartingRPCSession" /\ p.session = "Starting" /\ AllErrors(p.reports)
  BY <1>1, <1>4, WhileOpening
<1>6. Becomes(id, Post(Slot(p), "serialInit"), loop) \/ Becomes(id, EndsEarly(p), loop)
  BY DEF SerialOperationEnds, MOTDSkipped, RPCStarted, SerialOperationFails
<1>7. probe[id].at # "none"
  BY <1>5
<1> HIDE DEF p
<1>8. SlotSound(loop, id, Post(Slot(p), "serialInit"))
  BY <1>1, <1>3, <1>4, OpeningSound
<1>9. SlotSound(loop, id, EndsEarly(p))
  BY <1>1, <1>3, <1>5, EarlySound
<1> QED
  BY <1>6, <1>7, <1>8, <1>9, OwnStep

(* The operation of the session ends.                                        *)
LEMMA OperationStep ==
    ASSUME ProbingInv, NEW id \in Arrivals, OperationEnds(id) PROVE ProbingInv'
<1> DEFINE p == probe[id]
<1>1. p \in Probes /\ HelperSound(loop, id, p) /\ loop \in Seq(Entries)
  BY TheHelper
<1>2. p.operation = "running" /\ p.operation # "none"
  BY DEF OperationEnds
<1>3. p.at \in Queries \cup {"Finished"}
  BY <1>1, <1>2, Asked
<1>4. probe[id].at # "none"
  BY <1>3 DEF Queries
<1>5. CASE Becomes(id, OperationFails(Slot(p)), loop)
  <2>1. SlotSound(loop, id, OperationFails(Slot(p)))
    <3> HIDE DEF p
    <3> QED
      BY <1>1, <1>2, FailureSound
  <2> QED
    BY <1>4, <1>5, <2>1, OwnStep
<1>6. CASE ~p.lost /\ \E present \in BOOLEAN : Becomes(id, OperationSucceeds(Slot(p), present), loop)
  <2>1. PICK present \in BOOLEAN : Becomes(id, OperationSucceeds(Slot(p), present), loop)
    BY <1>6
  <2>2. SlotSound(loop, id, OperationSucceeds(Slot(p), present))
    <3> HIDE DEF p
    <3> QED
      BY <1>1, <1>2, <1>6, AnswerSound
  <2> QED
    BY <1>4, <2>1, <2>2, OwnStep
<1> QED
  BY <1>5, <1>6 DEF OperationEnds

(* The port fails.                                                           *)
LEMMA LossStep ==
    ASSUME ProbingInv, NEW id \in Arrivals, PortIsLost(id) PROVE ProbingInv'
<1> DEFINE p == probe[id]
           r == StopSession(Slot([p EXCEPT !.lost = TRUE]))
<1>1. p \in Probes /\ HelperSound(loop, id, p) /\ loop \in Seq(Entries)
  BY TheHelper
<1>2. IsUp(p) /\ Becomes(id, r, loop)
  BY DEF PortIsLost
<1>3. p.at # "none" /\ SlotSound(loop, id, r)
  <2> HIDE DEF p
  <2> QED
    BY <1>1, <1>2, LossSound
<1> HIDE DEF r
<1> QED
  BY <1>2, <1>3, OwnStep

(* A helper is deleted.                                                      *)
LEMMA DeletionStep ==
    ASSUME ProbingInv, NEW id \in Arrivals, Deletion(id) PROVE ProbingInv'
<1> DEFINE p == probe[id]
           q == [NoProbe EXCEPT !.at = "gone", !.reports = p.reports]
<1>1. p \in Probes /\ HelperSound(loop, id, p) /\ probe \in [Arrivals -> Probes]
  BY DEF ProbingInv, TypeOK
<1>2. /\ p.at = "Finished" /\ probe' = [probe EXCEPT ![id] = q]
      /\ UNCHANGED <<usb, arrivals, known, announced, raced, loop>>
  BY DEF Deletion
<1> HIDE DEF q
<1>3. q \in Probes /\ q.at = "gone" /\ HelperSound(loop, id, q)
  BY <1>1, <1>2, DeletionSound DEF q
<1>4. /\ probe' \in [Arrivals -> Probes] /\ probe'[id] = q
      /\ \A other \in Arrivals : other # id => probe'[other] = probe[other]
  BY <1>1, <1>2, <1>3
<1>5. TypeOK'
  BY <1>2, <1>4 DEF ProbingInv, TypeOK
<1>6. Registered'
  <2>1. ~Has(loop, "register", id) /\ id <= arrivals
    BY <1>2 DEF ProbingInv, Registered
  <2> QED
    BY <1>2, <1>3, <1>4, <2>1 DEF ProbingInv, Registered
<1>7. ASSUME NEW x \in (Pointer \ raced)' PROVE PointerSound(x)'
  BY <1>2, <1>7 DEF ProbingInv, PointerSound
<1>8. ASSUME NEW other \in Arrivals PROVE HelperSound(loop, other, probe'[other])
  BY <1>3, <1>4 DEF ProbingInv
<1> QED
  BY <1>2, <1>5, <1>6, <1>7, <1>8 DEF ProbingInv

(* The first step of a new helper is posted.                                 *)
LEMMA CreatedIsSound ==
    ASSUME NEW s, NEW t, NEW id \in Arrivals, GainsOne(s, t, id, "next"), \A does \in Does : ~Has(s, does, id),
           NEW dfu \in BOOLEAN, NEW q, q = [NoProbe EXCEPT !.at = "Ready", !.dfu = dfu]
    PROVE  q \in Probes /\ HelperSound(t, id, q)
<1>1. /\ q.at = "Ready" /\ q.init = "none" /\ q.session = "Stopped" /\ ~q.error /\ q.operation = "none"
      /\ q.reports = <<>> /\ q.lost = FALSE /\ q.tries = 0 /\ q.answered = {} /\ q.dfu = dfu
  BY DEF NoProbe
<1>2. q \in Probes
  <2>1. <<>> \in Seq({"ok", "error"})
    BY EmptySeq
  <2> QED
    BY <2>1 DEF NoProbe, Probes, Places, SessionStates
<1>3. /\ Once(t, "next", id)
      /\ ~Has(t, "processQueue", id) /\ ~Has(t, "doStopSession", id) /\ ~Has(t, "serialInit", id)
  BY DEF GainsOne, Does
<1>4. Beginning(t, id, q)
  BY <1>1, <1>3 DEF Beginning
<1>5. Opening(t, id, q)
  BY <1>1, <1>3 DEF Opening, Once, Has
<1>6. Asking(t, id, q)
  BY <1>1, EarlierFacts DEF Asking, NextDue, Queries
<1>7. Stopping(t, id, q)
  BY <1>1, <1>3 DEF Stopping, Queries
<1>8. Reporting(t, id, q)
  BY <1>1 DEF Reporting, AllErrors
<1> QED
  BY <1>2, <1>4, <1>5, <1>6, <1>7, <1>8 DEF HelperSound

(* A device is announced, and a helper is created for it or not.             *)
LEMMA AnnouncedStep ==
    ASSUME ProbingInv, loop # <<>>, Head(loop).does = "register", Head(loop).pointer \notin known,
           known' = known \cup {Head(loop).pointer}, announced' = announced \cup {Head(loop).id},
           UNCHANGED <<usb, arrivals, raced>>,
           NEW q \in Probes, probe' = [probe EXCEPT ![Head(loop).id] = q],
           NEW posts \in Seq(Does), loop' = Tail(loop) \o Events(Head(loop).id, posts),
           HelperSound(loop', Head(loop).id, q)
    PROVE  ProbingInv'
<1> DEFINE e == Head(loop)
           id == e.id
           p == e.pointer
           s == Tail(loop)
           t == s \o Events(id, posts)
<1>1. loop \in Seq(Entries) /\ probe \in [Arrivals -> Probes]
  BY DEF ProbingInv, TypeOK
<1>2. /\ e \in Entries /\ s \in Seq(Entries)
      /\ \A other \in Arrivals : Keeps(loop, s, other)
      /\ \A other : Has(s, "register", other) => Has(loop, "register", other)
      /\ \A other : Once(loop, "register", other) => Once(s, "register", other)
  BY LoopGoesOn
<1>3. id \in Arrivals /\ p \in Pointer
  BY <1>2, EntryFacts
<1>4. 1 \in DOMAIN loop /\ Registers(loop, 1, p) /\ loop[1].id = id
  BY <1>1, Taken DEF Registers
<1>5. Has(loop, "register", id) /\ (Once(loop, "register", id) => ~Has(s, "register", id))
  <2>1. /\ Has(loop, Head(loop).does, Head(loop).id)
        /\ Once(loop, Head(loop).does, Head(loop).id) => ~Has(Tail(loop), Head(loop).does, Head(loop).id)
    BY <1>1, Left
  <2> QED
    BY <2>1
<1>6. KeepsRegistrations(loop, s, Pointer \ {p}) /\ (OneRegisters(loop, p) => NoneRegisters(s, p))
  BY <1>1, <1>4, RegistrationsLeft, LastRegistration
<1>7. t \in Seq(Entries) /\ \A other : other # id => Keeps(s, t, other)
  BY <1>2, <1>3, Added, OthersAlone
<1>8. /\ KeepsRegistrations(s, t, Pointer)
      /\ \A other : Has(t, "register", other) => Has(s, "register", other)
      /\ \A other : Once(s, "register", other) => Once(t, "register", other)
  BY <1>2, <1>3, RegistrationsStay
<1>9. /\ loop' = t /\ probe' = [probe EXCEPT ![id] = q] /\ known' = known \cup {p} /\ announced' = announced \cup {id}
      /\ p \notin known /\ HelperSound(t, id, q)
  OBVIOUS
<1> HIDE DEF t, s, p, id, e
<1>10. /\ probe' \in [Arrivals -> Probes] /\ probe'[id] = q
       /\ \A other \in Arrivals : other # id => probe'[other] = probe[other]
  BY <1>1, <1>3, <1>9
<1>11. TypeOK'
  BY <1>3, <1>7, <1>9, <1>10 DEF ProbingInv, TypeOK
<1>12. Registered'
  <2>1. id <= arrivals /\ ~Has(s, "register", id)
    BY <1>3, <1>5 DEF ProbingInv, Registered
  <2>2. ASSUME NEW other \in Arrivals
        PROVE  /\ Once(t, "register", other)
               /\ Has(t, "register", other) => other # id /\ Has(loop, "register", other)
    BY <1>2, <1>8, <2>1 DEF ProbingInv, Registered
  <2>3. ASSUME NEW other \in Arrivals
        PROVE  /\ Has(t, "register", other) => probe'[other].at = "none"
               /\ Has(t, "register", other) \/ probe'[other].at # "none" => other <= arrivals
    BY <1>10, <2>1, <2>2 DEF ProbingInv, Registered
  <2>4. arrivals' = arrivals
    OBVIOUS
  <2>5. ASSUME NEW other \in Arrivals
        PROVE  /\ Once(loop', "register", other)
               /\ Has(loop', "register", other) => probe'[other].at = "none"
               /\ Has(loop', "register", other) \/ probe'[other].at # "none" => other <= arrivals'
    BY ZenonT(30), <1>9, <2>2, <2>3, <2>4
  <2> QED
    BY <2>5 DEF Registered
<1>13. ASSUME NEW x \in (Pointer \ raced)' PROVE PointerSound(x)'
  <2>1. PointerSound(x) /\ x \in Pointer
    BY <1>13 DEF ProbingInv
  <2>2. CASE x = p
    <3>1. usb[p] # 0 /\ Registering(loop, p, usb[p]) /\ OneRegisters(loop, p)
      BY <1>4, <1>9, <2>1, <2>2 DEF PointerSound, NoneRegisters
    <3>2. id = usb[p]
      BY <1>4, <3>1 DEF Registering, OneRegisters
    <3>3. NoneRegisters(t, p)
      BY <1>3, <1>6, <1>8, <3>1 DEF KeepsRegistrations
    <3> QED
      BY <1>9, <2>2, <3>1, <3>2, <3>3 DEF PointerSound
  <2>3. CASE x # p
    <3>1. /\ \A other : Registering(loop, x, other) => Registering(t, x, other)
          /\ OneRegisters(loop, x) => OneRegisters(t, x)
          /\ NoneRegisters(loop, x) => NoneRegisters(t, x)
      BY <1>6, <1>8, <2>1, <2>3 DEF KeepsRegistrations
    <3>2. x \in known' <=> x \in known
      BY <1>9, <2>3
    <3>3. usb[x] \in announced => usb[x] \in announced'
      BY <1>9
    <3>4. usb' = usb
      OBVIOUS
    <3>5. /\ usb'[x] # 0 /\ x \notin known' => Registering(t, x, usb'[x]) /\ OneRegisters(t, x)
          /\ usb'[x] # 0 /\ x \in known' => usb'[x] \in announced'
          /\ usb'[x] = 0 => x \notin known'
          /\ usb'[x] = 0 \/ x \in known' => NoneRegisters(t, x)
      BY <2>1, <3>1, <3>2, <3>3, <3>4 DEF PointerSound
    <3> QED
      BY <1>9, <3>5 DEF PointerSound
  <2> QED
    BY <2>2, <2>3
<1>14. ASSUME NEW other \in Arrivals PROVE HelperSound(t, other, probe'[other])
  <2>1. CASE other = id
    BY <1>9, <1>10, <2>1
  <2>2. CASE other # id
    <3>1. HelperSound(loop, other, probe[other])
      BY DEF ProbingInv
    <3>2. HelperSound(s, other, probe[other])
      BY <1>2, <3>1, FewerAreSound
    <3>3. HelperSound(t, other, probe[other])
      BY <1>7, <2>2, <3>2, FewerAreSound
    <3> QED
      BY <1>10, <2>2, <3>3
  <2> QED
    BY <2>1, <2>2
<1> QED
  BY <1>9, <1>11, <1>12, <1>13, <1>14 DEF ProbingInv

(* A registration is run.                                                    *)
LEMMA RegistrationStep ==
    ASSUME ProbingInv, RunRegistration PROVE ProbingInv'
<1> DEFINE e == Head(loop)
           id == e.id
           p == e.pointer
           s == Tail(loop)
           none == <<>>
<1>1. loop # <<>> /\ e.does = "register" /\ UNCHANGED <<usb, arrivals, raced>>
  BY DEF RunRegistration
<1>2. loop \in Seq(Entries) /\ probe \in [Arrivals -> Probes]
  BY DEF ProbingInv, TypeOK
<1>3. e \in Entries /\ s \in Seq(Entries) /\ \A other \in Arrivals : Keeps(loop, s, other)
  BY <1>1, LoopGoesOn
<1>4. id \in Arrivals /\ p \in Pointer
  BY <1>1, <1>3, EntryFacts
<1>5. 1 \in DOMAIN loop /\ Registers(loop, 1, p)
  BY <1>1, <1>2, Taken DEF Registers
<1>6. Has(loop, "register", id)
  <2>1. Has(loop, Head(loop).does, Head(loop).id)
    BY <1>1, <1>2, Left
  <2> QED
    BY <1>1, <2>1
<1>7. CASE p \in known
  <2>1. p \in raced
    BY <1>4, <1>5, <1>7 DEF ProbingInv, PointerSound, NoneRegisters
  <2>2. loop' = Tail(loop) /\ UNCHANGED <<known, announced, probe>>
    BY <1>1, <1>7 DEF RunRegistration
  <2> QED
    BY <1>1, <2>1, <2>2, DroppedStep
<1>8. CASE p \notin known
  <2>1. known' = known \cup {p} /\ announced' = announced \cup {id}
    BY <1>8 DEF RunRegistration
  <2>2. PICK info \in DeviceInfos :
            /\ probe' = [probe EXCEPT ![id] = Probed(info)]
            /\ loop' = s \o IF info = "incomplete" THEN <<>> ELSE Events(id, <<"next">>)
    BY <1>8 DEF RunRegistration
  <2>3. HelperSound(loop, id, probe[id]) /\ probe[id].at = "none"
    BY <1>4, <1>6 DEF ProbingInv, Registered
  <2>4. probe[id] = NoProbe /\ \A does \in Does : ~Has(loop, does, id)
    BY <2>3 DEF HelperSound, Beginning
  <2>5. \A does \in Does : ~Has(s, does, id)
    BY <1>3, <1>4, <2>4 DEF Keeps
  <2>6. CASE info = "incomplete"
    <3>1. Events(id, none) = none
      BY DEF Events
    <3>2. Probed(info) = probe[id]
      BY <2>4, <2>6 DEF Probed
    <3>3. loop' = s \o Events(id, none) /\ probe' = [probe EXCEPT ![id] = probe[id]]
      BY <2>2, <2>6, <3>1, <3>2
    <3>4. none \in Seq(Does)
      BY Postings
    <3>5. s \o Events(id, none) \in Seq(Entries) /\ Keeps(s, s \o Events(id, none), id)
      BY <1>3, <1>4, AddedNone
    <3>6. HelperSound(loop', id, probe[id])
      <4>1. HelperSound(s, id, probe[id])
        BY <1>3, <1>4, <2>3, FewerAreSound
      <4> HIDE DEF s, none
      <4> QED
        BY <3>3, <3>5, <4>1, FewerAreSound
    <3>7. probe[id] \in Probes
      BY <1>2, <1>4
    <3> DEFINE q == probe[id]
    <3>8. q \in Probes /\ probe' = [probe EXCEPT ![id] = q] /\ HelperSound(loop', id, q)
      BY <3>3, <3>6, <3>7
    <3> HIDE DEF q, none
    <3> QED
      BY <1>1, <1>8, <2>1, <3>3, <3>4, <3>8, AnnouncedStep
  <2>7. CASE info # "incomplete"
    <3> DEFINE dfu == info = "dfu"
               q == [NoProbe EXCEPT !.at = "Ready", !.dfu = dfu]
               next == "next"
               one == <<next>>
    <3>1. Probed(info) = q /\ dfu \in BOOLEAN
      BY <2>7 DEF Probed
    <3>2. loop' = s \o Events(id, one) /\ probe' = [probe EXCEPT ![id] = q]
      BY <2>2, <2>7, <3>1
    <3>3. next \in Does
      BY DEF Does
    <3> HIDE DEF dfu
    <3>4. one \in Seq(Does) /\ GainsOne(s, s \o Events(id, one), id, next)
      <4> HIDE DEF next
      <4> QED
        BY <1>3, <1>4, <3>3, Postings, AddedOne
    <3>5. q \in Probes /\ HelperSound(s \o Events(id, one), id, q)
      <4> HIDE DEF s, one, q
      <4> QED
        BY <1>4, <2>5, <3>1, <3>4, CreatedIsSound DEF q
    <3>6. HelperSound(loop', id, q)
      BY <3>2, <3>5
    <3> HIDE DEF q, one
    <3> QED
      BY <1>1, <1>8, <2>1, <3>2, <3>4, <3>5, <3>6, AnnouncedStep
  <2> QED
    BY <2>6, <2>7
<1> QED
  BY <1>7, <1>8

(* A device arrives.                                                         *)
LEMMA ArriveStep ==
    ASSUME ProbingInv, Arrive PROVE ProbingInv'
<1> DEFINE id == arrivals + 1
<1>1. PICK p \in Pointer :
          /\ usb[p] = 0
          /\ usb' = [usb EXCEPT ![p] = arrivals']
          /\ loop' = Append(loop, [does |-> "register", id |-> arrivals', pointer |-> p])
  BY DEF Arrive
<1>2. /\ arrivals < MaxArrivals /\ arrivals' = id
      /\ UNCHANGED <<known, announced, raced, probe>>
  BY DEF Arrive
<1>3. arrivals \in 0..MaxArrivals /\ loop \in Seq(Entries) /\ usb \in [Pointer -> 0..MaxArrivals]
  BY DEF ProbingInv, TypeOK
<1>4. id \in Arrivals /\ id \in 0..MaxArrivals /\ id # 0 /\ ~(id <= arrivals)
  BY <1>2, <1>3, CountsAreNumbers DEF Arrivals
<1>5. \A other \in Arrivals : other <= arrivals => other <= id
  BY <1>3 DEF Arrivals
<1> DEFINE t == Append(loop, [does |-> "register", id |-> id, pointer |-> p])
<1>6. loop' = t /\ usb' = [usb EXCEPT ![p] = id]
  BY <1>1, <1>2
<1> HIDE DEF id
<1>7. /\ t \in Seq(Entries)
      /\ KeepsRegistrations(loop, t, Pointer \ {p})
      /\ Registering(t, p, id) /\ (NoneRegisters(loop, p) => OneRegisters(t, p))
      /\ \A other : Keeps(loop, t, other)
      /\ \A other : Has(t, "register", other) => other = id \/ Has(loop, "register", other)
      /\ \A other : Once(loop, "register", other) /\ (other = id => ~Has(loop, "register", id)) => Once(t, "register", other)
  BY <1>3, <1>4, RegistrationPosted
<1> HIDE DEF t
<1>8. TypeOK'
  BY <1>2, <1>3, <1>4, <1>6, <1>7 DEF ProbingInv, TypeOK
<1>9. Registered'
  <2>1. ~Has(loop, "register", id) /\ probe[id].at = "none"
    BY <1>4 DEF ProbingInv, Registered
  <2>2. ASSUME NEW other \in Arrivals
        PROVE  /\ Once(t, "register", other)
               /\ Has(t, "register", other) => probe[other].at = "none"
               /\ Has(t, "register", other) \/ probe[other].at # "none" => other <= id
    <3>1. id <= id
      BY <1>3 DEF id
    <3>2. /\ Once(loop, "register", other)
          /\ Has(loop, "register", other) => probe[other].at = "none"
          /\ Has(loop, "register", other) \/ probe[other].at # "none" => other <= id
      BY <1>5 DEF ProbingInv, Registered
    <3> QED
      BY <1>7, <2>1, <3>1, <3>2
  <2> QED
    BY <1>2, <1>6, <2>2 DEF Registered
<1>10. ASSUME NEW x \in (Pointer \ raced)' PROVE PointerSound(x)'
  <2>1. PointerSound(x) /\ x \in Pointer
    BY <1>2, <1>10 DEF ProbingInv
  <2>2. CASE x = p
    <3>1. p \notin known /\ NoneRegisters(loop, p)
      BY <1>1, <2>1, <2>2 DEF PointerSound
    <3>2. usb'[p] = id
      BY <1>3, <1>6
    <3> QED
      BY <1>2, <1>4, <1>6, <1>7, <2>2, <3>1, <3>2 DEF PointerSound
  <2>3. CASE x # p
    <3>1. /\ \A other : Registering(loop, x, other) => Registering(t, x, other)
          /\ OneRegisters(loop, x) => OneRegisters(t, x)
          /\ NoneRegisters(loop, x) => NoneRegisters(t, x)
      BY <1>7, <2>1, <2>3 DEF KeepsRegistrations
    <3>2. usb'[x] = usb[x]
      BY <1>3, <1>6, <2>1, <2>3
    <3> QED
      BY <1>2, <1>6, <2>1, <3>1, <3>2 DEF PointerSound
  <2> QED
    BY <2>2, <2>3
<1>11. ASSUME NEW other \in Arrivals PROVE HelperSound(t, other, probe[other])
  <2>1. HelperSound(loop, other, probe[other])
    BY DEF ProbingInv
  <2> QED
    BY <1>7, <2>1, FewerAreSound
<1> QED
  BY <1>2, <1>6, <1>8, <1>9, <1>10, <1>11 DEF ProbingInv

(* A device leaves.                                                          *)
LEMMA LeaveStep ==
    ASSUME ProbingInv, Leave PROVE ProbingInv'
<1>1. PICK p \in Pointer :
          /\ usb[p] # 0
          /\ usb' = [usb EXCEPT ![p] = 0]
          /\ known' = known \ {p}
          /\ raced' = IF p \in known THEN raced ELSE raced \cup {p}
  BY DEF Leave, KnownWithout
<1>2. UNCHANGED <<arrivals, announced, loop, probe>>
  BY DEF Leave
<1>3. usb \in [Pointer -> 0..MaxArrivals] /\ 0 \in 0..MaxArrivals
  BY CountsAreNumbers DEF ProbingInv, TypeOK
<1>4. TypeOK'
  BY <1>1, <1>2, <1>3 DEF ProbingInv, TypeOK
<1>5. Registered'
  BY <1>2 DEF ProbingInv, Registered
<1>6. ASSUME NEW x \in (Pointer \ raced)' PROVE PointerSound(x)'
  <2>1. x \in Pointer \ raced /\ (x = p => p \in known) /\ PointerSound(x)
    BY <1>1, <1>6 DEF ProbingInv
  <2>2. CASE x = p
    <3>1. NoneRegisters(loop, x) /\ usb'[x] = 0 /\ x \notin known'
      BY <1>1, <1>3, <2>1, <2>2 DEF PointerSound
    <3> QED
      BY <1>2, <3>1 DEF PointerSound
  <2>3. CASE x # p
    <3>1. usb'[x] = usb[x] /\ (x \in known' <=> x \in known)
      BY <1>1, <1>3, <2>1, <2>3
    <3> QED
      BY <1>2, <2>1, <3>1 DEF PointerSound
  <2> QED
    BY <2>2, <2>3
<1>7. ASSUME NEW other \in Arrivals PROVE HelperSound(loop, other, probe[other])
  BY DEF ProbingInv
<1> QED
  BY <1>2, <1>4, <1>5, <1>6, <1>7 DEF ProbingInv

-----------------------------------------------------------------------------
(* The theorems                                                              *)

(* Nothing is plugged in when the application starts.                        *)
LEMMA InitIsSound == Init => ProbingInv
<1> SUFFICES ASSUME Init PROVE ProbingInv
  OBVIOUS
<1>1. loop = <<>> /\ loop \in Seq(Entries) /\ DOMAIN loop = {}
  BY EmptySeq DEF Init
<1>2. NoProbe \in Probes
  <2>1. <<>> \in Seq({"ok", "error"})
    BY EmptySeq
  <2> QED
    BY <2>1 DEF NoProbe, Probes, Places, SessionStates
<1>3. 0 \in 0..MaxArrivals
  BY CountsAreNumbers
<1>4. TypeOK
  BY <1>1, <1>2, <1>3 DEF Init, TypeOK
<1>5. \A does, id : ~Has(loop, does, id) /\ Once(loop, does, id)
  BY <1>1 DEF Has, Once
<1>6. \A id : StopsLast(loop, id)
  BY <1>1 DEF StopsLast
<1>7. Registered
  <2>1. \A id \in Arrivals : probe[id].at = "none"
    BY DEF Init, NoProbe
  <2> QED
    BY <1>5, <2>1 DEF Registered
<1>8. ASSUME NEW p \in Pointer PROVE PointerSound(p)
  <2>1. usb[p] = 0 /\ p \notin known
    BY DEF Init
  <2> QED
    BY <1>1, <2>1 DEF PointerSound, NoneRegisters
<1>9. ASSUME NEW id \in Arrivals PROVE HelperSound(loop, id, probe[id])
  <2> DEFINE p == probe[id]
  <2>1. p = NoProbe
    BY DEF Init
  <2>2. /\ p.at = "none" /\ ~p.dfu /\ p.init = "none" /\ p.session = "Stopped" /\ ~p.error /\ p.operation = "none"
        /\ p.reports = <<>>
    BY <2>1 DEF NoProbe
  <2> HIDE DEF p
  <2>3. Beginning(loop, id, p)
    BY <1>5, <2>1, <2>2 DEF Beginning
  <2>4. Opening(loop, id, p)
    BY <1>5, <2>2 DEF Opening
  <2>5. Asking(loop, id, p)
    BY <1>5, <2>2, EarlierFacts DEF Asking, Queries
  <2>6. Stopping(loop, id, p)
    BY <1>5, <1>6 DEF Stopping
  <2>7. Reporting(loop, id, p)
    BY <2>2 DEF Reporting, AllErrors
  <2> QED
    BY <2>3, <2>4, <2>5, <2>6, <2>7 DEF HelperSound, p
<1> QED
  BY <1>4, <1>7, <1>8, <1>9 DEF ProbingInv

(* Every step of the detector, the event loop and the helpers.               *)
LEMMA StepIsSound == ProbingInv /\ [Next]_vars => ProbingInv'
<1> SUFFICES ASSUME ProbingInv, [Next]_vars PROVE ProbingInv'
  OBVIOUS
<1>1. CASE Arrive
  BY <1>1, ArriveStep
<1>2. CASE Leave
  BY <1>2, LeaveStep
<1>3. CASE RunRegistration
  BY <1>3, RegistrationStep
<1>4. CASE RunPosted
  BY <1>4, RunStep
<1>5. ASSUME NEW id \in Arrivals, Helper(id) PROVE ProbingInv'
  BY <1>5, DeletionStep, FindStep, OpenStep, SerialStep, OperationStep, LossStep DEF Helper
<1>6. CASE UNCHANGED vars
  <2>1. UNCHANGED <<usb, arrivals, known, announced, raced, loop, probe>>
    BY <1>6 DEF vars
  <2>2. TypeOK'
    BY <2>1 DEF ProbingInv, TypeOK
  <2>3. Registered'
    BY <2>1 DEF ProbingInv, Registered
  <2>4. ASSUME NEW p \in (Pointer \ raced)' PROVE PointerSound(p)'
    BY <2>1, <2>4 DEF ProbingInv, PointerSound
  <2>5. ASSUME NEW id \in Arrivals PROVE HelperSound(loop, id, probe[id])
    BY DEF ProbingInv
  <2> QED
    BY <2>1, <2>2, <2>3, <2>4, <2>5 DEF ProbingInv
<1> QED
  BY <1>1, <1>2, <1>3, <1>4, <1>5, <1>6 DEF Next

(* The state of the detector, of every helper and of what is posted is what  *)
(* ProbingInv says, whatever comes, leaves and answers in between.           *)
THEOREM ProbingIsSound == FairSpec => []ProbingInv
<1>1. FairSpec => Init /\ [][Next]_vars
  BY PTL DEF FairSpec
<1> QED
  BY <1>1, InitIsSound, StepIsSound, PTL

(* A helper reports a device once, and only with every answer it needs, in a *)
(* session that was ended in good order (AbstractDeviceInfoHelper).          *)
THEOREM ReportsTrue == FairSpec => []ReportsAreTrue
<1>1. ProbingInv => ReportsAreTrue
  <2> SUFFICES ASSUME ProbingInv, NEW id \in Arrivals
               PROVE  LET p == probe[id] IN
                      /\ "ok" \in Range(p.reports) => Len(p.reports) = 1
                      /\ p.at = "Finished" /\ ~p.dfu /\ p.reports = <<"ok">> =>
                            /\ p.session = "Stopped" /\ ~p.error /\ p.operation = "none"
                            /\ Queries \ {"CheckingManifest"} \subseteq p.answered
    BY DEF ReportsAreTrue
  <2> DEFINE p == probe[id]
  <2>1. Reporting(loop, id, p)
    BY DEF ProbingInv, HelperSound
  <2> HIDE DEF p
  <2>2. ASSUME "ok" \in Range(p.reports) PROVE Len(p.reports) = 1
    <3>1. ~AllErrors(p.reports)
      BY <2>2 DEF AllErrors, Range
    <3>2. p.reports = <<"ok">>
      BY <2>1, <3>1 DEF Reporting
    <3> QED
      BY <3>2
  <2>3. ASSUME p.at = "Finished", ~p.dfu, p.reports = <<"ok">>
        PROVE  /\ p.session = "Stopped" /\ ~p.error /\ p.operation = "none"
               /\ Queries \ {"CheckingManifest"} \subseteq p.answered
    BY <2>1, <2>3 DEF Reporting
  <2> QED
    BY <2>2, <2>3 DEF p
<1> QED
  BY <1>1, ProbingIsSound, PTL

(* When everything posted is done, the detector knows exactly the devices    *)
(* that are plugged in, and has announced them, but for the pointers of a    *)
(* device that left before it was registered (USBDeviceDetector).            *)
THEOREM DetectorRight == FairSpec => []DetectorAgrees
<1>1. ProbingInv => DetectorAgrees
  <2> SUFFICES ASSUME ProbingInv, NEW p \in Pointer \ raced, \A i \in DOMAIN loop : loop[i].does # "register"
               PROVE  (p \in known <=> usb[p] # 0) /\ (usb[p] # 0 => usb[p] \in announced)
    BY DEF DetectorAgrees
  <2>1. PointerSound(p)
    BY DEF ProbingInv
  <2>2. \A id : ~Registering(loop, p, id)
    BY DEF Registering, Registers
  <2> QED
    BY <2>1, <2>2 DEF PointerSound
<1> QED
  BY <1>1, ProbingIsSound, PTL

================================================================================
