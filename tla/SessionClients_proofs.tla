------------------------- MODULE SessionClients_proofs -------------------------
(***************************************************************************)
(* Theorems about SessionClients, for every set of directory names and any *)
(* length of paths and of the line.                                        *)
(***************************************************************************)
EXTENDS SessionClients, SequenceTheorems, TLAPS

(* A client asks for its own kinds of requests only; those of the screens    *)
(* are about no path.                                                        *)
Requests ==
    [by : {"streamer"}, do : {"start", "stop", "input"}, path : {<<>>}]
        \cup [by : {"display"}, do : {"start", "stop", "frame"}, path : {<<>>}]
        \cup [by : {"files"}, do : {"list", "work"}, path : Seq(Name)]
FileViews == [history : Seq(Name), forward : Seq(Name), shown : Seq(Name) \cup {Nothing}, busy : BOOLEAN]

TypeOK ==
    /\ session \in {"new", "starting", "up", "down", "lost"}
    /\ line \in Seq(Requests)
    /\ streamer \in {"Stopped", "Starting", "Running", "Stopping"}
    /\ display \in {"Stopped", "Starting", "Running", "Stopping"}
    /\ bound \in {"none", "current", "gone", "reused"}
    /\ files \in FileViews
    /\ current \in {"none", "normal", "recovery"}
    /\ backend \in {"waiting", "ready", "busy"}
    /\ dev \in [streams : BOOLEAN, shows : BOOLEAN]

(* What belongs to the current device: without one in normal mode no session *)
(* has been started, the screens are not bound, and only the streamer may    *)
(* have put requests in a line; without a session nothing is streamed or     *)
(* shown.                                                                    *)
Attachment ==
    /\ current = "normal" => bound \in {"current", "reused"} /\ session # "lost"
    /\ current # "normal" => /\ session \in {"new", "down", "lost"}
                             /\ bound # "current"
                             /\ ClientsIn(line) \subseteq {"streamer"}
    /\ session # "up" => ~dev.streams /\ ~dev.shows

(* A request that switches a screen on or off is in a line.                  *)
Switches(requests, client) ==
    \E i \in DOMAIN requests : requests[i].by = client /\ requests[i].do \in {"start", "stop"}

(* A screen that hears of the session and is not about to be switched is as  *)
(* the device has it.                                                        *)
Started == session \in {"starting", "up"} /\ Hears
StreamerAgrees ==
    Started /\ "streamer" \notin upset /\ ~Switches(line, "streamer") =>
        streamer \notin {"Starting", "Stopping"} /\ (IsEnabled(streamer) <=> dev.streams)
DisplayAgrees ==
    Started /\ "display" \notin upset /\ ~Switches(line, "display") =>
        display \notin {"Starting", "Stopping"} /\ (display = "Running" <=> dev.shows)

(* The last request of the file manager in a line is about this path, or is  *)
(* work, after which the current path is listed.                             *)
EndsWith(requests, path) ==
    \A i \in DOMAIN requests :
        /\ requests[i].by = "files" /\ requests[i].do = "list"
        /\ \A j \in DOMAIN requests : j > i => requests[j].by # "files"
        => requests[i].path = path

FilesAgree ==
    /\ EndsWith(line, files.history)
    /\ "files" \notin upset /\ "files" \notin ClientsIn(line) => files.shown \in {files.history, Nothing}
    /\ files.shown = Nothing => files.history = <<>> /\ files.forward = <<>>

ClientsInv == TypeOK /\ Attachment /\ StreamerAgrees /\ DisplayAgrees /\ FilesAgree /\ StreamAskedFor

-----------------------------------------------------------------------------
(* Requests in a line                                                        *)

(* A request at the end of a line.                                           *)
LEMMA Appended ==
    ASSUME NEW s \in Seq(Requests), NEW r \in Requests
    PROVE  /\ Append(s, r) \in Seq(Requests)
           /\ \A c : Switches(Append(s, r), c) <=> Switches(s, c) \/ (r.by = c /\ r.do \in {"start", "stop"})
           /\ ClientsIn(Append(s, r)) = ClientsIn(s) \cup {r.by}
           /\ \A p : r.by # "files" /\ EndsWith(s, p) => EndsWith(Append(s, r), p)
           /\ \A p : r.by = "files" /\ (r.do = "list" => r.path = p) => EndsWith(Append(s, r), p)
<1> DEFINE t == Append(s, r)
           n == Len(s) + 1
<1>1. /\ t \in Seq(Requests)
      /\ DOMAIN t = DOMAIN s \cup {n} /\ t[n] = r
      /\ \A i \in DOMAIN s : t[i] = s[i] /\ i \in Nat /\ i < n
  BY AppendProperties
<1>2. n \in Nat
  BY <1>1
<1> HIDE DEF t, n
<1>3. \A c : Switches(t, c) <=> Switches(s, c) \/ (r.by = c /\ r.do \in {"start", "stop"})
  BY <1>1 DEF Switches
<1>4. ClientsIn(t) = ClientsIn(s) \cup {r.by}
  BY <1>1 DEF ClientsIn
<1>5. ASSUME NEW p, r.by # "files", EndsWith(s, p) PROVE EndsWith(t, p)
  BY <1>1, <1>2, <1>5 DEF EndsWith
<1>6. ASSUME NEW p, r.by = "files", r.do = "list" => r.path = p PROVE EndsWith(t, p)
  BY <1>1, <1>2, <1>6 DEF EndsWith
<1> QED
  BY <1>1, <1>3, <1>4, <1>5, <1>6 DEF t

(* The request at the head of a line, and what is behind it.                 *)
LEMMA Taken ==
    ASSUME NEW s \in Seq(Requests), s # <<>>
    PROVE  /\ Head(s) \in Requests /\ Tail(s) \in Seq(Requests)
           /\ \A c : Switches(s, c) <=>
                     Switches(Tail(s), c) \/ (Head(s).by = c /\ Head(s).do \in {"start", "stop"})
           /\ ClientsIn(s) = ClientsIn(Tail(s)) \cup {Head(s).by}
           /\ \A p : EndsWith(s, p) => EndsWith(Tail(s), p)
           /\ \A p : EndsWith(s, p) /\ "files" \notin ClientsIn(Tail(s))
                       /\ Head(s).by = "files" /\ Head(s).do = "list" => Head(s).path = p
<1> DEFINE t == Tail(s)
           r == Head(s)
<1>1. /\ r \in Requests /\ t \in Seq(Requests)
      /\ 1 \in DOMAIN s /\ r = s[1]
      /\ \A i \in DOMAIN t : i \in Nat \ {0} /\ i + 1 \in DOMAIN s /\ t[i] = s[i + 1]
      /\ \A i \in DOMAIN s : i \in Nat /\ (i # 1 => i > 1 /\ i - 1 \in DOMAIN t /\ t[i - 1] = s[i])
  BY HeadTailProperties
<1> HIDE DEF t, r
<1>2. ASSUME NEW c
      PROVE  Switches(s, c) <=> Switches(t, c) \/ (r.by = c /\ r.do \in {"start", "stop"})
  BY <1>1 DEF Switches
<1>3. ClientsIn(s) = ClientsIn(t) \cup {r.by}
  <2>1. \A x \in ClientsIn(t) : x \in ClientsIn(s)
    BY <1>1 DEF ClientsIn
  <2>2. ASSUME NEW x \in ClientsIn(s) PROVE x \in ClientsIn(t) \/ x = r.by
    <3>1. PICK i \in DOMAIN s : x = s[i].by
      BY DEF ClientsIn
    <3>2. i # 1 => i - 1 \in DOMAIN t /\ t[i - 1] = s[i]
      BY <1>1
    <3> QED
      BY <1>1, <3>1, <3>2 DEF ClientsIn
  <2>3. r.by \in ClientsIn(s)
    BY <1>1 DEF ClientsIn
  <2> QED
    BY <2>1, <2>2, <2>3
<1>4. ASSUME NEW p, EndsWith(s, p) PROVE EndsWith(t, p)
  <2> SUFFICES ASSUME NEW i \in DOMAIN t, t[i].by = "files", t[i].do = "list",
                      \A j \in DOMAIN t : j > i => t[j].by # "files"
               PROVE  t[i].path = p
    BY DEF EndsWith
  <2>1. i + 1 \in DOMAIN s /\ s[i + 1] = t[i] /\ i \in Nat \ {0}
    BY <1>1
  <2>2. ASSUME NEW j \in DOMAIN s, j > i + 1 PROVE s[j].by # "files"
    <3>1. j - 1 \in DOMAIN t /\ t[j - 1] = s[j] /\ j \in Nat
      BY <1>1, <2>1, <2>2
    <3>2. j - 1 > i
      BY <2>1, <2>2, <3>1
    <3> QED
      BY <3>1, <3>2
  <2> QED
    BY <1>4, <2>1, <2>2 DEF EndsWith
<1>5. ASSUME NEW p, EndsWith(s, p), "files" \notin ClientsIn(t), r.by = "files", r.do = "list"
      PROVE  r.path = p
  <2>1. ASSUME NEW j \in DOMAIN s, j > 1 PROVE s[j].by # "files"
    <3>1. j - 1 \in DOMAIN t /\ t[j - 1] = s[j]
      BY <1>1, <2>1
    <3>2. t[j - 1].by \in ClientsIn(t)
      BY <3>1 DEF ClientsIn
    <3> QED
      BY <1>5, <3>1, <3>2
  <2> QED
    BY <1>1, <1>5, <2>1 DEF EndsWith
<1> QED
  BY <1>1, <1>2, <1>3, <1>4, <1>5 DEF t, r

(* Nothing is in an empty line.                                              *)
LEMMA Emptied ==
    /\ <<>> \in Seq(Requests)
    /\ \A c : ~Switches(<<>>, c)
    /\ ClientsIn(<<>>) = {}
    /\ \A p : EndsWith(<<>>, p)
BY DEF Switches, ClientsIn, EndsWith

(* The client whose switch is in the line has a request in it. *)
LEMMA SwitchesAreClients ==
    ASSUME NEW s, NEW c, Switches(s, c) PROVE c \in ClientsIn(s)
BY DEF Switches, ClientsIn

(* The requests there are.                                                   *)
LEMMA RequestFields ==
    /\ \A r \in Requests : /\ r.by \in Clients
                           /\ r.by = "files" <=> r.do \in {"list", "work"}
                           /\ r.by = "streamer" => r.do \in {"start", "stop", "input"}
                           /\ r.by = "display" => r.do \in {"start", "stop", "frame"}
                           /\ r.by = "files" => r.path \in Seq(Name)
    /\ StreamStart \in Requests /\ StreamStart.by = "streamer" /\ StreamStart.do = "start"
    /\ StreamStop \in Requests /\ StreamStop.by = "streamer" /\ StreamStop.do = "stop"
    /\ \A do \in {"start", "stop", "input"} :
          Request("streamer", do, <<>>) \in Requests
            /\ Request("streamer", do, <<>>).by = "streamer" /\ Request("streamer", do, <<>>).do = do
    /\ \A do \in {"start", "stop", "frame"} :
          Request("display", do, <<>>) \in Requests
            /\ Request("display", do, <<>>).by = "display" /\ Request("display", do, <<>>).do = do
    /\ \A do \in {"list", "work"}, path \in Seq(Name) :
          Request("files", do, path) \in Requests
            /\ Request("files", do, path).by = "files" /\ Request("files", do, path).do = do
            /\ Request("files", do, path).path = path
BY DEF Requests, Clients, Request, StreamStart, StreamStop

(* Both ends of a path.                                                      *)
LEMMA FrontAndLast ==
    ASSUME NEW s \in Seq(Name), s # <<>>
    PROVE  Front(s) \in Seq(Name) /\ Last(s) \in Name
<1>1. Len(s) \in Nat \ {0} /\ Len(s) \in DOMAIN s
  BY EmptySeq, LenProperties
<1>2. Last(s) \in Name
  BY <1>1, ElementOfSeq DEF Last
<1>3. SubSeq(s, 1, Len(s) - 1) \in Seq(Name)
  BY <1>1, SubSeqProperties
<1> QED
  BY <1>2, <1>3 DEF Front

(* A path is a sequence of names, and none is the value that stands for nothing. *)
LEMMA PathsAreSequences ==
    /\ <<>> \in Seq(Name)
    /\ Nothing \notin Seq(Name)
    /\ \A s \in Seq(Name), n \in Name : Append(s, n) \in Seq(Name) /\ Append(s, n) # <<>>
<1>1. Nothing \notin Seq(Name)
  <2>1. ASSUME Nothing \in Seq(Name) PROVE FALSE
    <3>1. Nothing[1] = "nothing" /\ 1 \in 1..Len(Nothing)
      BY DEF Nothing
    <3> QED
      BY <2>1, <3>1, ElementOfSeq, NothingIsNoName
  <2> QED
    BY <2>1
<1> QED
  BY <1>1, AppendProperties

(* What the file manager shows when it starts anew.                          *)
LEMMA ViewFields ==
    ASSUME NEW f \in FileViews
    PROVE  /\ \A busy \in BOOLEAN :
                 LET g == [f EXCEPT !.busy = busy] IN
                 g \in FileViews /\ g.history = f.history /\ g.forward = f.forward /\ g.shown = f.shown
           /\ \A path \in Seq(Name) :
                 LET g == [f EXCEPT !.shown = path] IN
                 g \in FileViews /\ g.history = f.history /\ g.forward = f.forward /\ g.shown = path
BY DEF FileViews

(* The file manager that has been reset shows nothing and remembers no path. *)
LEMMA NewView ==
    ASSUME files \in FileViews
    PROVE  /\ FileManagerReset \in FileViews
           /\ FileManagerReset.history = <<>> /\ FileManagerReset.forward = <<>> /\ FileManagerReset.shown = Nothing
BY PathsAreSequences DEF FileManagerReset, NewFiles, FileViews

-----------------------------------------------------------------------------
(* Steps of the user                                                         *)

(* A screen asks for something, and is about to be switched if it has        *)
(* changed.                                                                  *)
LEMMA ScreenAsks ==
    ASSUME ClientsInv, NEW r \in Requests, r.by # "files", line' = Append(line, r),
           current = "normal" \/ r.by = "streamer", backend # "waiting",
           streamer' = streamer \/ (r = StreamStart /\ streamer' = "Starting")
                                \/ (r = StreamStop /\ streamer' = "Stopping"),
           display' = display \/ (r.by = "display" /\ r.do \in {"start", "stop"} /\ display' \in {"Starting", "Stopping"}),
           UNCHANGED <<session, bound, files, current, backend, dev, upset>>
    PROVE  ClientsInv'
<1>1. line \in Seq(Requests)
  BY DEF ClientsInv, TypeOK
<1>2. /\ line' \in Seq(Requests)
      /\ \A c : Switches(line', c) <=> Switches(line, c) \/ (r.by = c /\ r.do \in {"start", "stop"})
      /\ ClientsIn(line') = ClientsIn(line) \cup {r.by}
      /\ \A p : EndsWith(line, p) => EndsWith(line', p)
  BY <1>1, Appended
<1>3. TypeOK'
  BY <1>2 DEF ClientsInv, TypeOK
<1>4. Attachment'
  BY <1>2 DEF ClientsInv, Attachment
<1>5. StreamerAgrees'
  BY <1>2, RequestFields DEF ClientsInv, StreamerAgrees, IsEnabled, Started, Hears
<1>6. DisplayAgrees'
  BY <1>2 DEF ClientsInv, DisplayAgrees, Started, Hears
<1>7. FilesAgree'
  BY <1>2 DEF ClientsInv, FilesAgree
<1>8. StreamAskedFor'
  BY DEF StreamAskedFor
<1> QED
  BY <1>3, <1>4, <1>5, <1>6, <1>7, <1>8 DEF ClientsInv

(* The file manager asks for a list of where it is then, or for work.        *)
LEMMA FilesAsk ==
    ASSUME ClientsInv, NEW r \in Requests, r.by = "files", line' = Append(line, r), current = "normal",
           backend # "waiting", files' \in FileViews, r.do = "list" => r.path = files'.history,
           files'.shown = Nothing => files'.history = <<>> /\ files'.forward = <<>>,
           UNCHANGED <<session, streamer, display, bound, current, backend, dev, upset>>
    PROVE  ClientsInv'
<1>1. line \in Seq(Requests)
  BY DEF ClientsInv, TypeOK
<1>2. /\ line' \in Seq(Requests)
      /\ \A c : c # "files" => (Switches(line', c) <=> Switches(line, c))
      /\ "files" \in ClientsIn(line')
      /\ EndsWith(line', files'.history)
  BY <1>1, Appended
<1>3. TypeOK'
  BY <1>2 DEF ClientsInv, TypeOK
<1>4. Attachment'
  BY DEF ClientsInv, Attachment
<1>5. StreamerAgrees' /\ DisplayAgrees'
  BY <1>2 DEF ClientsInv, StreamerAgrees, DisplayAgrees, IsEnabled, Started, Hears
<1>6. FilesAgree' /\ StreamAskedFor'
  BY <1>2 DEF FilesAgree, StreamAskedFor
<1> QED
  BY <1>3, <1>4, <1>5, <1>6 DEF ClientsInv

(* A request through the pointer to a deleted device.                        *)
LEMMA DanglesStep ==
    ASSUME ClientsInv, Dangles
    PROVE  ClientsInv'
<1>1. /\ bound = "gone" /\ session' = "lost"
      /\ UNCHANGED <<line, streamer, display, bound, files, current, backend, dev, upset>>
  BY DEF Dangles, screens
<1>2. current # "normal" /\ ~dev.streams /\ ~dev.shows
  BY <1>1 DEF ClientsInv, Attachment
<1>3. TypeOK' /\ Attachment'
  BY <1>1, <1>2 DEF ClientsInv, TypeOK, Attachment
<1>4. StreamerAgrees' /\ DisplayAgrees' /\ FilesAgree' /\ StreamAskedFor'
  BY <1>1, <1>2 DEF ClientsInv, StreamerAgrees, DisplayAgrees, FilesAgree, StreamAskedFor, Started
<1> QED
  BY <1>3, <1>4 DEF ClientsInv

(* Switching the streamer, and an input event through it, keep ClientsInv.   *)
LEMMA StreamerSteps ==
    ASSUME ClientsInv, SetEnabled \/ SendInputEvent
    PROVE  ClientsInv'
<1>1. CASE Dangles
  BY <1>1, DanglesStep
<1>2. CASE SetEnabled /\ ~Dangles
  BY <1>2, RequestFields, ScreenAsks DEF SetEnabled, outside
<1>3. CASE SendInputEvent /\ ~Dangles
  BY <1>3, RequestFields, ScreenAsks DEF SendInputEvent, screens, outside
<1> QED
  BY <1>1, <1>2, <1>3

(* Starting the virtual display, and a frame sent to it, keep ClientsInv. *)
LEMMA DisplaySteps ==
    ASSUME ClientsInv, DisplayStart \/ SendFrame
    PROVE  ClientsInv'
<1>1. CASE DisplayStart
  BY <1>1, RequestFields, ScreenAsks DEF DisplayStart, Operating, outside
<1>2. CASE SendFrame
  BY <1>2, RequestFields, ScreenAsks DEF SendFrame, Operating, screens, outside
<1> QED
  BY <1>1, <1>2

(* The beginning of an operation changes what the application shows only.    *)
LEMMA BeginStep ==
    ASSUME ClientsInv, OperationBegins
    PROVE  ClientsInv'
<1>1. /\ backend' = "busy"
      /\ UNCHANGED <<session, line, streamer, display, bound, files, current, dev, upset>>
  BY DEF OperationBegins, screens
<1>2. TypeOK' /\ Attachment'
  BY <1>1 DEF ClientsInv, TypeOK, Attachment
<1>3. StreamerAgrees' /\ DisplayAgrees' /\ FilesAgree' /\ StreamAskedFor'
  BY <1>1 DEF ClientsInv, StreamerAgrees, DisplayAgrees, FilesAgree, StreamAskedFor, IsEnabled, Started, Hears
<1> QED
  BY <1>2, <1>3 DEF ClientsInv

(* Going down, forward and up.                                               *)
LEMMA PushedFields ==
    ASSUME files \in FileViews, NEW name \in Name
    PROVE  Pushed(name) \in FileViews /\ Pushed(name).shown = files.shown
<1>1. files.history \in Seq(Name) /\ files.forward \in Seq(Name)
  BY DEF FileViews
<1>2. ForwardAfter(name) \in Seq(Name)
  BY <1>1, FrontAndLast, PathsAreSequences DEF ForwardAfter
<1>3. Append(files.history, name) \in Seq(Name)
  BY <1>1, PathsAreSequences
<1> QED
  BY <1>2, <1>3 DEF Pushed, FileViews

(* Going back one path keeps what is shown, and changes nothing where there is none to go back to. *)
LEMMA PoppedFields ==
    ASSUME files \in FileViews
    PROVE  /\ Popped \in FileViews /\ Popped.shown = files.shown
           /\ files.history = <<>> => Popped = files
<1>1. files.history \in Seq(Name) /\ files.forward \in Seq(Name)
  BY DEF FileViews
<1>2. CASE files.history # <<>>
  <2>1. Front(files.history) \in Seq(Name) /\ Append(files.forward, Last(files.history)) \in Seq(Name)
    BY <1>1, <1>2, FrontAndLast, PathsAreSequences
  <2> QED
    BY <1>2, <2>1 DEF Popped, FileViews
<1> QED
  BY <1>2 DEF Popped

(* Every request of the file manager keeps ClientsInv. *)
LEMMA FilesStep ==
    ASSUME ClientsInv, FileManager
    PROVE  ClientsInv'
<1>1. /\ files \in FileViews /\ files.history \in Seq(Name) /\ files.forward \in Seq(Name)
      /\ files.shown = Nothing => files.history = <<>> /\ files.forward = <<>>
  BY DEF ClientsInv, TypeOK, FilesAgree, FileViews
<1>2. current = "normal" /\ backend # "waiting" /\ UNCHANGED <<session, streamer, display, bound, current, backend, dev, upset>>
  BY DEF FileManager, InFileManager, screens, outside
<1>3. ASSUME NEW next \in FileViews, next.shown = Nothing => next.history = <<>> /\ next.forward = <<>>,
             ListCurrentPath(next) \/ Work(next)
      PROVE  ClientsInv'
  <2>1. next.history \in Seq(Name)
    BY DEF FileViews
  <2>2. CASE ListCurrentPath(next)
    <3>1. Listing(next.history) \in Requests /\ Listing(next.history).by = "files"
             /\ Listing(next.history).path = next.history
      BY <2>1, RequestFields DEF Listing
    <3> QED
      BY <1>2, <1>3, <2>2, <3>1, FilesAsk DEF ListCurrentPath
  <2>3. CASE Work(next)
    <3> DEFINE r == Request("files", "work", next.history)
               busy == [next EXCEPT !.busy = TRUE]
    <3>1. r \in Requests /\ r.by = "files" /\ r.do = "work"
      BY <2>1, RequestFields
    <3>2. busy \in FileViews /\ busy.shown = next.shown /\ busy.history = next.history /\ busy.forward = next.forward
      BY DEF FileViews
    <3>3. files' = busy /\ line' = Append(line, r)
      BY <2>3 DEF Work
    <3> HIDE DEF r, busy
    <3> QED
      BY <1>2, <1>3, <3>1, <3>2, <3>3, FilesAsk
  <2> QED
    BY <1>3, <2>2, <2>3
<1>4. ASSUME NEW name \in Name, Cd(name) \/ UploadTo(name) PROVE ClientsInv'
  BY <1>1, <1>3, <1>4, PushedFields DEF Cd, UploadTo
<1>5. CASE HistoryForward
  BY <1>1, <1>3, <1>5, PushedFields, FrontAndLast DEF HistoryForward
<1>6. CASE HistoryBack
  BY <1>1, <1>3, <1>6, PoppedFields DEF HistoryBack
<1>7. CASE Refresh \/ Work(files)
  BY <1>1, <1>3, <1>7 DEF Refresh
<1> QED
  BY <1>4, <1>5, <1>6, <1>7 DEF FileManager

(* The end of an operation of the device: the screens are switched back, and *)
(* the root directory is listed.                                             *)
LEMMA FinalizeNormal ==
    ASSUME ClientsInv, FinalizeOperation, current = "normal"
    PROVE  ClientsInv'
<1> DEFINE stopped == line \o (IF StopsDisplay THEN <<Request("display", "stop", <<>>)>> ELSE <<>>)
           started == stopped \o (IF StartsStream THEN <<StreamStart>> ELSE <<>>)
<1>1. /\ line \in Seq(Requests) /\ files \in FileViews /\ current = "normal"
      /\ display' = IF StopsDisplay THEN "Stopping" ELSE display
      /\ streamer' = IF StartsStream THEN "Starting" ELSE streamer
      /\ files' = FileManagerReset
      /\ line' = started \o <<Listing(<<>>)>>
      /\ backend' = "ready" /\ UNCHANGED <<session, bound, current, dev, upset>>
  BY DEF FinalizeOperation, ClientsInv, TypeOK
<1>2. /\ Request("display", "stop", <<>>) \in Requests /\ StreamStart \in Requests /\ Listing(<<>>) \in Requests
      /\ Listing(<<>>).by = "files" /\ Listing(<<>>).path = <<>>
      /\ Request("display", "stop", <<>>).by = "display" /\ Request("display", "stop", <<>>).do = "stop"
      /\ StreamStart.by = "streamer" /\ StreamStart.do = "start"
  BY RequestFields, PathsAreSequences DEF Listing
<1>3. \A s \in Seq(Requests), r \in Requests : s \o <<r>> = Append(s, r) /\ s \o <<>> = s
  BY AppendIsConcat, ConcatEmptySeq
<1>4. /\ stopped \in Seq(Requests)
      /\ Switches(stopped, "display") <=> Switches(line, "display") \/ StopsDisplay
      /\ Switches(stopped, "streamer") <=> Switches(line, "streamer")
  <2>1. CASE StopsDisplay
    <3>1. stopped = Append(line, Request("display", "stop", <<>>))
      BY <1>1, <1>2, <1>3, <2>1
    <3> HIDE DEF stopped
    <3> QED
      BY <1>1, <1>2, <2>1, <3>1, Appended
  <2>2. CASE ~StopsDisplay
    <3>1. stopped = line
      BY <1>1, <1>3, <2>2
    <3> QED
      BY <1>1, <2>2, <3>1
  <2> QED
    BY <2>1, <2>2
<1> HIDE DEF stopped
<1>5. /\ started \in Seq(Requests)
      /\ Switches(started, "display") <=> Switches(stopped, "display")
      /\ Switches(started, "streamer") <=> Switches(stopped, "streamer") \/ StartsStream
  <2>1. CASE StartsStream
    <3>1. started = Append(stopped, StreamStart)
      BY <1>2, <1>3, <1>4, <2>1
    <3> HIDE DEF started
    <3> QED
      BY <1>2, <1>4, <2>1, <3>1, Appended
  <2>2. CASE ~StartsStream
    <3>1. started = stopped
      BY <1>3, <1>4, <2>2
    <3> QED
      BY <1>4, <2>2, <3>1
  <2> QED
    BY <2>1, <2>2
<1> HIDE DEF started
<1>6. /\ line' \in Seq(Requests)
      /\ Switches(line', "display") <=> Switches(line, "display") \/ StopsDisplay
      /\ Switches(line', "streamer") <=> Switches(line, "streamer") \/ StartsStream
      /\ "files" \in ClientsIn(line')
      /\ EndsWith(line', <<>>)
  <2>1. line' = Append(started, Listing(<<>>))
    BY <1>1, <1>2, <1>3, <1>5
  <2>2. /\ Append(started, Listing(<<>>)) \in Seq(Requests)
        /\ \A c : c # "files" => (Switches(Append(started, Listing(<<>>)), c) <=> Switches(started, c))
        /\ "files" \in ClientsIn(Append(started, Listing(<<>>)))
        /\ EndsWith(Append(started, Listing(<<>>)), <<>>)
    BY <1>2, <1>5, Appended
  <2> QED
    BY <1>4, <1>5, <2>1, <2>2
<1>7. TypeOK'
  BY <1>1, <1>6, NewView DEF ClientsInv, TypeOK
<1>8. Attachment'
  BY <1>1 DEF ClientsInv, Attachment
<1>9. StreamerAgrees' /\ DisplayAgrees'
  BY <1>1, <1>6 DEF ClientsInv, StreamerAgrees, DisplayAgrees, IsEnabled, Started, Hears
<1>10. FilesAgree' /\ StreamAskedFor'
  BY <1>1, <1>6, NewView DEF FilesAgree, StreamAskedFor
<1> QED
  BY <1>7, <1>8, <1>9, <1>10 DEF ClientsInv

(* In recovery mode the end of an operation is no concern of the clients.    *)
LEMMA FinalizeStep ==
    ASSUME ClientsInv, FinalizeOperation
    PROVE  ClientsInv'
<1>1. CASE current = "normal"
  BY <1>1, FinalizeNormal
<1>2. CASE current = "recovery"
  <2>1. /\ backend' = "ready"
        /\ UNCHANGED <<session, line, streamer, display, bound, files, current, dev, upset>>
    BY <1>2 DEF FinalizeOperation
  <2>2. TypeOK' /\ Attachment'
    BY <2>1 DEF ClientsInv, TypeOK, Attachment
  <2>3. StreamerAgrees' /\ DisplayAgrees' /\ FilesAgree' /\ StreamAskedFor'
    BY <2>1 DEF ClientsInv, StreamerAgrees, DisplayAgrees, FilesAgree, StreamAskedFor, IsEnabled, Started, Hears
  <2> QED
    BY <2>2, <2>3 DEF ClientsInv
<1> QED
  BY <1>1, <1>2 DEF FinalizeOperation

-----------------------------------------------------------------------------
(* Ends of requests                                                          *)

(* While the session is up there is a device, and the line can be served.    *)
LEMMA Served ==
    ASSUME ClientsInv, session = "up", line # <<>>
    PROVE  /\ current = "normal"
           /\ line \in Seq(Requests) /\ files \in FileViews
           /\ Head(line) \in Requests /\ Tail(line) \in Seq(Requests)
           /\ \A c : Switches(line, c) <=>
                     Switches(Tail(line), c) \/ (Head(line).by = c /\ Head(line).do \in {"start", "stop"})
           /\ ClientsIn(line) = ClientsIn(Tail(line)) \cup {Head(line).by}
           /\ EndsWith(Tail(line), files.history)
           /\ "files" \notin ClientsIn(Tail(line)) /\ Head(line).by = "files" /\ Head(line).do = "list"
                => Head(line).path = files.history
<1>1. line \in Seq(Requests) /\ files \in FileViews /\ EndsWith(line, files.history)
  BY DEF ClientsInv, TypeOK, FilesAgree
<1>2. current = "normal"
  BY DEF ClientsInv, Attachment
<1> QED
  BY <1>1, <1>2, Taken

(* The request for the stream stays in line until it is served.              *)
LEMMA StaysInLine ==
    ASSUME NEW s \in Seq(Requests), s # <<>>, NEW i \in DOMAIN s, s[i] # Head(s)
    PROVE  \E j \in DOMAIN Tail(s) : Tail(s)[j] = s[i]
<1>1. i \in Nat /\ i # 1 => i - 1 \in DOMAIN Tail(s) /\ Tail(s)[i - 1] = s[i]
  BY HeadTailProperties
<1>2. i \in Nat /\ i # 1
  BY HeadTailProperties
<1> QED
  BY <1>1, <1>2

(* An answer to another request leaves it there.                             *)
LEMMA AskedAfterAnswer ==
    ASSUME ClientsInv, session = "up", line # <<>>, UNCHANGED <<bound, current>>,
           \A j \in DOMAIN Tail(line) : j \in DOMAIN line' /\ line'[j] = Tail(line)[j],
           backend' = "waiting" => backend = "waiting" /\ Head(line) # StreamStart,
           "stream" \in upset => "stream" \in upset'
    PROVE  StreamAskedFor'
<1> SUFFICES ASSUME backend' = "waiting", current' = "normal", Hears', "stream" \notin upset'
             PROVE  \E j \in DOMAIN line' : line'[j] = StreamStart
  BY DEF StreamAskedFor
<1>1. Hears /\ current = "normal" /\ backend = "waiting" /\ "stream" \notin upset /\ Head(line) # StreamStart
  BY DEF Hears
<1>2. PICK i \in DOMAIN line : line[i] = StreamStart
  BY <1>1 DEF ClientsInv, StreamAskedFor
<1>3. line \in Seq(Requests)
  BY DEF ClientsInv, TypeOK
<1>4. PICK j \in DOMAIN Tail(line) : Tail(line)[j] = StreamStart
  BY <1>1, <1>2, <1>3, StaysInLine
<1> QED
  BY <1>4

(* A request of a screen has ended, well or refused: in the latter case the  *)
(* client is upset.                                                          *)
LEMMA ScreenFinished ==
    ASSUME ClientsInv, session = "up", line # <<>>, Head(line).by # "files",
           line' = Tail(line), files' = files, backend' \in {"waiting", "ready", "busy"},
           backend' = "waiting" => backend = "waiting" /\ Head(line) # StreamStart,
           UNCHANGED <<session, bound, current>>,
           \/ Head(line).by = "streamer" /\ streamer' = AfterOK(streamer, Head(line)) /\ display' = display
           \/ Head(line).by = "display" /\ display' = AfterOK(display, Head(line)) /\ streamer' = streamer,
           \/ dev' = Carried(Head(line)) /\ upset' = upset
           \/ dev' = dev /\ upset' = upset \cup (Screens \cap {Head(line).by})
    PROVE  ClientsInv'
<1> DEFINE r == Head(line)
<1>1. /\ r \in Requests /\ line' \in Seq(Requests)
      /\ \A c : Switches(line, c) <=> Switches(line', c) \/ (r.by = c /\ r.do \in {"start", "stop"})
      /\ ClientsIn(line) = ClientsIn(line') \cup {r.by}
      /\ EndsWith(line', files.history)
      /\ current = "normal"
  BY Served
<1>2. /\ r.by = "streamer" => r.do \in {"start", "stop", "input"}
      /\ r.by = "display" => r.do \in {"start", "stop", "frame"}
  <2>1. r \in Requests
    BY <1>1
  <2> HIDE DEF r
  <2> QED
    BY <2>1 DEF Requests
<1>3. dev \in [streams : BOOLEAN, shows : BOOLEAN]
  BY DEF ClientsInv, TypeOK
<1>4. /\ Carried(r) \in [streams : BOOLEAN, shows : BOOLEAN]
      /\ Carried(r).streams = IF r.by = "streamer" /\ r.do # "input" THEN r.do = "start" ELSE dev.streams
      /\ Carried(r).shows = IF r.by = "display" /\ r.do # "frame" THEN r.do = "start" ELSE dev.shows
  <2>1. CASE r.by = "streamer" /\ r.do # "input"
    <3>1. Carried(r) = [dev EXCEPT !.streams = r.do = "start"]
      BY <2>1, Zenon DEF Carried
    <3> QED
      BY <1>3, <2>1, <3>1
  <2>2. CASE r.by = "display" /\ r.do # "frame"
    <3>1. Carried(r) = [dev EXCEPT !.shows = r.do = "start"]
      BY <2>2 DEF Carried
    <3> QED
      BY <1>3, <2>2, <3>1
  <2>3. CASE ~(r.by = "streamer" /\ r.do # "input") /\ ~(r.by = "display" /\ r.do # "frame")
    BY <1>3, <2>3 DEF Carried
  <2> QED
    BY <2>1, <2>2, <2>3
<1> HIDE DEF r
<1>5. TypeOK'
  BY <1>1, <1>2, <1>3, <1>4 DEF r, ClientsInv, TypeOK, AfterOK
<1>6. Attachment'
  BY <1>1 DEF ClientsInv, Attachment
<1>7. StreamerAgrees'
  BY <1>1, <1>2, <1>3, <1>4 DEF r, ClientsInv, StreamerAgrees, AfterOK, IsEnabled, Started, Hears, Screens
<1>8. DisplayAgrees'
  BY <1>1, <1>2, <1>3, <1>4 DEF r, ClientsInv, DisplayAgrees, AfterOK, Started, Hears, Screens
<1>9. FilesAgree'
  BY <1>1 DEF r, ClientsInv, FilesAgree, Screens
<1>10. StreamAskedFor'
  BY AskedAfterAnswer
<1> QED
  BY <1>5, <1>6, <1>7, <1>8, <1>9, <1>10 DEF ClientsInv

(* A request of the file manager has ended: the list is shown, or asked for  *)
(* where the user is now.                                                    *)
LEMMA FilesFinished ==
    ASSUME ClientsInv, session = "up", line # <<>>, Head(line).by = "files", NEW found \in BOOLEAN,
           FilesAfterOK(Head(line), found), UNCHANGED <<session, bound, current, backend, dev>>,
           upset \ {"files", "work"} \subseteq upset'
    PROVE  ClientsInv'
<1> DEFINE r == Head(line)
           t == Tail(line)
<1>1. /\ r \in Requests /\ t \in Seq(Requests) /\ files \in FileViews
      /\ \A c : c # "files" => (Switches(line, c) <=> Switches(t, c))
      /\ EndsWith(t, files.history)
      /\ "files" \notin ClientsIn(t) /\ r.do = "list" => r.path = files.history
      /\ current = "normal"
  BY Served
<1>2. /\ r.path \in Seq(Name) /\ files.history \in Seq(Name) /\ r.do \in {"list", "work"}
      /\ files.shown = Nothing => files.history = <<>> /\ files.forward = <<>>
      /\ r.by = "files"
  <2>1. r \in Requests
    BY <1>1
  <2> HIDE DEF r
  <2>2. r.by = "files"
    BY DEF r
  <2> QED
    BY <1>1, <2>1, <2>2 DEF Requests, FileViews, ClientsInv, FilesAgree
<1>3. \A path \in Seq(Name) :
         /\ Append(t, Listing(path)) \in Seq(Requests)
         /\ \A c : c # "files" => (Switches(Append(t, Listing(path)), c) <=> Switches(t, c))
         /\ "files" \in ClientsIn(Append(t, Listing(path)))
         /\ EndsWith(Append(t, Listing(path)), path)
  <2> TAKE path \in Seq(Name)
  <2>1. Listing(path) \in Requests /\ Listing(path).by = "files" /\ Listing(path).path = path
    BY RequestFields DEF Listing
  <2> HIDE DEF t
  <2> QED
    BY <1>1, <2>1, Appended
<1>4. /\ FilesAfterOK(r, found)
      /\ UNCHANGED <<session, bound, current, dev, streamer, display, backend>>
  BY DEF FilesAfterOK, FilesTold
<1> HIDE DEF r
<1>5. /\ line' \in Seq(Requests) /\ files' \in FileViews
      /\ \A c : c # "files" => (Switches(line', c) <=> Switches(line, c))
      /\ EndsWith(line', files'.history)
      /\ "files" \notin ClientsIn(line') => files'.shown \in {files'.history, Nothing}
      /\ files'.shown = Nothing => files'.history = <<>> /\ files'.forward = <<>>
  <2>1. CASE r.do = "work"
    <3> DEFINE g == [files EXCEPT !.busy = FALSE]
    <3>1. g \in FileViews /\ g.history = files.history /\ g.forward = files.forward /\ g.shown = files.shown
      BY <1>1, ViewFields
    <3>2. files' = g /\ line' = Append(t, Listing(files.history))
      BY <1>4, <2>1 DEF r, FilesAfterOK, FilesTold
    <3> HIDE DEF g, t
    <3> QED
      BY <1>1, <1>2, <1>3, <3>1, <3>2
  <2>2. CASE r.do = "list" /\ (found \/ r.path = <<>>)
    <3> DEFINE g == [files EXCEPT !.shown = r.path]
    <3>1. g \in FileViews /\ g.history = files.history /\ g.forward = files.forward /\ g.shown = r.path
      BY <1>1, <1>2, ViewFields
    <3>2. files' = g /\ line' = t
      BY <1>4, <2>2 DEF FilesAfterOK, FilesTold, ListShown
    <3> HIDE DEF g, t
    <3> QED
      BY <1>1, <1>2, <2>2, <3>1, <3>2, PathsAreSequences
  <2>3. CASE r.do = "list" /\ ~(found \/ r.path = <<>>)
    <3>1. files' = FileManagerReset /\ line' = Append(t, Listing(<<>>))
      BY <1>4, <2>3 DEF FilesAfterOK, FilesTold
    <3> HIDE DEF t
    <3> QED
      BY <1>1, <1>3, <3>1, NewView, PathsAreSequences
  <2> QED
    BY <1>2, <2>1, <2>2, <2>3
<1>6. TypeOK' /\ Attachment'
  BY <1>1, <1>4, <1>5 DEF ClientsInv, TypeOK, Attachment
<1>7. StreamerAgrees' /\ DisplayAgrees'
  BY <1>4, <1>5 DEF ClientsInv, StreamerAgrees, DisplayAgrees, IsEnabled, Started, Hears
<1>8. FilesAgree'
  BY <1>5 DEF FilesAgree
<1>9. StreamAskedFor'
  <2>1. line' = t \/ \E path \in Seq(Name) : line' = Append(t, Listing(path))
    BY <1>2, <1>4, PathsAreSequences DEF FilesAfterOK
  <2>2. ASSUME NEW path \in Seq(Name)
        PROVE  \A k \in DOMAIN t : k \in DOMAIN Append(t, Listing(path)) /\ Append(t, Listing(path))[k] = t[k]
    <3>1. Listing(path) \in Requests
      BY RequestFields DEF Listing
    <3> HIDE DEF t
    <3> QED
      BY <1>1, <3>1, AppendProperties
  <2>3. \A k \in DOMAIN t : k \in DOMAIN line' /\ line'[k] = t[k]
    BY <2>1, <2>2
  <2>4. r # StreamStart
    BY <1>2, RequestFields
  <2> QED
    BY <1>4, <2>3, <2>4, AskedAfterAnswer DEF r
<1> QED
  BY <1>6, <1>7, <1>8, <1>9 DEF ClientsInv

(* The device has answered the request at the head of the line.              *)
LEMMA AnswerStep ==
    ASSUME ClientsInv, RequestDone \/ RequestRefused
    PROVE  ClientsInv'
<1> DEFINE r == Head(line)
<1>1. /\ session = "up" /\ line # <<>>
      /\ UNCHANGED <<session, bound, current>>
      /\ \/ dev' = Carried(r) /\ OnFinished(r, TRUE) /\ upset' = upset \ Recovered(r)
         \/ dev' = dev /\ OnFinished(r, FALSE)
              /\ upset' = (upset \cup Missed({r.by} \ {"files"})) \ Told
  BY DEF RequestDone, RequestRefused
<1>2. r \in Requests /\ backend \in {"waiting", "ready", "busy"} /\ Told \subseteq {"work"}
  BY <1>1, Served DEF ClientsInv, TypeOK, Told
<1> HIDE DEF r
<1>3. /\ r.by \in {"streamer", "display", "files"}
      /\ r.by # "files" => r.do \notin {"list", "work"} /\ Told = {}
  <2>1. r.by \in {"streamer", "display", "files"} /\ (r.by # "files" => r.do \notin {"list", "work"})
    BY <1>2 DEF Requests
  <2>2. r.do # "work" => Told = {}
    BY DEF Told, r
  <2> QED
    BY <2>1, <2>2
<1>4. CASE r.by = "files"
  <2>1. Carried(r) = dev
    BY <1>4 DEF Carried
  <2>2. Recovered(r) \subseteq {"files", "work"}
    BY <1>2 DEF Recovered
  <2>3. dev' = dev /\ upset \ {"files", "work"} \subseteq upset'
    BY <1>1, <1>2, <1>4, <2>1, <2>2
  <2>4. UNCHANGED backend /\ \E found \in BOOLEAN : FilesAfterOK(r, found)
    BY <1>1, <1>4 DEF OnFinished
  <2> QED
    BY <1>1, <1>4, <2>3, <2>4, FilesFinished DEF r
<1>5. CASE r.by # "files"
  <2>1. Recovered(r) = {}
    BY <1>3, <1>5 DEF Recovered
  <2>2. /\ \/ r.by = "streamer" /\ streamer' = AfterOK(streamer, r) /\ display' = display
           \/ r.by = "display" /\ display' = AfterOK(display, r) /\ streamer' = streamer
        /\ line' = Tail(line) /\ files' = files /\ backend' \in {"waiting", "ready", "busy"}
        /\ backend' = "waiting" => backend = "waiting"
    BY <1>1, <1>2, <1>3, <1>5 DEF OnFinished, StreamerTold, DisplayTold
  <2>3. \/ dev' = Carried(r) /\ upset' = upset
        \/ dev' = dev /\ upset' = upset \cup (Screens \cap {r.by})
    <3>1. Missed({r.by} \ {"files"}) = Screens \cap {r.by}
      BY <1>3, <1>5 DEF Missed, Screens
    <3> QED
      BY <1>1, <1>3, <1>5, <2>1, <3>1
  <2>4. r = StreamStart => backend' # "waiting"
    <3> SUFFICES ASSUME r = StreamStart PROVE backend' # "waiting"
      OBVIOUS
    <3>1. r.by = "streamer" /\ r.do = "start"
      BY RequestFields
    <3>2. AfterOK(streamer, r) = "Running" /\ StreamerTold(AfterOK(streamer, r))
      BY <1>1, <1>5, <3>1 DEF OnFinished, AfterOK
    <3> QED
      BY <1>2, <3>2 DEF StreamerTold, IsEnabled
  <2> QED
    BY <1>1, <1>5, <2>2, <2>3, <2>4, ScreenFinished DEF r
<1> QED
  BY <1>4, <1>5

(* Whoever was in a line that is cleared is upset, if it hears of it.        *)
LEMMA FailuresUpset ==
    /\ \A c \in ClientsIn(line) : c = "files" \/ c \in Screens => c \in Upsets
    /\ upset \ {"work"} \subseteq Upsets
<1>1. Told \subseteq {"work"}
  BY DEF Told
<1>2. ASSUME NEW c \in ClientsIn(line), c = "files" \/ c \in Screens PROVE c \in Upsets
  <2>1. PICK i \in DOMAIN line : c = line[i].by
    BY DEF ClientsIn
  <2>2. c \in Marks(line[i])
    BY <2>1 DEF Marks
  <2>3. c \in Dropped(line)
    BY <2>2 DEF Dropped
  <2>4. c \in Missed(Dropped(line))
    BY <1>2, <2>3 DEF Missed
  <2>5. c # "work"
    BY <1>2 DEF Screens
  <2> QED
    BY <1>1, <2>4, <2>5 DEF Upsets
<1> QED
  BY <1>1, <1>2 DEF Upsets

(* So is who waits for the stream that was asked for.                        *)
LEMMA StreamIsMissed ==
    ASSUME ClientsInv, UNCHANGED <<bound, current>>, backend' = "waiting" => backend = "waiting",
           upset' = Upsets \/ upset' = Upsets \ Screens
    PROVE  StreamAskedFor'
<1> SUFFICES ASSUME backend' = "waiting", current' = "normal", Hears' PROVE "stream" \in upset'
  BY DEF StreamAskedFor
<1>1. Hears /\ current = "normal" /\ backend = "waiting"
  BY DEF Hears
<1>2. "stream" \in upset \cup Missed(Dropped(line))
  <2>1. CASE "stream" \in upset
    BY <2>1
  <2>2. CASE "stream" \notin upset
    <3>1. PICK i \in DOMAIN line : line[i] = StreamStart
      BY <1>1, <2>2 DEF ClientsInv, StreamAskedFor
    <3>2. "stream" \in Marks(line[i])
      BY <3>1, RequestFields DEF Marks
    <3>3. "stream" \in Dropped(line)
      BY <3>2 DEF Dropped
    <3> QED
      BY <1>1, <3>3 DEF Missed
  <2> QED
    BY <2>1, <2>2
<1>3. "stream" \in Upsets /\ "stream" \notin Screens
  BY <1>2 DEF Upsets, Told, Screens
<1> QED
  BY <1>3

(* A request has failed, and the line is cleared: whoever was in it is upset.*)
LEMMA FailureStep ==
    ASSUME ClientsInv, RequestFailed
    PROVE  ClientsInv'
<1> DEFINE r == Head(line)
<1>1. /\ session = "up" /\ line # <<>> /\ line' = <<>> /\ OnError(r)
      /\ dev' \in {dev, Carried(r)} /\ upset' = Upsets
      /\ UNCHANGED <<session, bound, current>>
  BY DEF RequestFailed
<1>2. /\ r \in Requests /\ r.by \in ClientsIn(line) /\ files \in FileViews
      /\ \A c : Switches(line, c) => c \in ClientsIn(line)
      /\ current = "normal"
      /\ \A c \in ClientsIn(line) : c = "files" \/ c \in Screens => c \in upset'
      /\ upset \ {"work"} \subseteq upset'
  BY <1>1, Served, SwitchesAreClients, FailuresUpset
<1>3. dev \in [streams : BOOLEAN, shows : BOOLEAN] /\ backend \in {"waiting", "ready", "busy"}
  BY DEF ClientsInv, TypeOK
<1> HIDE DEF r
<1>4. /\ dev' \in [streams : BOOLEAN, shows : BOOLEAN]
      /\ r.by # "streamer" => dev'.streams = dev.streams
      /\ r.by # "display" => dev'.shows = dev.shows
  <2>1. \/ Carried(r) = dev
        \/ r.by = "streamer" /\ Carried(r) = [dev EXCEPT !.streams = r.do = "start"]
        \/ r.by = "display" /\ Carried(r) = [dev EXCEPT !.shows = r.do = "start"]
    BY Zenon DEF Carried
  <2> QED
    BY <1>1, <1>3, <2>1
<1>5. /\ r.by # "streamer" => streamer' = streamer
      /\ r.by # "display" => display' = display
      /\ r.by # "files" => files' = files
      /\ streamer' \in {streamer, "Stopped"} /\ display' \in {display, "Stopped"} /\ backend' \in {"waiting", "ready", "busy"}
      /\ files' \in FileViews /\ files'.history = files.history /\ files'.forward = files.forward
      /\ files'.shown = files.shown
  <2>1. \/ files' = files
        \/ r.by = "files" /\ files' = [files EXCEPT !.busy = FALSE]
    BY <1>1 DEF OnError, StreamerTold, DisplayTold, FilesTold, FilesAfterError
  <2>2. /\ r.by # "streamer" => streamer' = streamer
        /\ r.by # "display" => display' = display
        /\ streamer' \in {streamer, "Stopped"} /\ display' \in {display, "Stopped"} /\ backend' \in {"waiting", "ready", "busy"}
    BY <1>1, <1>3 DEF OnError, StreamerTold, DisplayTold, FilesTold, AfterError
  <2> QED
    BY <1>2, <2>1, <2>2, ViewFields
<1>6. TypeOK' /\ Attachment'
  BY <1>1, <1>2, <1>4, <1>5, Emptied DEF ClientsInv, TypeOK, Attachment
<1>7. StreamerAgrees'
  BY <1>1, <1>2, <1>3, <1>4, <1>5 DEF ClientsInv, StreamerAgrees, IsEnabled, Started, Hears, Screens
<1>8. DisplayAgrees'
  BY <1>1, <1>2, <1>3, <1>4, <1>5 DEF ClientsInv, DisplayAgrees, Started, Hears, Screens
<1>9. FilesAgree'
  BY <1>1, <1>2, <1>5, Emptied DEF ClientsInv, FilesAgree
<1>10. StreamAskedFor'
  BY <1>1, <1>5, StreamIsMissed DEF OnError, StreamerTold, DisplayTold
<1> QED
  BY <1>6, <1>7, <1>8, <1>9, <1>10 DEF ClientsInv

-----------------------------------------------------------------------------
(* Steps of the session and of the application                               *)

(* The session starts, and comes up or fails: nothing is streamed or shown   *)
(* yet, and the screens that hear of it have stopped.                        *)
LEMMA StartSteps ==
    ASSUME ClientsInv, StartSession \/ SessionStarted \/ SessionFails
    PROVE  ClientsInv'
<1>1. CASE StartSession \/ SessionFails
  <2>1. /\ session \in {"new", "starting", "down"} /\ session' \in {"starting", "down"} /\ current = "normal"
        /\ Hears => streamer' = "Stopped" /\ display' = "Stopped"
        /\ ~Hears => streamer' = streamer /\ display' = display
        /\ upset' = upset \ Screens \/ upset' = upset
        /\ UNCHANGED <<line, bound, files, current, backend, dev>>
    BY <1>1 DEF StartSession, SessionFails, ScreensStop, Unheard, ClientsInv, Attachment
  <2>2. TypeOK' /\ Attachment'
    BY <2>1 DEF ClientsInv, TypeOK, Attachment
  <2>3. StreamerAgrees' /\ DisplayAgrees'
    BY <2>1 DEF ClientsInv, Attachment, StreamerAgrees, DisplayAgrees, IsEnabled, Started, Hears
  <2>4. FilesAgree' /\ StreamAskedFor'
    BY <2>1 DEF ClientsInv, FilesAgree, StreamAskedFor, Screens, Hears
  <2> QED
    BY <2>2, <2>3, <2>4 DEF ClientsInv
<1>2. CASE SessionStarted
  <2>1. /\ session = "starting" /\ session' = "up"
        /\ UNCHANGED <<line, streamer, display, bound, files, current, backend, dev, upset>>
    BY <1>2 DEF SessionStarted, screens
  <2>2. TypeOK' /\ Attachment'
    BY <2>1 DEF ClientsInv, TypeOK, Attachment
  <2>3. StreamerAgrees' /\ DisplayAgrees' /\ FilesAgree' /\ StreamAskedFor'
    BY <2>1 DEF ClientsInv, StreamerAgrees, DisplayAgrees, FilesAgree, StreamAskedFor, IsEnabled, Started, Hears
  <2> QED
    BY <2>2, <2>3 DEF ClientsInv
<1> QED
  BY <1>1, <1>2

(* The session ends: its line is cleared, and the screens have stopped.      *)
LEMMA StopStep ==
    ASSUME ClientsInv, SessionStopped
    PROVE  ClientsInv'
<1>1. /\ session = "up" /\ session' = "down" /\ line' = <<>>
      /\ streamer' \in {streamer, "Stopped"} /\ display' \in {display, "Stopped"}
      /\ dev' = [streams |-> FALSE, shows |-> FALSE]
      /\ files' \in {files, [files EXCEPT !.busy = FALSE]}
      /\ backend' \in {backend, "busy"}
      /\ UNCHANGED <<bound, current>>
      /\ upset' = Upsets \ Screens
  BY DEF SessionStopped, Unheard, FilesAfterError
<1>2. \A c \in ClientsIn(line) : c = "files" => c \in upset'
  BY <1>1, FailuresUpset DEF Screens
<1>3. files \in FileViews /\ current = "normal"
  BY <1>1 DEF ClientsInv, TypeOK, Attachment
<1>4. /\ files' \in FileViews /\ files'.history = files.history /\ files'.forward = files.forward
      /\ files'.shown = files.shown
  BY <1>1, <1>3, ViewFields
<1>5. TypeOK' /\ Attachment'
  BY <1>1, <1>3, <1>4, Emptied DEF ClientsInv, TypeOK, Attachment
<1>6. StreamerAgrees' /\ DisplayAgrees'
  BY <1>1 DEF StreamerAgrees, DisplayAgrees, Started
<1>7. FilesAgree'
  BY <1>1, <1>2, <1>4, Emptied, FailuresUpset DEF ClientsInv, FilesAgree, Screens
<1>8. StreamAskedFor'
  BY <1>1, StreamIsMissed
<1> QED
  BY <1>5, <1>6, <1>7, <1>8 DEF ClientsInv

(* The device is removed: the screens keep a pointer that is not to the      *)
(* current device any more.                                                  *)
LEMMA RemovedStep ==
    ASSUME ClientsInv, DeviceRemoved
    PROVE  ClientsInv'
<1>1. /\ session' = "down" /\ current' = "none" /\ backend' = "waiting" /\ line' = <<>>
      /\ bound' \in {"none", "gone"}
      /\ dev' = [streams |-> FALSE, shows |-> FALSE]
      /\ upset' = (upset \cup Dropped(line)) \cap {"files", "work"}
      /\ UNCHANGED <<streamer, display, files>>
  BY DEF DeviceRemoved
<1>2. \A c \in ClientsIn(line) : c \in Dropped(line)
  BY DEF Dropped, ClientsIn, Marks
<1>3. TypeOK' /\ Attachment'
  BY <1>1, Emptied DEF ClientsInv, TypeOK, Attachment
<1>4. StreamerAgrees' /\ DisplayAgrees' /\ StreamAskedFor'
  BY <1>1 DEF StreamerAgrees, DisplayAgrees, StreamAskedFor, Started
<1>5. FilesAgree'
  BY <1>1, <1>2, Emptied DEF ClientsInv, FilesAgree
<1> QED
  BY <1>3, <1>4, <1>5 DEF ClientsInv

(* There is a device: in recovery mode nothing is bound; else the screens    *)
(* are, unless they take it for the deleted one.                             *)
LEMMA CurrentStep ==
    ASSUME ClientsInv, OnCurrentDeviceChanged
    PROVE  ClientsInv'
<1>1. PICK address \in Address :
         \/ /\ current' = "recovery" /\ backend' = "ready" /\ bound' = address
            /\ UNCHANGED <<line, streamer, files, upset>>
         \/ /\ current' = "normal" /\ backend' = "waiting" /\ bound' = BindsTo(address)
            /\ streamer' = IF StreamAfterSetDevice(address) = "Stopped" THEN "Starting"
                           ELSE StreamAfterSetDevice(address)
            /\ line' = IF StreamAfterSetDevice(address) = "Stopped" THEN <<StreamStart>> ELSE <<>>
            /\ files' = FileManagerReset /\ upset' = upset \cap {"work"}
  BY DEF OnCurrentDeviceChanged
<1>2. /\ current = "none" /\ session' = "new" /\ session # "lost"
      /\ files \in FileViews /\ UNCHANGED <<display, dev>> /\ ~dev.streams /\ ~dev.shows
      /\ bound # "current" /\ ClientsIn(line) \subseteq {"streamer"}
      /\ streamer \in {"Stopped", "Starting", "Running", "Stopping"}
      /\ bound \in {"none", "gone", "reused"}
  BY DEF OnCurrentDeviceChanged, ClientsInv, TypeOK, Attachment
<1>3. address \in {"none", "gone", "reused"} /\ (address = "reused" \/ address = bound)
  BY <1>2 DEF Address
<1>4. StreamerAgrees' /\ DisplayAgrees'
  BY <1>2 DEF StreamerAgrees, DisplayAgrees, Started
<1>5. CASE current' = "recovery"
  <2>1. /\ backend' = "ready" /\ bound' = address
        /\ UNCHANGED <<line, streamer, files, upset>>
    BY <1>1, <1>5
  <2>2. TypeOK' /\ Attachment'
    BY <1>2, <1>3, <1>5, <2>1 DEF ClientsInv, TypeOK, Attachment
  <2>3. FilesAgree' /\ StreamAskedFor'
    BY <1>5, <2>1 DEF ClientsInv, FilesAgree, StreamAskedFor
  <2> QED
    BY <1>4, <2>2, <2>3 DEF ClientsInv
<1>6. CASE current' = "normal"
  <2>1. /\ backend' = "waiting" /\ files' = FileManagerReset
        /\ bound' = BindsTo(address) /\ bound' \in {"current", "reused"}
        /\ streamer' \in {"Starting", "Running", "Stopping"}
        /\ \/ line' = <<StreamStart>>
           \/ line' = <<>> /\ bound' = "reused"
    BY <1>1, <1>2, <1>3, <1>6 DEF BindsTo, StreamAfterSetDevice
  <2>2. <<StreamStart>> = Append(<<>>, StreamStart) /\ <<StreamStart>>[1] = StreamStart /\ 1 \in DOMAIN <<StreamStart>>
    OBVIOUS
  <2>3. Append(<<>>, StreamStart) \in Seq(Requests) /\ EndsWith(Append(<<>>, StreamStart), <<>>)
    BY Emptied, RequestFields, Appended
  <2>4. line' \in Seq(Requests) /\ EndsWith(line', <<>>)
    BY <2>1, <2>2, <2>3, Emptied
  <2>5. TypeOK'
    BY <1>2, <1>6, <2>1, <2>4, NewView DEF ClientsInv, TypeOK
  <2>6. Attachment'
    BY <1>2, <1>6, <2>1 DEF Attachment
  <2>7. FilesAgree'
    BY <1>2, <2>1, <2>4, NewView DEF FilesAgree
  <2>8. StreamAskedFor'
    <3>1. Hears' => line' = <<StreamStart>>
      BY <2>1 DEF Hears
    <3> QED
      BY <2>2, <3>1 DEF StreamAskedFor
  <2> QED
    BY <1>4, <2>5, <2>6, <2>7, <2>8 DEF ClientsInv
<1> QED
  BY <1>1, <1>5, <1>6

(* The device is in normal mode again, and so far only the streamer can have *)
(* asked for anything.                                                       *)
LEMMA InfoStep ==
    ASSUME ClientsInv, OnDeviceInfoChanged
    PROVE  ClientsInv'
<1>1. /\ current = "recovery" /\ current' = "normal" /\ backend = "busy" /\ session # "lost"
      /\ bound' \in {"current", "reused"} /\ streamer' \in {streamer, "Stopped"}
      /\ files' = FileManagerReset
      /\ UNCHANGED <<session, line, display, backend, dev, upset>>
      /\ session \in {"new", "down"} /\ ClientsIn(line) \subseteq {"streamer"}
      /\ files \in FileViews /\ line \in Seq(Requests)
  BY DEF OnDeviceInfoChanged, BindsTo, StreamAfterSetDevice, ClientsInv, TypeOK, Attachment
<1>2. EndsWith(line, <<>>)
  BY <1>1 DEF EndsWith, ClientsIn
<1>3. TypeOK' /\ Attachment'
  BY <1>1, NewView DEF ClientsInv, TypeOK, Attachment
<1>4. StreamerAgrees' /\ DisplayAgrees' /\ StreamAskedFor'
  BY <1>1 DEF StreamerAgrees, DisplayAgrees, StreamAskedFor, Started
<1>5. FilesAgree'
  BY <1>1, <1>2, NewView DEF FilesAgree
<1> QED
  BY <1>3, <1>4, <1>5 DEF ClientsInv

-----------------------------------------------------------------------------
(* Theorems                                                                  *)

(* The invariant holds in the beginning.                                     *)
LEMMA ClientsBegin == Init => ClientsInv
<1> SUFFICES ASSUME Init PROVE ClientsInv
  OBVIOUS
<1>1. /\ NewFiles \in FileViews /\ NewFiles.history = <<>> /\ NewFiles.forward = <<>>
  BY PathsAreSequences DEF NewFiles, FileViews
<1>2. TypeOK /\ Attachment
  BY <1>1, Emptied DEF Init, TypeOK, Attachment
<1>3. StreamerAgrees /\ DisplayAgrees
  BY DEF Init, StreamerAgrees, DisplayAgrees, Started
<1>4. FilesAgree /\ StreamAskedFor
  BY <1>1, Emptied DEF Init, FilesAgree, NewFiles, StreamAskedFor
<1> QED
  BY <1>2, <1>3, <1>4 DEF ClientsInv

(* Every step keeps it.                                                      *)
LEMMA ClientsStep == ClientsInv /\ [Next]_vars => ClientsInv'
<1> SUFFICES ASSUME ClientsInv, [Next]_vars PROVE ClientsInv'
  OBVIOUS
<1>1. CASE User
  BY <1>1, StreamerSteps, FilesStep, BeginStep, FinalizeStep DEF User
<1>2. CASE DisplayStart \/ SendFrame
  BY <1>2, DisplaySteps
<1>3. CASE Rpc
  BY <1>3, AnswerStep, FailureStep DEF Rpc
<1>4. CASE Connection
  BY <1>4, StartSteps, StopStep, RemovedStep, CurrentStep, InfoStep DEF Connection
<1>5. CASE UNCHANGED vars
  <2>1. TypeOK' /\ Attachment'
    BY <1>5 DEF vars, ClientsInv, TypeOK, Attachment
  <2>2. StreamerAgrees' /\ DisplayAgrees' /\ FilesAgree' /\ StreamAskedFor'
    BY <1>5 DEF vars, ClientsInv, StreamerAgrees, DisplayAgrees, FilesAgree, StreamAskedFor, IsEnabled, Started, Hears
  <2> QED
    BY <2>1, <2>2 DEF ClientsInv
<1> QED
  BY <1>1, <1>2, <1>3, <1>4, <1>5 DEF Next

(* The three clients, their line and the device are always in a state of the *)
(* invariant: a screen that is not about to be switched is as the device has *)
(* it, and the last list that is asked for is that of the current path.      *)
THEOREM ClientsAreSound == Spec => []ClientsInv
<1>1. Init => ClientsInv
  BY ClientsBegin
<1>2. ClientsInv /\ [Next]_vars => ClientsInv'
  BY ClientsStep
<1> QED
  BY <1>1, <1>2, PTL DEF Spec

(* A client that has nothing in line, and nothing of which has failed, and   *)
(* the device agree (ScreenStreamer, VirtualDisplay and FileManager).        *)
THEOREM ClientsAgreeAlways == Spec => []ClientsAgree
<1>1. ClientsInv => ClientsAgree
  <2> SUFFICES ASSUME ClientsInv PROVE ClientsAgree
    OBVIOUS
  <2>1. \A c : c \notin ClientsIn(line) => ~Switches(line, c)
    BY SwitchesAreClients
  <2>2. Hears /\ Quiet("streamer") => streamer \notin {"Starting", "Stopping"} /\ (IsEnabled(streamer) <=> dev.streams)
    BY <2>1 DEF ClientsInv, StreamerAgrees, Quiet, Started
  <2>3. Hears /\ Quiet("display") => display \notin {"Starting", "Stopping"} /\ (display = "Running" <=> dev.shows)
    BY <2>1 DEF ClientsInv, DisplayAgrees, Quiet, Started
  <2>4. Quiet("files") => files.shown \in {files.history, Nothing}
    BY DEF ClientsInv, FilesAgree, Quiet
  <2> QED
    BY <2>2, <2>3, <2>4 DEF ClientsAgree
<1> QED
  BY <1>1, ClientsAreSound, PTL

(* The application that has not seen the stream of its device has asked for  *)
(* it, whatever the streamer was left with by the device before              *)
(* (ScreenStreamer::setDevice(), start()), unless that failed or the device  *)
(* is taken for the deleted one.                                             *)
THEOREM StreamIsAskedFor == Spec => []StreamAskedFor
<1>1. ClientsInv => StreamAskedFor
  BY DEF ClientsInv
<1> QED
  BY <1>1, ClientsAreSound, PTL

=============================================================================
