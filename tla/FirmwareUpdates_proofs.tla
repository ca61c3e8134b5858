------------------------ MODULE FirmwareUpdates_proofs ------------------------
(***************************************************************************)
(* Theorems about FirmwareUpdates, for any number of operations that were  *)
(* asked for and any number of checks for updates under way.               *)
(***************************************************************************)
EXTENDS FirmwareUpdates, TLAPS

Helpers ==
    [at : {"none", "Ready", "CheckingForUpdates", "RunningCustomOperation"}, listens : BOOLEAN, posted : BOOLEAN]
Works ==
    [at : {"none", "operation", "waiting"} \cup DOMAIN NextStep, posted : BOOLEAN, getting : BOOLEAN,
     files : SUBSET FirmwareFiles]
Apps ==
    [registry : {"Checking", "Ready", "ErrorOccured"}, channels : Channels, line : Nat,
     backend : {"WaitingForDevices", "Ready", "Busy", "Finished", "ErrorOccured"},
     device : {"none", "online", "offline"}, recovery : BOOLEAN, persistent : BOOLEAN,
     helper : Helpers, work : Works, dying : BOOLEAN,
     pending : PendingOperations, repeat : Nat, left : Nat, listens : BOOLEAN,
     exit : {"no", "done", "error", "disconnected"}, done : Nat, interrupted : BOOLEAN, faulted : BOOLEAN]

(* What a repair has when it is at a step: the files of the steps before it, *)
(* and that of the step itself when the next one is posted.                  *)
FilesBefore ==
    [at \in DOMAIN NextStep \cup {"operation", "waiting"} |->
        CASE at \in {"Ready", "FetchingFirmware"} -> {}
          [] at = "FetchingCore2Firmware" -> {"FetchingFirmware"}
          [] at = "PreparingRadioFirmware" -> {"FetchingFirmware", "FetchingCore2Firmware"}
          [] at = "FetchingScripts" -> {"FetchingFirmware", "FetchingCore2Firmware", "PreparingRadioFirmware"}
          [] at = "PreparingOptionBytes" -> FirmwareFiles \ {"PreparingOptionBytes", "FetchingAssets"}
          [] at = "FetchingAssets" -> FirmwareFiles \ {"FetchingAssets"}
          [] at \in {"operation", "waiting"} -> FirmwareFiles]
Repairs(s) == s.recovery /\ s.pending = "default" /\ s.work.at # "none"
HasItsFiles(s) ==
    /\ s.work.posted => s.work.at \in DOMAIN NextStep
    /\ Repairs(s) => /\ FilesBefore[s.work.at] \subseteq s.work.files
                     /\ s.work.posted => {s.work.at} \ {"Ready"} \subseteq s.work.files

(* What the program may claim, at any time.                                  *)
Claims(s) ==
    /\ s.exit = "done" => s.done = s.repeat
    /\ s.interrupted => s.done > 0

(* While the program runs, an operation is counted as asked for, under way   *)
(* or done; what is under way keeps the backend busy; and the device of the  *)
(* first operation stays in the list.                                        *)
UnderWay(s) == IF s.backend = "Busy" THEN 1 ELSE 0
Counts(s) ==
    /\ s.done + s.left + UnderWay(s) = s.repeat
    /\ s.helper.at # "none" \/ s.work.at # "none" => s.backend = "Busy"
    /\ s.listens => s.backend = "Ready"
    /\ s.dying => s.done > 0
    /\ s.backend = "Busy" /\ ~s.persistent => s.done > 0

AppIsSound(s) == s \in Apps /\ HasItsFiles(s) /\ Claims(s) /\ (s.exit = "no" => Counts(s))
AppInv == AppIsSound(app)

-----------------------------------------------------------------------------
(* Steps of the tool and the backend                                         *)

(* Where the backend may begin an operation: none is under way.              *)
Idle(s) ==
    /\ s \in Apps /\ s.exit = "no" /\ s.work.at = "none" /\ s.helper.at = "none" /\ ~s.work.posted
    /\ s.done + s.left = s.repeat /\ ~s.listens
    /\ s.dying => s.done > 0
    /\ s.interrupted => s.done > 0

(* The states of the helpers before they begin.                              *)
LEMMA Beginnings ==
    /\ NoHelper \in Helpers /\ NoHelper.at = "none"
    /\ [NoHelper EXCEPT !.at = "Ready", !.posted = TRUE] \in Helpers
    /\ NoWork \in Works /\ NoWork.at = "none" /\ ~NoWork.posted
BY DEF NoHelper, Helpers, NoWork, Works

(* An operation begins, or a repair with its first file.                     *)
LEMMA Work ==
    ASSUME NEW s \in Apps, NEW at \in {"Ready", "operation"}, at = "operation" => ~s.recovery \/ s.pending # "default"
    PROVE  LET t == StartsWork(s, at) IN
           /\ t = [s EXCEPT !.persistent = TRUE, !.work = t.work]
           /\ t.work \in Works /\ t.work.at = at
           /\ t \in Apps /\ HasItsFiles(t)
<1> DEFINE w == [NoWork EXCEPT !.at = at, !.posted = at = "Ready"]
           t == [s EXCEPT !.persistent = TRUE, !.work = w]
<1>1. StartsWork(s, at) = t
  BY DEF StartsWork, MakesPersistent
<1>2. w \in Works /\ w.at = at /\ (w.posted <=> at = "Ready")
  BY DEF NoWork, Works, NextStep
<1> HIDE DEF w
<1>3. t \in Apps /\ t.work = w /\ t.recovery = s.recovery /\ t.pending = s.pending
  BY <1>2 DEF Apps
<1>4. HasItsFiles(t)
  <2>1. Repairs(t) => at = "Ready"
    BY <1>2, <1>3 DEF Repairs
  <2>2. FilesBefore["Ready"] = {} /\ "Ready" \in DOMAIN NextStep
    BY DEF FilesBefore, NextStep
  <2> QED
    BY <1>2, <1>3, <2>1, <2>2 DEF HasItsFiles
<1> QED
  BY <1>1, <1>2, <1>3, <1>4

(* What does not touch the work leaves it with its files.                    *)
LEMMA SameWork ==
    ASSUME NEW s, NEW t, HasItsFiles(s), t.work = s.work, t.recovery = s.recovery, t.pending = s.pending
    PROVE  HasItsFiles(t)
BY DEF HasItsFiles, Repairs

(* latestVersion() is read, or it is not there; nothing else changes.        *)
LEMMA VersionRead ==
    ASSUME NEW s \in Apps
    PROVE  LET v == ReadsVersion(s) IN
           /\ v \in Apps /\ v.work = s.work /\ v.helper = s.helper /\ v.exit = s.exit /\ v.backend = s.backend
           /\ v.done = s.done /\ v.left = s.left /\ v.repeat = s.repeat /\ v.interrupted = s.interrupted
           /\ v.listens = s.listens /\ v.dying = s.dying /\ v.persistent = s.persistent
           /\ v.recovery = s.recovery /\ v.pending = s.pending
<1>1. CASE s.channels = "chosen"
  BY <1>1 DEF ReadsVersion
<1>2. CASE s.channels # "chosen"
  <2> DEFINE t == [s EXCEPT !.faulted = TRUE]
  <2>1. ReadsVersion(s) = t
    BY <1>2 DEF ReadsVersion
  <2>2. t \in Apps
    BY DEF Apps
  <2>3. /\ t.work = s.work /\ t.helper = s.helper /\ t.exit = s.exit /\ t.backend = s.backend
        /\ t.done = s.done /\ t.left = s.left /\ t.repeat = s.repeat /\ t.interrupted = s.interrupted
        /\ t.listens = s.listens /\ t.dying = s.dying /\ t.persistent = s.persistent
        /\ t.recovery = s.recovery /\ t.pending = s.pending
    BY DEF Apps
  <2> HIDE DEF t
  <2> QED
    BY <2>1, <2>2, <2>3
<1> QED
  BY <1>1, <1>2

(* The next operation begins, or all are done.                               *)
LEMMA Begins ==
    ASSUME NEW s, Idle(s), s.backend = "Ready"
    PROVE  AppIsSound(StartPendingOperation(s))
<1>1. s \in Apps /\ s.left \in Nat /\ s.done \in Nat /\ s.repeat \in Nat /\ s.pending \in PendingOperations
  BY DEF Idle, Apps
<1>2. HasItsFiles(s)
  BY DEF Idle, HasItsFiles, Repairs
<1>3. CASE s.left = 0
  <2> DEFINE t == [s EXCEPT !.exit = "done"]
  <2>1. StartPendingOperation(s) = t
    BY <1>3 DEF StartPendingOperation, Exits
  <2>2. t \in Apps /\ t.exit = "done" /\ t.done = t.repeat /\ (t.interrupted => t.done > 0)
    BY <1>1, <1>3 DEF Idle, Apps
  <2>3. HasItsFiles(t)
    BY <1>1, <1>2, SameWork DEF Apps
  <2> HIDE DEF t
  <2> QED
    BY <2>1, <2>2, <2>3 DEF AppIsSound, Claims
<1>4. CASE s.left > 0 /\ s.pending = "default"
  <2> DEFINE h == [NoHelper EXCEPT !.at = "Ready", !.posted = TRUE]
             t == [s EXCEPT !.persistent = TRUE, !.left = s.left - 1, !.backend = "Busy", !.helper = h]
  <2>1. StartPendingOperation(s) = t
    BY <1>1, <1>4 DEF StartPendingOperation, MakesPersistent, Apps
  <2>2. h \in Helpers /\ s.left - 1 \in Nat
    BY <1>1, <1>4, Beginnings
  <2> HIDE DEF h
  <2>3. t \in Apps
    BY <1>1, <2>2 DEF Apps
  <2>4. HasItsFiles(t)
    BY <1>1, <1>2, SameWork DEF Apps
  <2>5. Claims(t)
    BY <1>1 DEF Idle, Apps, Claims
  <2>6. Counts(t)
    BY <1>1 DEF Idle, Apps, Counts, UnderWay
  <2> QED
    BY <2>1, <2>3, <2>4, <2>5, <2>6 DEF AppIsSound
<1>5. CASE s.left > 0 /\ s.pending # "default"
  <2> DEFINE w == StartsWork(s, "operation")
             t == [w EXCEPT !.left = w.left - 1, !.backend = "Busy"]
  <2>1. StartPendingOperation(s) = t
    BY <1>5 DEF StartPendingOperation
  <2>2. w = [s EXCEPT !.persistent = TRUE, !.work = w.work] /\ w.work \in Works /\ w \in Apps /\ HasItsFiles(w)
    BY <1>1, <1>5, Work
  <2> HIDE DEF w
  <2>3. /\ w.left = s.left /\ w.done = s.done /\ w.repeat = s.repeat /\ w.exit = s.exit /\ w.persistent
        /\ w.dying = s.dying /\ w.interrupted = s.interrupted /\ w.listens = s.listens
    <3> DEFINE x == w.work
    <3>1. w = [s EXCEPT !.persistent = TRUE, !.work = x]
      BY <2>2
    <3> HIDE DEF x
    <3> QED
      BY <1>1, <3>1 DEF Apps
  <2>4. w.left - 1 \in Nat
    BY <1>1, <1>5, <2>3
  <2>5. t \in Apps /\ HasItsFiles(t)
    BY <2>2, <2>4, SameWork DEF Apps
  <2>6. Claims(t)
    BY <1>1, <2>2, <2>3 DEF Idle, Apps, Claims
  <2>7. Counts(t)
    <3>1. /\ t.backend = "Busy" /\ t.left = s.left - 1 /\ t.done = s.done /\ t.repeat = s.repeat
          /\ t.persistent /\ ~t.listens /\ (t.dying => t.done > 0)
      BY <1>1, <2>2, <2>3 DEF Idle, Apps
    <3> HIDE DEF t
    <3> QED
      BY <1>1, <3>1 DEF Counts, UnderWay, Idle
  <2> QED
    BY <2>1, <2>5, <2>6, <2>7 DEF AppIsSound
<1> QED
  BY <1>1, <1>3, <1>4, <1>5

(* The program ends without claiming anything.                               *)
LEMMA Quits ==
    ASSUME NEW s \in Apps, HasItsFiles(s), s.interrupted => s.done > 0,
           NEW code \in {"error", "disconnected"}
    PROVE  AppIsSound(Exits(s, code))
<1> DEFINE t == [s EXCEPT !.exit = code]
<1>1. t \in Apps /\ t.exit = code /\ (t.interrupted => t.done > 0)
  BY DEF Apps
<1>2. HasItsFiles(t)
  BY SameWork DEF Apps
<1> HIDE DEF t
<1>3. AppIsSound(t)
  BY <1>1, <1>2 DEF AppIsSound, Claims
<1> QED
  BY <1>3 DEF t, Exits

(* onBackendStateChanged(): the backend is ready.                            *)
LEMMA Readies ==
    ASSUME NEW s, Idle(s)
    PROVE  AppIsSound(OnReady(s))
<1> DEFINE r == [s EXCEPT !.backend = "Ready"]
<1>1. Idle(r) /\ r.backend = "Ready" /\ r.registry = s.registry /\ r.pending = s.pending
  BY DEF Idle, Apps
<1>2. OnReady(s) = CASE r.pending # "default" -> StartPendingOperation(r)
                     [] r.pending = "default" /\ r.registry = "ErrorOccured" -> Exits(r, "error")
                     [] r.pending = "default" /\ r.registry = "Ready" -> StartPendingOperation(ReadsVersion(r))
                     [] OTHER -> [r EXCEPT !.listens = TRUE]
  BY <1>1 DEF OnReady
<1> HIDE DEF r
<1>3. r \in Apps /\ HasItsFiles(r)
  BY <1>1 DEF Idle, HasItsFiles, Repairs
<1>4. AppIsSound(StartPendingOperation(r))
  BY <1>1, Begins
<1>5. AppIsSound(Exits(r, "error"))
  BY <1>1, <1>3, Quits DEF Idle
<1>6. AppIsSound(StartPendingOperation(ReadsVersion(r)))
  <2>1. Idle(ReadsVersion(r)) /\ ReadsVersion(r).backend = "Ready"
    BY <1>1, VersionRead DEF Idle
  <2> QED
    BY <2>1, Begins
<1>7. AppIsSound([r EXCEPT !.listens = TRUE])
  <2> DEFINE t == [r EXCEPT !.listens = TRUE]
  <2>1. t \in Apps /\ Claims(t)
    BY <1>1 DEF Idle, Apps, Claims
  <2>2. HasItsFiles(t)
    BY <1>3, SameWork DEF Apps
  <2>3. Counts(t)
    <3>1. /\ t.backend = "Ready" /\ t.done = r.done /\ t.left = r.left /\ t.repeat = r.repeat
          /\ t.helper = r.helper /\ t.work = r.work /\ t.dying = r.dying
      BY <1>1 DEF Idle, Apps
    <3>2. r.done \in Nat /\ r.left \in Nat
      BY <1>3 DEF Apps
    <3> HIDE DEF t
    <3> QED
      BY <1>1, <3>1, <3>2 DEF Counts, UnderWay, Idle
  <2> QED
    BY <2>1, <2>2, <2>3 DEF AppIsSound
<1> QED
  BY <1>2, <1>4, <1>5, <1>6, <1>7

(* The device is gone, or an error is shown: the program ends, unless it     *)
(* still waits for its device.                                               *)
LEMMA Waits ==
    ASSUME NEW s \in Apps, HasItsFiles(s), s.interrupted => s.done > 0
    PROVE  /\ AppIsSound(OnError(s))
           /\ AppIsSound(s) \/ s.backend # "WaitingForDevices" => AppIsSound(OnWaitingForDevices(s))
<1>1. ASSUME NEW b \in {"WaitingForDevices", "ErrorOccured"}, NEW code \in {"error", "disconnected"}
      PROVE  AppIsSound(Exits([s EXCEPT !.backend = b], code))
  <2> DEFINE r == [s EXCEPT !.backend = b]
  <2>1. r \in Apps /\ (r.interrupted => r.done > 0) /\ HasItsFiles(r)
    BY SameWork DEF Apps
  <2> HIDE DEF r
  <2>2. AppIsSound(Exits(r, code))
    BY <2>1, Quits
  <2> QED
    BY <2>2 DEF r
<1> QED
  BY <1>1 DEF OnWaitingForDevices, OnError

(* An operation has ended: with an error, or one more is done, of which the  *)
(* state tells already.                                                      *)
LEMMA Finishes ==
    ASSUME NEW s \in Apps, NEW failed \in BOOLEAN, HasItsFiles(s), s.interrupted => s.done > 0,
           ~failed => Idle([s EXCEPT !.helper = NoHelper])
    PROVE  AppIsSound(OnDeviceOperationFinished(s, failed))
<1> DEFINE r == [s EXCEPT !.helper = NoHelper]
<1>1. r \in Apps /\ (r.interrupted => r.done > 0) /\ HasItsFiles(r)
  BY Beginnings, SameWork DEF Apps
<1>2. ~failed => Idle(r)
  OBVIOUS
<1>3. OnDeviceOperationFinished(s, failed) = IF failed THEN OnError(r) ELSE OnFinished(r)
  BY DEF OnDeviceOperationFinished
<1> HIDE DEF r
<1>4. CASE failed
  BY <1>1, <1>3, <1>4, Waits
<1>5. CASE ~failed
  <2> DEFINE q == [r EXCEPT !.backend = "Finished"]
             g == [q EXCEPT !.device = "none"]
  <2>1. Idle(q) /\ q \in Apps /\ Idle(g) /\ g \in Apps /\ g.backend = "Finished"
    BY <1>2, <1>5 DEF Idle, Apps
  <2>2. OnFinished(r) = IF r.device = "offline" THEN OnWaitingForDevices(g) ELSE OnReady(q)
    BY <1>1 DEF OnFinished, Apps
  <2> HIDE DEF q, g
  <2>3. AppIsSound(OnReady(q))
    BY <2>1, Readies
  <2>4. AppIsSound(OnWaitingForDevices(g))
    <3>1. HasItsFiles(g)
      BY <2>1 DEF Idle, HasItsFiles, Repairs
    <3> QED
      BY <2>1, <3>1, Waits DEF Idle
  <2> QED
    BY <1>3, <1>5, <2>2, <2>3, <2>4
<1> QED
  BY <1>4, <1>5

-----------------------------------------------------------------------------
(* Steps of the registry of updates                                          *)

(* onUpdateStateChanged(): what waits for the directory begins.              *)
LEMMA ToolIsTold ==
    ASSUME NEW s, AppIsSound(s), s.exit = "no"
    PROVE  AppIsSound(OnUpdateStateChanged(s))
<1>1. s \in Apps /\ HasItsFiles(s) /\ Counts(s) /\ (s.interrupted => s.done > 0)
  BY DEF AppIsSound, Claims
<1>2. CASE s.listens /\ s.registry = "ErrorOccured"
  BY <1>1, <1>2, Quits DEF OnUpdateStateChanged
<1>3. CASE s.listens /\ s.registry = "Ready"
  <2> DEFINE t == [s EXCEPT !.listens = FALSE]
  <2>1. s.backend = "Ready" /\ s.work.at = "none" /\ s.helper.at = "none" /\ ~s.work.posted
    BY <1>1, <1>3 DEF Counts, HasItsFiles, NextStep, Apps, Works
  <2>2. s.done + s.left = s.repeat /\ (s.dying => s.done > 0)
    BY <1>1, <2>1 DEF Counts, UnderWay, Apps
  <2>3. Idle(t) /\ t.backend = "Ready"
    BY <1>1, <2>1, <2>2 DEF Idle, Apps
  <2>4. OnUpdateStateChanged(s) = StartPendingOperation(ReadsVersion(t))
    BY <1>3 DEF OnUpdateStateChanged
  <2> HIDE DEF t
  <2>5. Idle(ReadsVersion(t)) /\ ReadsVersion(t).backend = "Ready"
    BY <2>3, VersionRead DEF Idle
  <2> QED
    BY <2>4, <2>5, Begins
<1>4. CASE ~(s.listens /\ s.registry \in {"ErrorOccured", "Ready"})
  BY <1>4 DEF OnUpdateStateChanged
<1> QED
  BY <1>2, <1>3, <1>4

(* onUpdateRegistryStateChanged(): the helper goes on, or has failed.        *)
LEMMA HelperIsTold ==
    ASSUME NEW s, AppIsSound(s)
    PROVE  AppIsSound(HelperTold(s))
<1>1. s \in Apps /\ HasItsFiles(s) /\ Claims(s)
  BY DEF AppIsSound
<1>2. AppIsSound(OnDeviceOperationFinished(s, TRUE))
  BY <1>1, Finishes DEF Claims
<1>3. AppIsSound([s EXCEPT !.helper.listens = FALSE, !.helper.posted = TRUE])
  <2> DEFINE h == [s.helper EXCEPT !.listens = FALSE, !.posted = TRUE]
             t == [s EXCEPT !.helper = h]
  <2>1. [s EXCEPT !.helper.listens = FALSE, !.helper.posted = TRUE] = t
    BY <1>1 DEF Apps, Helpers
  <2>2. h \in Helpers /\ h.at = s.helper.at
    BY <1>1 DEF Apps, Helpers
  <2> HIDE DEF h
  <2>3. t \in Apps /\ HasItsFiles(t) /\ Claims(t)
    BY <1>1, <2>2, SameWork DEF Apps, Claims
  <2>4. t.exit = "no" => Counts(t)
    BY <1>1, <2>2 DEF AppIsSound, Counts, UnderWay, Apps
  <2> HIDE DEF t
  <2> QED
    BY <2>1, <2>3, <2>4 DEF AppIsSound
<1> QED
  BY <1>2, <1>3 DEF HelperTold

(* A change of the state of the registry.                                    *)
LEMMA RegistryChanges ==
    ASSUME NEW s, AppIsSound(s), s.exit = "no", NEW state \in {"Checking", "Ready", "ErrorOccured"}
    PROVE  AppIsSound(SetState(s, state))
<1> DEFINE t == [s EXCEPT !.registry = state]
<1>1. t \in Apps /\ HasItsFiles(t) /\ Claims(t) /\ t.exit = "no"
  BY SameWork DEF AppIsSound, Apps, Claims
<1>2. Counts(t)
  BY DEF AppIsSound, Apps, Counts, UnderWay
<1> HIDE DEF t
<1>3. AppIsSound(OnUpdateStateChanged(t))
  BY <1>1, <1>2, ToolIsTold DEF AppIsSound
<1>4. AppIsSound(HelperTold(OnUpdateStateChanged(t)))
  BY <1>3, HelperIsTold
<1> QED
  BY <1>4 DEF SetState, t

(* check(): the state before does not count, which nobody is told of.        *)
LEMMA Checks ==
    ASSUME NEW s, AppIsSound(s), s.exit = "no", NEW t \in Check(s)
    PROVE  AppIsSound(t)
<1> DEFINE r == [s EXCEPT !.registry = "Checking"]
<1>1. SetState(s, "Checking") = r
  BY DEF SetState, HelperTold, OnUpdateStateChanged, AppIsSound, Apps
<1>2. AppIsSound(r) /\ r.exit = "no"
  <2>1. AppIsSound(SetState(s, "Checking"))
    BY RegistryChanges
  <2>2. r.exit = "no"
    BY DEF AppIsSound, Apps
  <2> HIDE DEF r
  <2> QED
    BY <1>1, <2>1, <2>2
<1>3. t = [r EXCEPT !.line = r.line + 1] \/ t = SetState(r, "ErrorOccured")
  BY <1>1 DEF Check, ShowsChecking
<1> HIDE DEF r
<1>4. AppIsSound([r EXCEPT !.line = r.line + 1])
  <2> DEFINE q == [r EXCEPT !.line = r.line + 1]
  <2>0. r \in Apps /\ r.line + 1 \in Nat
    BY <1>2 DEF AppIsSound, Apps
  <2>1. q \in Apps /\ HasItsFiles(q) /\ Claims(q)
    BY <1>2, <2>0, SameWork DEF AppIsSound, Apps, Claims
  <2>2. Counts(q)
    BY <1>2, <2>0 DEF AppIsSound, Apps, Counts, UnderWay
  <2> HIDE DEF q
  <2>3. AppIsSound(q)
    BY <2>1, <2>2 DEF AppIsSound
  <2> QED
    BY <2>3 DEF q
<1> QED
  BY <1>2, <1>3, <1>4, RegistryChanges

(* The directory has come, or not.                                           *)
LEMMA DirectoryStep ==
    ASSUME AppInv, CheckTimer \/ DirectoryReply \/ DirectoryStalls
    PROVE  AppInv'
<1>1. app \in Apps /\ AppIsSound(app) /\ app.exit = "no"
  BY DEF AppInv, AppIsSound, CheckTimer, DirectoryReply, DirectoryStalls, Runs
<1>2. CASE CheckTimer
  BY <1>1, <1>2, Checks DEF CheckTimer, AppInv
<1>3. ASSUME app.line > 0, NEW channels \in Channels
      PROVE  AppIsSound([app EXCEPT !.line = app.line - 1, !.channels = channels])
               /\ [app EXCEPT !.line = app.line - 1, !.channels = channels].exit = "no"
  <2> DEFINE r == [app EXCEPT !.line = app.line - 1, !.channels = channels]
  <2>1. app.line - 1 \in Nat
    BY <1>1, <1>3 DEF Apps
  <2>2. r \in Apps /\ HasItsFiles(r) /\ Claims(r) /\ r.exit = "no"
    BY <1>1, <2>1, SameWork DEF AppIsSound, Apps, Claims
  <2>3. Counts(r)
    BY <1>1, <2>1 DEF AppIsSound, Apps, Counts, UnderWay
  <2> HIDE DEF r
  <2>4. AppIsSound(r) /\ r.exit = "no"
    BY <2>2, <2>3 DEF AppIsSound
  <2> QED
    BY <2>4 DEF r
<1>4. ASSUME app.line > 0
      PROVE  LET r == [app EXCEPT !.line = app.line - 1] IN AppIsSound(r) /\ r.exit = "no"
  <2>1. app.channels \in Channels /\ [app EXCEPT !.line = app.line - 1] = [app EXCEPT !.line = app.line - 1, !.channels = app.channels]
    BY <1>1 DEF Apps
  <2> QED
    BY <1>3, <1>4, <2>1
<1>5. CASE DirectoryReply
  <2>1. app.line > 0
    BY <1>5 DEF DirectoryReply
  <2>2. CASE app' = DirectoryFailed(app)
    <3> DEFINE r == [app EXCEPT !.line = app.line - 1]
    <3>1. app' = SetState(r, "ErrorOccured")
      BY <2>2 DEF DirectoryFailed
    <3>2. AppIsSound(r) /\ r.exit = "no"
      BY <1>4, <2>1
    <3> HIDE DEF r
    <3> QED
      BY <3>1, <3>2, RegistryChanges DEF AppInv
  <2>3. ASSUME NEW channels \in Channels, app' = DirectoryFetched(app, channels) PROVE AppInv'
    <3> DEFINE r == [app EXCEPT !.line = app.line - 1, !.channels = channels]
               state == IF channels = "none" THEN "ErrorOccured" ELSE "Ready"
    <3>1. app' = SetState(r, state)
      BY <2>3 DEF DirectoryFetched
    <3>2. AppIsSound(r) /\ r.exit = "no" /\ state \in {"Checking", "Ready", "ErrorOccured"}
      BY <1>3, <2>1
    <3> HIDE DEF r, state
    <3> QED
      BY <3>1, <3>2, RegistryChanges DEF AppInv
  <2> QED
    BY <1>5, <2>2, <2>3 DEF DirectoryReply
<1>6. CASE DirectoryStalls
  BY <1>4, <1>6 DEF DirectoryStalls, AppInv
<1> QED
  BY <1>2, <1>5, <1>6

-----------------------------------------------------------------------------
(* Steps of the helpers and the operation                                    *)

(* A change of the work that keeps its files.                                *)
LEMMA WorkChanges ==
    ASSUME NEW s, AppIsSound(s), s.work.at # "none", NEW w \in Works,
           HasItsFiles([s EXCEPT !.work = w])
    PROVE  AppIsSound([s EXCEPT !.work = w])
<1> DEFINE t == [s EXCEPT !.work = w]
<1>1. s \in Apps
  BY DEF AppIsSound
<1>2. /\ t \in Apps /\ t.exit = s.exit /\ t.done = s.done /\ t.repeat = s.repeat /\ t.interrupted = s.interrupted
      /\ t.left = s.left /\ t.backend = s.backend /\ t.helper = s.helper /\ t.listens = s.listens
      /\ t.dying = s.dying /\ t.persistent = s.persistent /\ HasItsFiles(t)
  BY <1>1 DEF Apps
<1> HIDE DEF t
<1>3. AppIsSound(t)
  BY <1>2 DEF AppIsSound, Claims, Counts, UnderWay
<1> QED
  BY <1>3 DEF t

(* The operation ends.                                                       *)
LEMMA OperationIsOver ==
    ASSUME NEW s \in Apps, NEW failed \in BOOLEAN, s.exit = "no", s.interrupted => s.done > 0,
           ~failed => Counts(s) /\ s.backend = "Busy"
    PROVE  AppIsSound(Ends(s, failed))
<1> DEFINE done == IF failed THEN s.done ELSE s.done + 1
           q == [s EXCEPT !.work = NoWork, !.dying = TRUE, !.done = done]
<1>1. Ends(s, failed) = OnDeviceOperationFinished(q, failed)
  BY DEF Ends, Apps
<1>2. done \in Nat /\ s.done \in Nat /\ s.left \in Nat /\ s.repeat \in Nat
      /\ (s.interrupted => done > 0) /\ (~failed => done = s.done + 1)
  BY DEF Apps
<1> HIDE DEF done
<1>3. /\ q \in Apps /\ q.work = NoWork /\ q.exit = "no" /\ q.done = done /\ q.left = s.left /\ q.repeat = s.repeat
      /\ q.backend = s.backend /\ q.listens = s.listens /\ q.interrupted = s.interrupted
  BY <1>2, Beginnings DEF Apps
<1> HIDE DEF q
<1>4. HasItsFiles(q)
  BY <1>3, Beginnings DEF HasItsFiles, Repairs
<1>5. ASSUME ~failed PROVE Idle([q EXCEPT !.helper = NoHelper])
  <2>1. q.done + q.left = q.repeat /\ ~q.listens /\ q.done > 0
    BY <1>2, <1>3, <1>5 DEF Counts, UnderWay
  <2> QED
    BY <1>3, <2>1, Beginnings DEF Idle, Apps
<1> QED
  BY <1>1, <1>2, <1>3, <1>4, <1>5, Finishes

(* The helper checks for updates, and begins its operation.                  *)
LEMMA HelperSteps ==
    ASSUME AppInv, CheckForUpdates \/ RunCustomOperation
    PROVE  AppInv'
<1>1. /\ app \in Apps /\ AppIsSound(app) /\ app.exit = "no" /\ Counts(app) /\ Claims(app) /\ HasItsFiles(app)
      /\ app.helper.at \in {"Ready", "CheckingForUpdates"} /\ app.backend = "Busy"
  BY DEF AppInv, AppIsSound, CheckForUpdates, RunCustomOperation, Runs, Counts
<1>2. ASSUME NEW h \in Helpers
      PROVE  AppIsSound([app EXCEPT !.helper = h]) /\ [app EXCEPT !.helper = h].exit = "no"
  <2> DEFINE t == [app EXCEPT !.helper = h]
  <2>1. /\ t \in Apps /\ t.exit = "no" /\ t.done = app.done /\ t.repeat = app.repeat
        /\ t.interrupted = app.interrupted /\ t.left = app.left /\ t.backend = app.backend /\ t.work = app.work
        /\ t.listens = app.listens /\ t.dying = app.dying /\ t.persistent = app.persistent /\ HasItsFiles(t)
    BY <1>1, SameWork DEF Apps
  <2> HIDE DEF t
  <2>2. AppIsSound(t)
    BY <1>1, <2>1 DEF AppIsSound, Claims, Counts, UnderWay
  <2> QED
    BY <2>1, <2>2 DEF t
<1>3. CASE CheckForUpdates
  <2> DEFINE h == [at |-> "CheckingForUpdates", listens |-> TRUE, posted |-> FALSE]
  <2>1. app' \in Check([app EXCEPT !.helper = h]) /\ h \in Helpers
    BY <1>3 DEF CheckForUpdates, Helpers
  <2> HIDE DEF h
  <2> QED
    BY <1>2, <2>1, Checks DEF AppInv
<1>4. CASE RunCustomOperation
  <2> DEFINE h == [app.helper EXCEPT !.at = "RunningCustomOperation", !.posted = FALSE]
             r == [app EXCEPT !.helper = h]
             v == ReadsVersion(r)
             at == IF app.recovery THEN "Ready" ELSE "operation"
  <2>1. h \in Helpers
    BY <1>1 DEF Apps, Helpers
  <2>2. r = [app EXCEPT !.helper.at = "RunningCustomOperation", !.helper.posted = FALSE]
    BY <1>1 DEF Apps, Helpers
  <2>3. app' = StartsWork(v, at)
    BY <1>4, <2>2 DEF RunCustomOperation
  <2>4. AppIsSound(r) /\ r.exit = "no" /\ r.recovery = app.recovery /\ r.backend = "Busy"
    BY <1>1, <1>2, <2>1 DEF Apps
  <2> HIDE DEF r, h
  <2>5. v \in Apps /\ v.recovery = app.recovery /\ v.backend = "Busy" /\ Claims(v) /\ v.exit = "no" /\ Counts(v)
    <3>1. r \in Apps /\ Claims(r) /\ Counts(r)
      BY <2>4 DEF AppIsSound
    <3>2. /\ v \in Apps /\ v.work = r.work /\ v.helper = r.helper /\ v.exit = r.exit /\ v.backend = r.backend
          /\ v.done = r.done /\ v.left = r.left /\ v.repeat = r.repeat /\ v.interrupted = r.interrupted
          /\ v.listens = r.listens /\ v.dying = r.dying /\ v.persistent = r.persistent /\ v.recovery = r.recovery
      BY <3>1, VersionRead
    <3> HIDE DEF v
    <3> QED
      BY <2>4, <3>1, <3>2 DEF Claims, Counts, UnderWay
  <2> HIDE DEF v
  <2>6. /\ at \in {"Ready", "operation"}
        /\ at = "operation" => ~v.recovery \/ v.pending # "default"
    BY <2>5
  <2> HIDE DEF at
  <2> DEFINE t == StartsWork(v, at)
             x == t.work
  <2>7. t = [v EXCEPT !.persistent = TRUE, !.work = x] /\ t \in Apps /\ HasItsFiles(t)
    BY <2>5, <2>6, Work
  <2> HIDE DEF x, t
  <2>8. /\ t.exit = "no" /\ t.done = v.done /\ t.repeat = v.repeat
        /\ t.interrupted = v.interrupted /\ t.left = v.left /\ t.backend = v.backend
        /\ t.listens = v.listens /\ t.dying = v.dying /\ t.persistent
    BY <2>5, <2>7 DEF Apps
  <2>9. AppIsSound(t)
    BY <2>5, <2>7, <2>8 DEF AppIsSound, Claims, Counts, UnderWay
  <2> QED
    BY <2>3, <2>9 DEF AppInv, t
<1> QED
  BY <1>3, <1>4

(* The steps of a repair are in this order.                                  *)
LEMMA StepsInOrder ==
    /\ FirmwareFiles \subseteq DOMAIN NextStep /\ Fetches \subseteq FirmwareFiles
    /\ "none" \notin DOMAIN NextStep /\ "operation" \notin DOMAIN NextStep /\ "waiting" \notin DOMAIN NextStep
    /\ "Ready" \notin FirmwareFiles
    /\ {"PreparingRadioFirmware", "PreparingOptionBytes"} \subseteq FirmwareFiles
    /\ FilesBefore["operation"] = FirmwareFiles /\ FilesBefore["waiting"] = FirmwareFiles
    /\ \A at \in DOMAIN NextStep :
          /\ NextStep[at] \in FirmwareFiles \cup {"operation"}
          /\ FilesBefore[NextStep[at]] \subseteq FilesBefore[at] \cup ({at} \ {"Ready"})
BY DEF NextStep, FirmwareFiles, Fetches, FilesBefore

(* FirmwareHelper goes on to its next file, or to the operation.             *)
LEMMA RepairStep ==
    ASSUME AppInv, FirmwareHelperStep
    PROVE  AppInv'
<1> DEFINE a == app.work.at
           at == NextStep[a]
           s == [app EXCEPT !.work.at = at, !.work.posted = FALSE]
<1>1. /\ app \in Apps /\ AppIsSound(app) /\ app.exit = "no" /\ HasItsFiles(app) /\ app.work.posted
      /\ app.interrupted => app.done > 0
  BY DEF AppInv, AppIsSound, FirmwareHelperStep, Runs, Claims
<1>2. a \in DOMAIN NextStep /\ app.work \in Works /\ app.work.files \subseteq FirmwareFiles
  BY <1>1 DEF HasItsFiles, Apps, Works
<1>3. at \in FirmwareFiles \cup {"operation"} /\ FilesBefore[at] \subseteq FilesBefore[a] \cup ({a} \ {"Ready"})
  BY <1>2, StepsInOrder
<1>4. \/ app' = [s EXCEPT !.work.getting = at \in FirmwareFiles]
      \/ app' = Ends(s, TRUE)
  BY DEF FirmwareHelperStep
<1> HIDE DEF at
<1>5. at \in {"none", "operation", "waiting"} \cup DOMAIN NextStep
  BY <1>3, StepsInOrder
<1>6. CASE app' = [s EXCEPT !.work.getting = at \in FirmwareFiles]
  <2> DEFINE w == [app.work EXCEPT !.at = at, !.posted = FALSE, !.getting = at \in FirmwareFiles]
  <2>1. app' = [app EXCEPT !.work = w]
    BY <1>1, <1>2, <1>6 DEF Apps, Works
  <2>2. w \in Works /\ w.at = at /\ ~w.posted /\ w.files = app.work.files
    <3> DEFINE g == at \in FirmwareFiles
    <3>1. g \in BOOLEAN
      OBVIOUS
    <3> HIDE DEF g
    <3>2. [app.work EXCEPT !.at = at, !.posted = FALSE, !.getting = g] \in Works
      BY <1>2, <1>5, <3>1 DEF Works
    <3>3. w.at = at /\ ~w.posted /\ w.files = app.work.files
      BY <1>2 DEF Works
    <3> QED
      BY <3>2, <3>3 DEF g
  <2> HIDE DEF w
  <2>3. HasItsFiles([app EXCEPT !.work = w])
    <3> DEFINE t == [app EXCEPT !.work = w]
    <3>1. t.work = w /\ t.recovery = app.recovery /\ t.pending = app.pending
      BY <1>1 DEF Apps
    <3> HIDE DEF t
    <3>2. a # "none"
      BY <1>2, StepsInOrder
    <3>3. HasItsFiles(t)
      BY <1>1, <1>3, <2>2, <3>1, <3>2 DEF HasItsFiles, Repairs
    <3> QED
      BY <3>3 DEF t
  <2>4. app.work.at # "none"
    BY <1>2, StepsInOrder
  <2> QED
    BY <1>1, <2>1, <2>2, <2>3, <2>4, WorkChanges DEF AppInv
<1>7. CASE app' = Ends(s, TRUE)
  <2> DEFINE w == [app.work EXCEPT !.at = at, !.posted = FALSE]
  <2>1. s = [app EXCEPT !.work = w] /\ w \in Works
    BY <1>1, <1>2, <1>5 DEF Apps, Works
  <2> HIDE DEF w
  <2>2. s \in Apps /\ s.exit = "no" /\ (s.interrupted => s.done > 0)
    BY <1>1, <2>1 DEF Apps
  <2> HIDE DEF s
  <2> QED
    BY <1>7, <2>2, OperationIsOver DEF AppInv
<1> QED
  BY <1>4, <1>6, <1>7

(* The file of the step is there.                                            *)
LEMMA FileIsThere ==
    ASSUME AppInv, app.work.at \in FirmwareFiles,
           NEW w \in Works, w.at = app.work.at, app.work.files \subseteq w.files,
           w.posted => app.work.at \in w.files \/ app.work.posted
    PROVE  AppIsSound([app EXCEPT !.work = w])
<1> DEFINE t == [app EXCEPT !.work = w]
<1>1. app \in Apps /\ HasItsFiles(app) /\ AppIsSound(app)
  BY DEF AppInv, AppIsSound
<1>2. t.work = w /\ t.recovery = app.recovery /\ t.pending = app.pending
  BY <1>1 DEF Apps
<1>3. app.work.at \in DOMAIN NextStep /\ app.work.at # "none"
  BY StepsInOrder
<1> HIDE DEF t
<1>4. HasItsFiles(t)
  BY <1>1, <1>2, <1>3 DEF HasItsFiles, Repairs
<1> QED
  BY <1>1, <1>3, <1>4, WorkChanges DEF t

(* A file is fetched or prepared, or the operation ends for the want of it.  *)
LEMMA FileSteps ==
    ASSUME AppInv, FileFetched \/ FileStalls \/ RadioFirmwarePrepared \/ OptionBytesPrepared
    PROVE  AppInv'
<1>1. /\ app \in Apps /\ app.work \in Works /\ app.exit = "no" /\ app.work.at \in FirmwareFiles
      /\ app.interrupted => app.done > 0
  <2>1. app.work.at \in FirmwareFiles
    <3>1. \/ app.work.at \in Fetches
          \/ app.work.at \in {"PreparingRadioFirmware", "PreparingOptionBytes"}
      BY DEF FileFetched, FileStalls, RadioFirmwarePrepared, OptionBytesPrepared
    <3> QED
      BY <3>1, StepsInOrder
  <2>2. app \in Apps /\ app.exit = "no" /\ (app.interrupted => app.done > 0)
    BY DEF AppInv, AppIsSound, FileFetched, FileStalls, RadioFirmwarePrepared, OptionBytesPrepared, Runs, Claims
  <2> QED
    BY <2>1, <2>2 DEF Apps
<1>2. app.work.at \in {"none", "operation", "waiting"} \cup DOMAIN NextStep /\ app.work.files \subseteq FirmwareFiles
  BY <1>1 DEF Works
<1> DEFINE waiting == [app.work EXCEPT !.getting = FALSE]
           there == [app.work EXCEPT !.getting = FALSE, !.posted = TRUE, !.files = app.work.files \cup {app.work.at}]
<1>3. waiting \in Works /\ waiting.at = app.work.at /\ waiting.files = app.work.files /\ waiting.posted = app.work.posted
  BY <1>1 DEF Works
<1>4. there \in Works /\ there.at = app.work.at /\ there.files = app.work.files \cup {app.work.at}
  BY <1>1, <1>2 DEF Works
<1>5. AppIsSound([app EXCEPT !.work = waiting]) /\ AppIsSound([app EXCEPT !.work = there])
  <2> HIDE DEF waiting, there
  <2> QED
    BY <1>1, <1>3, <1>4, FileIsThere
<1>6. AppIsSound(Ends(app, TRUE))
  BY <1>1, OperationIsOver
<1>7. AppIsSound(Ends([app EXCEPT !.work = waiting], TRUE))
  <2> DEFINE s == [app EXCEPT !.work = waiting]
  <2> HIDE DEF waiting
  <2>1. s \in Apps /\ s.exit = "no" /\ (s.interrupted => s.done > 0)
    BY <1>1, <1>3 DEF Apps
  <2> HIDE DEF s
  <2>2. AppIsSound(Ends(s, TRUE))
    BY <2>1, OperationIsOver
  <2> QED
    BY <2>2 DEF s
<1>8. CASE FileFetched
  <2> DEFINE s == [app EXCEPT !.work.getting = FALSE]
  <2>1. s = [app EXCEPT !.work = waiting]
    BY <1>1 DEF Apps, Works
  <2>2. PICK is \in {"whole", "cut off", "corrupt", "unreadable"}, checksum \in BOOLEAN :
          CASE Fetched(is, checksum) = "error" -> app' = Ends(s, TRUE)
            [] Fetched(is, checksum) = "lost" -> app' = s
            [] OTHER -> app' = [s EXCEPT !.work.posted = TRUE,
                                         !.work.files = IF is = "whole" \/ ~checksum THEN @ \cup {s.work.at} ELSE @]
    BY <1>8 DEF FileFetched
  <2>3. CASE Fetched(is, checksum) = "error"
    BY <1>7, <2>1, <2>2, <2>3 DEF AppInv
  <2>4. CASE Fetched(is, checksum) = "lost"
    BY <1>5, <2>1, <2>2, <2>4 DEF AppInv
  <2>5. CASE Fetched(is, checksum) = "taken"
    <3>1. is = "whole" \/ ~checksum
      BY <2>5 DEF Fetched
    <3>2. app' = [s EXCEPT !.work.posted = TRUE, !.work.files = s.work.files \cup {s.work.at}]
      BY <2>2, <2>5, <3>1
    <3>3. app' = [app EXCEPT !.work = there]
      BY <1>1, <3>2 DEF Apps, Works
    <3> QED
      BY <1>5, <3>3 DEF AppInv
  <2> QED
    BY <2>3, <2>4, <2>5 DEF Fetched
<1>9. CASE RadioFirmwarePrepared \/ OptionBytesPrepared
  <2>1. app' = Prepared(app.work.at, app) \/ app' = Ends(app, TRUE)
    BY <1>9 DEF RadioFirmwarePrepared, OptionBytesPrepared
  <2>2. Prepared(app.work.at, app) = [app EXCEPT !.work = there]
    BY <1>1 DEF Prepared, Apps, Works
  <2> QED
    BY <1>5, <1>6, <2>1, <2>2 DEF AppInv
<1>10. CASE FileStalls
  <2>1. app' = [app EXCEPT !.work = waiting]
    BY <1>1, <1>10 DEF FileStalls, Apps, Works
  <2> QED
    BY <1>5, <2>1 DEF AppInv
<1> QED
  BY <1>8, <1>9, <1>10

(* The operation ends, waits or goes on, and is deleted later: its device is not kept then,    *)
(* which only an operation that ended well leads to while the program runs.  *)
LEMMA OperationSteps ==
    ASSUME AppInv, OperationEnds \/ OperationWaits \/ OperationGoesOn \/ DeleteOperation
    PROVE  AppInv'
<1>1. /\ app \in Apps /\ app.exit = "no" /\ Counts(app) /\ Claims(app) /\ HasItsFiles(app)
      /\ app.interrupted => app.done > 0
  BY DEF AppInv, AppIsSound, OperationEnds, OperationWaits, OperationGoesOn, DeleteOperation, Runs, Claims
<1>2. CASE OperationEnds
  <2>1. PICK failed \in BOOLEAN : app' = Ends(app, failed)
    BY <1>2 DEF OperationEnds
  <2>2. app.backend = "Busy"
    BY <1>1, <1>2 DEF OperationEnds, Counts
  <2> QED
    BY <1>1, <2>1, <2>2, OperationIsOver DEF AppInv
<1>3. CASE DeleteOperation
  <2> DEFINE t == [app EXCEPT !.dying = FALSE, !.persistent = FALSE]
  <2>1. app' = t /\ app.dying
    BY <1>3 DEF DeleteOperation
  <2>2. /\ t \in Apps /\ t.exit = "no" /\ t.done = app.done /\ t.repeat = app.repeat
        /\ t.interrupted = app.interrupted /\ t.left = app.left /\ t.backend = app.backend /\ t.work = app.work
        /\ t.helper = app.helper /\ t.listens = app.listens /\ ~t.dying /\ HasItsFiles(t)
    BY <1>1, SameWork DEF Apps
  <2> HIDE DEF t
  <2> QED
    BY <1>1, <2>1, <2>2 DEF AppInv, AppIsSound, Claims, Counts, UnderWay
<1>4. CASE OperationWaits \/ OperationGoesOn
  <2>1. PICK at \in {"operation", "waiting"} :
          app.work.at \in {"operation", "waiting"} /\ app' = [app EXCEPT !.work.at = at]
    BY <1>4 DEF OperationWaits, OperationGoesOn
  <2> DEFINE w == [app.work EXCEPT !.at = at]
             t == [app EXCEPT !.work = w]
  <2>2. app.work \in Works /\ app' = t
    BY <1>1, <2>1 DEF Apps, Works
  <2>3. w \in Works /\ w.at = at /\ w.posted = app.work.posted /\ w.files = app.work.files
    BY <2>2 DEF Works
  <2> HIDE DEF w
  <2>4. t.work = w /\ t.recovery = app.recovery /\ t.pending = app.pending
    BY <1>1 DEF Apps
  <2> HIDE DEF t
  <2>5. HasItsFiles(t)
    BY <1>1, <2>1, <2>3, <2>4, StepsInOrder DEF HasItsFiles, Repairs
  <2>6. AppIsSound(t)
    BY <2>1, <2>3, <2>5, WorkChanges DEF t, AppInv
  <2> QED
    BY <2>2, <2>6 DEF AppInv
<1> QED
  BY <1>2, <1>3, <1>4

-----------------------------------------------------------------------------
(* Steps of the device                                                       *)

(* It is ready, leaves, returns, or its session fails.                       *)
LEMMA DeviceStep ==
    ASSUME AppInv, DeviceIsReady \/ DeviceLeaves \/ DeviceReturns \/ SessionError
    PROVE  AppInv'
<1>1. /\ app \in Apps /\ app.exit = "no" /\ Counts(app) /\ Claims(app) /\ HasItsFiles(app)
      /\ app.interrupted => app.done > 0
  BY DEF AppInv, AppIsSound, DeviceIsReady, DeviceLeaves, DeviceReturns, SessionError, Runs, Claims
<1>2. CASE DeviceIsReady
  <2>1. PICK recovery \in BOOLEAN :
          app' = OnReady([app EXCEPT !.device = "online", !.recovery = recovery, !.persistent = FALSE])
    BY <1>2 DEF DeviceIsReady
  <2> DEFINE t == [app EXCEPT !.device = "online", !.recovery = recovery, !.persistent = FALSE]
  <2>2. /\ app.backend = "WaitingForDevices" /\ app.work.at = "none" /\ app.helper.at = "none"
        /\ ~app.work.posted /\ ~app.listens
    <3>1. app.backend = "WaitingForDevices"
      BY <1>2 DEF DeviceIsReady
    <3>2. app.helper.at = "none" /\ app.work.at = "none" /\ ~app.listens
      BY <1>1, <3>1 DEF Counts, Apps
    <3> QED
      BY <1>1, <3>1, <3>2, StepsInOrder DEF HasItsFiles
  <2>3. app.done + app.left = app.repeat
    BY <1>1, <2>2 DEF Counts, UnderWay, Apps
  <2>4. Idle(t)
    BY <1>1, <2>2, <2>3 DEF Idle, Apps, Counts
  <2> HIDE DEF t
  <2>5. AppIsSound(OnReady(t))
    BY <2>4, Readies
  <2> QED
    BY <2>1, <2>5 DEF AppInv, t
<1>3. ASSUME NEW device \in {"online", "offline", "none"}
      PROVE  AppIsSound([app EXCEPT !.device = device])
  <2> DEFINE t == [app EXCEPT !.device = device]
  <2>1. /\ t \in Apps /\ t.exit = "no" /\ t.done = app.done /\ t.repeat = app.repeat
        /\ t.interrupted = app.interrupted /\ t.left = app.left /\ t.backend = app.backend /\ t.work = app.work
        /\ t.helper = app.helper /\ t.listens = app.listens /\ t.dying = app.dying
        /\ t.persistent = app.persistent /\ HasItsFiles(t)
    BY <1>1, SameWork DEF Apps
  <2> HIDE DEF t
  <2>2. AppIsSound(t)
    BY <1>1, <2>1 DEF AppIsSound, Claims, Counts, UnderWay
  <2> QED
    BY <2>2 DEF t
<1>4. CASE DeviceLeaves
  <2> DEFINE gone == [app EXCEPT !.device = "none"]
             taken == [gone EXCEPT !.interrupted = TRUE]
  <2>1. CASE app.persistent
    BY <1>3, <1>4, <2>1 DEF DeviceLeaves, AppInv
  <2>2. CASE ~app.persistent /\ app.backend = "Busy"
    <3>1. app' = OnError(taken)
      BY <1>4, <2>2 DEF DeviceLeaves
    <3>2. app.done > 0
      BY <1>1, <2>2 DEF Counts
    <3>3. taken \in Apps /\ taken.done > 0 /\ HasItsFiles(taken)
      BY <1>1, <3>2, SameWork DEF Apps
    <3> HIDE DEF taken
    <3> QED
      BY <3>1, <3>3, Waits DEF AppInv
  <2>3. CASE ~app.persistent /\ app.backend # "Busy"
    <3>1. app' = OnWaitingForDevices(gone)
      BY <1>4, <2>3 DEF DeviceLeaves
    <3>2. AppIsSound(gone)
      BY <1>3
    <3> HIDE DEF gone
    <3> QED
      BY <3>1, <3>2, Waits DEF AppInv, AppIsSound, Claims
  <2> QED
    BY <2>1, <2>2, <2>3
<1>5. CASE DeviceReturns
  BY <1>3, <1>5 DEF DeviceReturns, AppInv
<1>6. CASE SessionError
  BY <1>1, <1>6, Finishes DEF SessionError, AppInv
<1> QED
  BY <1>2, <1>4, <1>5, <1>6

-----------------------------------------------------------------------------
(* Theorems                                                                  *)

(* The invariant holds in the beginning.                                     *)
LEMMA AppBegins == Init => AppInv
<1> SUFFICES ASSUME NEW pending \in PendingOperations, NEW repeat \in 1..MaxRepeat,
                    app = [registry |-> "Checking", channels |-> "none", line |-> 1,
                           backend |-> "WaitingForDevices", device |-> "none", recovery |-> FALSE,
                           persistent |-> FALSE, helper |-> NoHelper, work |-> NoWork, dying |-> FALSE,
                           pending |-> pending, repeat |-> repeat, left |-> repeat, listens |-> FALSE, exit |-> "no",
                           done |-> 0, interrupted |-> FALSE, faulted |-> FALSE]
             PROVE  AppInv
  BY DEF Init
<1>1. repeat \in Nat
  BY BoundsAreNumbers
<1>2. app \in Apps
  BY <1>1, Beginnings DEF Apps, Channels
<1>3. HasItsFiles(app) /\ Claims(app)
  BY Beginnings DEF HasItsFiles, Repairs, Claims
<1>4. Counts(app)
  BY <1>1, Beginnings DEF Counts, UnderWay
<1> QED
  BY <1>2, <1>3, <1>4 DEF AppInv, AppIsSound

(* Every step keeps it.                                                      *)
LEMMA AppSteps == AppInv /\ [Next]_vars => AppInv'
<1> SUFFICES ASSUME AppInv, [Next]_vars PROVE AppInv'
  OBVIOUS
<1>1. CASE UNCHANGED vars
  BY <1>1 DEF vars, AppInv
<1> QED
  BY <1>1, DirectoryStep, HelperSteps, RepairStep, FileSteps, OperationSteps, DeviceStep DEF Next

(* Every operation that was asked for is still to be begun, under way or     *)
(* done (Cli::m_repeatNumber), and a repair has the files of its steps.      *)
THEOREM UpdatesAreSound == FairSpec => []AppInv
<1>1. Init => AppInv
  BY AppBegins
<1>2. AppInv /\ [Next]_vars => AppInv'
  BY AppSteps
<1> QED
  BY <1>1, <1>2, PTL DEF FairSpec

(* "All done" is said when as many operations ended well as were asked for,  *)
(* and a repair is begun with all of its files (Cli::startPendingOperation(),*)
(* FirmwareHelper).                                                          *)
THEOREM UpdateSuccess == FairSpec => []SuccessMeansDone
<1>1. AppInv => SuccessMeansDone
  BY StepsInOrder DEF AppInv, AppIsSound, Claims, HasItsFiles, Repairs, SuccessMeansDone
<1> QED
  BY <1>1, UpdatesAreSound, PTL

(* No device that restarts is taken from the first operation on it           *)
(* (FlipperZero::setPersistent(), DeviceRegistry).                           *)
THEOREM FirstIsKept == FairSpec => []FirstIsNotInterrupted
<1>1. AppInv => FirstIsNotInterrupted
  BY DEF AppInv, AppIsSound, Claims, FirstIsNotInterrupted
<1> QED
  BY <1>1, UpdatesAreSound, PTL

===============================================================================
