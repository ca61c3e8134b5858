------------------------ MODULE ToplevelOperation_proofs ------------------------
(***************************************************************************)
(* Theorems about ToplevelOperation, for every kind of operation and every *)
(* number of steps posted at once.                                         *)
(*                                                                         *)
(* Inv says that one thing is pending, and that it is what the step of the *)
(* row asks for; BootInv and SettingsInv relate the position in the row to *)
(* the option bytes of the device and to the backup.                       *)
(***************************************************************************)
EXTENDS ToplevelOperation, TLAPS

(* Every row of steps ends with one that waits for the device, or for a    *)
(* delay: none that is skipped over, and so skipping stays within the row. *)
LEMMA StepRows ==
    ASSUME NEW o \in Ops
    PROVE  /\ Len(StepsOf(o)) \in Nat \ {0}
           /\ StepsOf(o)[Len(StepsOf(o))]
                  \notin {"PreparingRemoteUpdate", "VerifyingExistingFiles", "SavingBackup"}
<1>1. CASE o.kind = "fullUpdate"
  BY <1>1 DEF StepsOf, FullUpdateSteps
<1>2. CASE o.kind = "legacyUpdate"
  <2>1. o.radio \in BOOLEAN
    BY <1>2 DEF Ops
  <2>2. CASE o.radio
    BY <1>2, <2>2 DEF StepsOf, LegacyUpdateSteps
  <2>3. CASE ~o.radio
    BY <1>2, <2>3 DEF StepsOf, LegacyUpdateSteps
  <2> QED
    BY <2>1, <2>2, <2>3
<1>3. CASE o.kind = "fullRepair"
  BY <1>3 DEF StepsOf, FullRepairSteps
<1>4. CASE o.kind = "firmwareInstall"
  BY <1>4 DEF StepsOf, FirmwareInstallSteps
<1>5. CASE o.kind = "core2Update"
  BY <1>5 DEF StepsOf, Core2UpdateSteps
<1>6. CASE o.kind = "settingsBackup"
  BY <1>6 DEF StepsOf, SettingsBackupSteps
<1>7. CASE o.kind = "settingsRestore"
  BY <1>7 DEF StepsOf, SettingsRestoreSteps
<1>8. CASE o.kind = "factoryReset"
  BY <1>8 DEF StepsOf, FactoryResetSteps
<1> QED
  BY <1>1, <1>2, <1>3, <1>4, <1>5, <1>6, <1>7, <1>8 DEF Ops, Kinds

-----------------------------------------------------------------------------
(* The job: what every step of it does, whatever operation it belongs to *)

(* The stages of a job fit its name, and a request belongs to a job.       *)
JobStages ==
    /\ job.name = "none" => job = NoJob
    /\ job.at = "none" => job = NoJob
    /\ job = NoJob => request = "none"
    /\ job.name \in BootJobs => job.at \in {"queued", "ready", "away"}

(* The job keeps its name, and its other fields stay what they should be.  *)
JobKept ==
    \E at \in Stages \ {"none"}, t \in BOOLEAN, n \in Nat :
        job' = [name |-> job.name, at |-> at, timer |-> t, next |-> n]

(* The fields of a job, and of the jobs that differ from it in a few of them. *)
LEMMA JobFields ==
    ASSUME JobTypeOK
    PROVE  /\ job.name \in JobNames \cup {"none"} /\ job.at \in Stages
           /\ job.timer \in BOOLEAN /\ job.next \in Nat
           /\ \A t, n :
                /\ [job EXCEPT !.timer = t]
                     = [name |-> job.name, at |-> job.at, timer |-> t, next |-> job.next]
                /\ [job EXCEPT !.timer = t, !.next = n]
                     = [name |-> job.name, at |-> job.at, timer |-> t, next |-> n]
                /\ [job EXCEPT !.next = n, !.timer = t]
                     = [name |-> job.name, at |-> job.at, timer |-> t, next |-> n]
           /\ \A at, n : [job EXCEPT !.at = at, !.next = n]
                            = [name |-> job.name, at |-> at, timer |-> job.timer, next |-> n]
<1>1. job \in [name : JobNames \cup {"none"}, at : Stages, timer : BOOLEAN, next : Nat]
  BY DEF JobTypeOK, DeviceRecords
<1>2. ASSUME NEW t, NEW n
      PROVE  /\ [job EXCEPT !.timer = t]
                  = [name |-> job.name, at |-> job.at, timer |-> t, next |-> job.next]
             /\ [job EXCEPT !.timer = t, !.next = n]
                  = [name |-> job.name, at |-> job.at, timer |-> t, next |-> n]
             /\ [job EXCEPT !.next = n, !.timer = t]
                  = [name |-> job.name, at |-> job.at, timer |-> t, next |-> n]
  <2>1. [job EXCEPT !.timer = t]
          = [name |-> job.name, at |-> job.at, timer |-> t, next |-> job.next]
    BY <1>1
  <2>2. ASSUME NEW r, r \in [name : {job.name}, at : {job.at}, timer : {t}, next : {n}]
        PROVE  r = [name |-> job.name, at |-> job.at, timer |-> t, next |-> n]
    BY ONLY <2>2
  <2>3. /\ [job EXCEPT !.timer = t, !.next = n]
             \in [name : {job.name}, at : {job.at}, timer : {t}, next : {n}]
        /\ [job EXCEPT !.next = n, !.timer = t]
             \in [name : {job.name}, at : {job.at}, timer : {t}, next : {n}]
    BY <1>1
  <2> QED
    BY <2>1, <2>2, <2>3
<1>3. ASSUME NEW at, NEW n
      PROVE  [job EXCEPT !.at = at, !.next = n]
                  = [name |-> job.name, at |-> at, timer |-> job.timer, next |-> n]
  <2>1. ASSUME NEW r, r \in [name : {job.name}, at : {at}, timer : {job.timer}, next : {n}]
        PROVE  r = [name |-> job.name, at |-> at, timer |-> job.timer, next |-> n]
    BY ONLY <2>1
  <2>2. [job EXCEPT !.at = at, !.next = n]
          \in [name : {job.name}, at : {at}, timer : {job.timer}, next : {n}]
    BY <1>1
  <2> QED
    BY <2>1, <2>2
<1>4. /\ job.name \in JobNames \cup {"none"} /\ job.at \in Stages
      /\ job.timer \in BOOLEAN /\ job.next \in Nat
  BY <1>1
<1> QED
  BY ONLY <1>2, <1>3, <1>4, Zenon

(* The types of a job's fields. *)
LEMMA JobTypes ==
    ASSUME JobTypeOK
    PROVE  /\ job.name \in JobNames \cup {"none"} /\ job.at \in Stages
           /\ job.timer \in BOOLEAN /\ job.next \in Nat
BY DEF JobTypeOK, DeviceRecords

(* A job is the record of its fields. *)
LEMMA JobIsRow ==
    ASSUME JobTypeOK
    PROVE  job = [name |-> job.name, at |-> job.at, timer |-> job.timer, next |-> job.next]
BY DEF JobTypeOK, DeviceRecords

(* The job left by the start of its next step. *)
LEMMA StepIsTaken ==
    ASSUME JobTypeOK, job.next > 0, NEW at
    PROVE  /\ job.next - 1 \in Nat
           /\ StepTaken(at)
                = [name |-> job.name, at |-> at, timer |-> job.timer, next |-> job.next - 1]
           /\ \A t : [StepTaken(at) EXCEPT !.timer = t]
                       = [name |-> job.name, at |-> at, timer |-> t, next |-> job.next - 1]
<1>1. StepTaken(at)
        = [name |-> job.name, at |-> at, timer |-> job.timer, next |-> job.next - 1]
  <2> DEFINE n == job.next - 1
  <2>1. \A m : [job EXCEPT !.at = at, !.next = m]
                  = [name |-> job.name, at |-> at, timer |-> job.timer, next |-> m]
    BY JobFields
  <2>2. StepTaken(at) = [job EXCEPT !.at = at, !.next = n]
    BY DEF StepTaken
  <2> HIDE DEF n
  <2>3. StepTaken(at) = [name |-> job.name, at |-> at, timer |-> job.timer, next |-> n]
    BY <2>1, <2>2
  <2> QED
    BY <2>3 DEF n
<1>2. \A t : [StepTaken(at) EXCEPT !.timer = t]
               = [name |-> job.name, at |-> at, timer |-> t, next |-> job.next - 1]
  BY <1>1
<1>3. job.next - 1 \in Nat
  <2>1. job.next \in Nat
    BY JobFields
  <2> QED
    BY <2>1
<1> QED
  BY <1>1, <1>2, <1>3

(* With no job left, what is said of jobs holds. *)
LEMMA NoJobLeft ==
    ASSUME JobTypeOK, job' = NoJob, request' = "none", UNCHANGED <<dev, crashed>>
    PROVE  JobTypeOK' /\ JobStages'
<1>1. JobTypeOK'
  BY DEF JobTypeOK, DeviceRecords, NoJob, Stages
<1>2. JobStages'
  BY DEF JobStages, NoJob, BootJobs
<1> QED
  BY <1>1, <1>2

(* A step that does not end the job keeps its name, and changes the option *)
(* bytes only where the transaction of a boot job has succeeded.           *)
BootStep ==
    dev'.boot = IF job.name \in BootJobs /\ job.at = "ready" /\ job'.at = "away"
                THEN BootAfter(job.name) ELSE dev.boot

StepKeeps ==
    /\ JobKept /\ request' \in {"none", "queued", "sent", "lost"} /\ crashed' \in BOOLEAN
    /\ dev' \in [online : BOOLEAN, dfu : BOOLEAN, boot : {"os", "dfu"}, resetting : BOOLEAN, up : BOOLEAN]
    /\ job.name \in BootJobs => job'.at \in {"queued", "ready", "away"}
    /\ BootStep

(* A step of a job that keeps to its stages keeps what is said of jobs. *)
LEMMA JobKeptOK ==
    ASSUME JobTypeOK, job # NoJob, JobStages, StepKeeps
    PROVE  JobTypeOK' /\ JobStages' /\ job' # NoJob /\ job'.name = job.name
<1>1. PICK at \in Stages \ {"none"}, t \in BOOLEAN, n \in Nat :
          job' = [name |-> job.name, at |-> at, timer |-> t, next |-> n]
  BY DEF StepKeeps, JobKept
<1>2. JobTypeOK'
  BY <1>1, JobFields DEF StepKeeps, JobTypeOK, DeviceRecords
<1>3. job.name # "none" /\ job'.name = job.name /\ job'.at # "none"
  BY <1>1, JobFields DEF JobStages
<1>4. job' # NoJob
  BY <1>3 DEF NoJob
<1>5. JobStages'
  BY <1>3, <1>4 DEF StepKeeps, JobStages
<1> QED
  BY <1>2, <1>3, <1>4, <1>5

(* The first step of a job that does not end it keeps to its stages. *)
LEMMA FirstStepGoesOn ==
    ASSUME JobTypeOK, JobStages, FirstStep("none")
    PROVE  StepKeeps
<1> DEFINE DevOK == [online : BOOLEAN, dfu : BOOLEAN, boot : {"os", "dfu"}, resetting : BOOLEAN, up : BOOLEAN]
           RequestOK == {"none", "queued", "sent", "lost"}
<1>1. job.at = "ready" /\ job.next > 0 /\ crashed' \in BOOLEAN
  BY DEF FirstStep, JobTypeOK, DeviceRecords
<1>2. /\ {"away", "working", "asking", "busy"} \subseteq Stages \ {"none"}
      /\ dev \in DevOK /\ request \in RequestOK
  BY DEF Stages, JobTypeOK, DeviceRecords
<1>3. CASE BootTransaction("none")
  <2>1. /\ job.name \in BootJobs
        /\ job' = [StepTaken("away") EXCEPT !.timer = TRUE]
        /\ dev' = [dev EXCEPT !.boot = BootAfter(job.name)]
        /\ request' = request
    BY <1>3 DEF BootTransaction, GoesOn, Ends
  <2>2. job' = [name |-> job.name, at |-> "away", timer |-> TRUE, next |-> job.next - 1]
    BY <2>1, <1>1, StepIsTaken
  <2>3. BootAfter(job.name) \in {"os", "dfu"}
    BY <2>1, <1>2 DEF BootAfter, BootJobs
  <2>4. dev' \in DevOK /\ dev'.boot = BootAfter(job.name)
    BY <2>1, <2>3, <1>2
  <2> HIDE DEF DevOK
  <2>5. JobKept
    BY <2>2, <1>1, <1>2, StepIsTaken DEF JobKept
  <2> QED
    BY <2>1, <2>2, <2>4, <2>5, <1>1, <1>2 DEF BootStep, StepKeeps, DevOK
<1>4. CASE StartTransfer("none")
  <2>1. /\ job.name \notin BootJobs
        /\ job' = StepTaken("working")
        /\ dev' = dev /\ request' = request
    BY <1>4 DEF StartTransfer, GoesOn, BootJobs
  <2>2. job' = [name |-> job.name, at |-> "working", timer |-> job.timer, next |-> job.next - 1]
    BY <2>1, <1>1, StepIsTaken
  <2>3. JobKept
    BY <2>2, <1>1, <1>2, StepIsTaken, JobFields DEF JobKept
  <2> QED
    BY <2>1, <2>3, <1>1, <1>2 DEF BootStep, StepKeeps
<1>5. CASE AskForReset("none")
  <2>1. /\ job.name \notin BootJobs
        /\ job' = [StepTaken("away") EXCEPT !.timer = (job.name = "restartDevice")]
        /\ dev' = dev /\ request' \in RequestOK
    BY <1>5 DEF AskForReset, GoesOn, Ends, BootJobs, ResetJobs, Asks
  <2>2. PICK t \in BOOLEAN : job' = [StepTaken("away") EXCEPT !.timer = t]
    BY <2>1
  <2>3. job' = [name |-> job.name, at |-> "away", timer |-> t, next |-> job.next - 1]
    BY <2>2, <1>1, StepIsTaken
  <2>4. JobKept
    BY <2>3, <1>1, <1>2, StepIsTaken DEF JobKept
  <2> QED
    BY <2>1, <2>4, <1>1, <1>2 DEF BootStep, StepKeeps
<1>6. CASE AskForUpdate("none")
  <2>1. /\ job.name \notin BootJobs
        /\ job' = StepTaken("asking")
        /\ dev' = dev /\ request' \in RequestOK
    BY <1>6 DEF AskForUpdate, GoesOn, BootJobs, Asks
  <2>2. job' = [name |-> job.name, at |-> "asking", timer |-> job.timer, next |-> job.next - 1]
    BY <2>1, <1>1, StepIsTaken
  <2>3. JobKept
    BY <2>2, <1>1, <1>2, StepIsTaken, JobFields DEF JobKept
  <2> QED
    BY <2>1, <2>3, <1>1, <1>2 DEF BootStep, StepKeeps
<1>7. CASE BeginTalking("none")
  <2>1. /\ job.name \notin BootJobs
        /\ job' = StepTaken("busy")
        /\ dev' = dev /\ request' = request
    BY <1>7 DEF BeginTalking, GoesOn, BootJobs, Talkers
  <2>2. job' = [name |-> job.name, at |-> "busy", timer |-> job.timer, next |-> job.next - 1]
    BY <2>1, <1>1, StepIsTaken
  <2>3. JobKept
    BY <2>2, <1>1, <1>2, StepIsTaken, JobFields DEF JobKept
  <2> QED
    BY <2>1, <2>3, <1>1, <1>2 DEF BootStep, StepKeeps
<1> QED
  BY <1>3, <1>4, <1>5, <1>6, <1>7 DEF FirstStep

(* Any step of a job that does not end it keeps to its stages, and does to the boot mode only what the job is for. *)
LEMMA JobGoesOn ==
    ASSUME JobTypeOK, JobStages, JobStep("none")
    PROVE  JobTypeOK' /\ JobStages' /\ job # NoJob /\ job' # NoJob /\ job'.name = job.name /\ BootStep
<1> DEFINE DevOK == [online : BOOLEAN, dfu : BOOLEAN, boot : {"os", "dfu"}, resetting : BOOLEAN, up : BOOLEAN]
           RequestOK == {"none", "queued", "sent", "lost"}
<1>1. dev \in DevOK /\ request \in RequestOK /\ crashed \in BOOLEAN
  BY DEF JobTypeOK, DeviceRecords
<1>2. job # NoJob
  <2>1. job = NoJob => request = "none" /\ job.at = "none" /\ job.timer = FALSE /\ job.next = 0
    BY DEF JobStages, NoJob
  <2> QED
    BY <2>1 DEF JobStep, StartJob, FirstStep, LaterStep, TransferEnds, TalksOn, OnAnswer,
                OnOperationTimeout
<1>3. CASE StartJob("none")
  <2>1. /\ job.at = "queued"
        /\ job' = [job EXCEPT !.at = "ready", !.next = 1]
        /\ request' = request /\ dev' = dev /\ crashed' = crashed
    BY <1>3 DEF StartJob, GoesOn
  <2>2. job' = [name |-> job.name, at |-> "ready", timer |-> job.timer, next |-> 1]
    BY <2>1, JobFields
  <2>3. JobKept
    BY <2>2, JobFields DEF JobKept, Stages
  <2>4. StepKeeps
    BY <2>1, <2>2, <2>3, <1>1 DEF StepKeeps, BootStep
  <2> QED
    BY <2>4, <1>2, JobKeptOK DEF StepKeeps
<1>4. CASE FirstStep("none")
  BY <1>4, <1>2, FirstStepGoesOn, JobKeptOK DEF StepKeeps
<1>5. CASE LaterStep("none")
  <2>1. /\ job.next > 0 /\ job.at \notin {"queued", "ready", "away"}
        /\ \/ job' = StepTaken("working")
           \/ job' = StepTaken("rebooting")
           \/ job' = [StepTaken("away") EXCEPT !.timer = TRUE]
        /\ request' \in RequestOK /\ dev' = dev /\ crashed' = crashed
    BY <1>5, <1>1 DEF LaterStep, GoesOn, Ends, Asks
  <2>2. PICK at \in Stages \ {"none"}, t \in BOOLEAN :
            job' = [name |-> job.name, at |-> at, timer |-> t, next |-> job.next - 1]
    <3>1. {"working", "rebooting", "away"} \subseteq Stages \ {"none"}
      BY DEF Stages
    <3>2. job.timer \in BOOLEAN
      BY JobTypes
    <3>3. CASE job' = [StepTaken("away") EXCEPT !.timer = TRUE]
      BY <2>1, <3>1, <3>3, StepIsTaken
    <3> QED
      BY <2>1, <3>1, <3>2, <3>3, StepIsTaken
  <2>3. JobKept
    BY <2>1, <2>2, StepIsTaken DEF JobKept
  <2>4. job.name \notin BootJobs
    BY <2>1 DEF JobStages
  <2>5. StepKeeps
    BY <2>1, <2>3, <2>4, <1>1 DEF StepKeeps, BootStep
  <2> QED
    BY <2>5, <1>2, JobKeptOK DEF StepKeeps
<1>6. CASE TransferEnds("none")
  <2>1. /\ job.at = "working"
        /\ job' = [job EXCEPT !.at = "worked", !.next = job.next + 1]
        /\ request' = request /\ dev' = dev /\ crashed' = crashed
    BY <1>6 DEF TransferEnds, GoesOn, Ends
  <2>2. job' = [name |-> job.name, at |-> "worked", timer |-> job.timer, next |-> job.next + 1]
    BY <2>1, JobFields
  <2>3. JobKept
    <3>1. job.next + 1 \in Nat /\ "worked" \in Stages \ {"none"} /\ job.timer \in BOOLEAN
      BY JobTypes DEF Stages
    <3> QED
      BY <2>2, <3>1 DEF JobKept
  <2>4. StepKeeps
    BY <2>1, <2>3, <1>1 DEF StepKeeps, BootStep, JobStages
  <2> QED
    BY <2>4, <1>2, JobKeptOK DEF StepKeeps
<1>7. CASE TalksOn("none")
  <2>1. /\ job.at = "busy" /\ job' = job
        /\ request' \in RequestOK /\ dev' = dev /\ crashed' \in BOOLEAN
    BY <1>7, <1>1 DEF TalksOn, Ends, Asks
  <2>2. JobKept
    <3>1. job.at \in Stages \ {"none"} /\ job.timer \in BOOLEAN /\ job.next \in Nat
      BY <2>1, JobTypes
    <3> QED
      BY <2>1, <3>1, JobIsRow DEF JobKept
  <2>3. StepKeeps
    BY <2>1, <2>2, <1>1 DEF StepKeeps, BootStep, JobStages
  <2> QED
    BY <2>3, <1>2, JobKeptOK DEF StepKeeps
<1>8. CASE OnAnswer("none")
  <2>1. PICK t \in BOOLEAN, n \in {job.next, job.next + 1} :
            job' = [job EXCEPT !.timer = t, !.next = n]
    <3>1. CASE job.name = "startUpdater"
      BY <1>8, <3>1 DEF OnAnswer, GoesOn, Ends, TimerAfterAnswer
    <3>2. CASE job.name # "startUpdater"
      BY <1>8, <3>2 DEF OnAnswer, GoesOn, Ends, TimerAfterAnswer
    <3> QED
      BY <3>1, <3>2
  <2>2. job' = [name |-> job.name, at |-> job.at, timer |-> t, next |-> n]
    BY <2>1, JobFields
  <2>3. JobKept
    <3>1. n \in Nat /\ job.at \in Stages \ {"none"}
      BY <1>2, JobTypes DEF JobStages
    <3> QED
      BY <2>2, <3>1 DEF JobKept
  <2>4. PICK b \in BOOLEAN : dev' = [dev EXCEPT !.resetting = b]
    BY <1>8 DEF OnAnswer, GoesOn, Ends
  <2>5. dev' \in DevOK /\ dev'.boot = dev.boot
    BY <2>4, <1>1
  <2>6. request' \in RequestOK /\ crashed' = crashed
    BY <1>8 DEF OnAnswer, Ends
  <2>7. StepKeeps
    BY <2>2, <2>3, <2>5, <2>6, <1>1 DEF StepKeeps, BootStep, JobStages
  <2> QED
    BY <2>7, <1>2, JobKeptOK DEF StepKeeps
<1>9. CASE OnOperationTimeout("none")
  <2>1. /\ job' = [job EXCEPT !.timer = FALSE, !.next = job.next + 1]
        /\ request' = request /\ dev' = dev /\ crashed' = crashed
    BY <1>9 DEF OnOperationTimeout, GoesOn, Ends
  <2>2. job' = [name |-> job.name, at |-> job.at, timer |-> FALSE, next |-> job.next + 1]
    BY <2>1, JobFields
  <2>3. JobKept
    <3>1. job.next + 1 \in Nat /\ job.at \in Stages \ {"none"}
      BY <1>2, JobTypes DEF JobStages
    <3> QED
      BY <2>2, <3>1 DEF JobKept
  <2>4. StepKeeps
    BY <2>1, <2>2, <2>3, <1>1 DEF StepKeeps, BootStep, JobStages
  <2> QED
    BY <2>4, <1>2, JobKeptOK DEF StepKeeps
<1> QED
  BY <1>2, <1>3, <1>4, <1>5, <1>6, <1>7, <1>8, <1>9 DEF JobStep

(* A step that ends the job leaves nothing of it, and a boot job does not  *)
(* succeed unless its transaction has.                                     *)
LEMMA JobIsOver ==
    ASSUME JobTypeOK, JobStages, NEW r \in {"ok", "failed"}, JobStep(r)
    PROVE  /\ JobTypeOK' /\ JobStages'
           /\ job' = NoJob /\ job # NoJob /\ job.name \in JobNames
           /\ dev'.boot = dev.boot
           /\ r = "ok" /\ job.name \in BootJobs => job.at = "away"
<1>1. job # NoJob
  <2>1. job = NoJob => request = "none" /\ job.at = "none" /\ job.timer = FALSE /\ job.next = 0
    BY DEF JobStages, NoJob
  <2> QED
    BY <2>1 DEF JobStep, StartJob, FirstStep, LaterStep, TransferEnds, TalksOn, OnAnswer,
                OnOperationTimeout
<1>2. job.name \in JobNames
  BY <1>1, JobTypes DEF JobStages
<1>3. Ends(r) /\ UNCHANGED <<dev, crashed>> /\ (r = "ok" /\ job.name \in BootJobs => job.at = "away")
  <2>1. CASE FirstStep(r)
    BY <2>1 DEF FirstStep, BootTransaction, StartTransfer, AskForReset, AskForUpdate,
                BeginTalking, GoesOn, ResetJobs, BootJobs
  <2>2. CASE LaterStep(r)
    BY <2>2 DEF LaterStep, GoesOn, JobStages
  <2>3. CASE TransferEnds(r)
    BY <2>3 DEF TransferEnds, GoesOn, JobStages
  <2>4. CASE TalksOn(r)
    BY <2>4 DEF TalksOn, JobStages
  <2>5. CASE OnAnswer(r)
    BY <2>5 DEF OnAnswer, GoesOn, Encodes, BootJobs
  <2>6. CASE OnOperationTimeout(r)
    BY <2>6 DEF OnOperationTimeout, GoesOn
  <2> QED
    BY <2>1, <2>2, <2>3, <2>4, <2>5, <2>6 DEF JobStep, StartJob, GoesOn
<1>4. job' = NoJob /\ request' = "none" /\ UNCHANGED <<dev, crashed>>
  BY <1>3 DEF Ends
<1> QED
  BY <1>1, <1>2, <1>3, <1>4, NoJobLeft

(* The device comes and goes without touching the option bytes, and only   *)
(* the timer and the posted steps of the job notice.                       *)
LEMMA DeviceMoves ==
    ASSUME JobTypeOK, JobStages, Leave \/ Return \/ SessionStops \/ RequestDropped
    PROVE  /\ JobTypeOK' /\ JobStages'
           /\ job' = NoJob <=> job = NoJob
           /\ job'.name = job.name /\ job'.at = job.at /\ dev'.boot = dev.boot
<1> DEFINE DevOK == [online : BOOLEAN, dfu : BOOLEAN, boot : {"os", "dfu"}, resetting : BOOLEAN, up : BOOLEAN]
<1>1. PICK t \in BOOLEAN, n \in {job.next, job.next + 1} :
          job' = [name |-> job.name, at |-> job.at, timer |-> t, next |-> n]
  <2>1. ASSUME Leave
        PROVE  \E t \in BOOLEAN : job' = [job EXCEPT !.timer = t]
    BY <2>1 DEF Leave, Watches
  <2>2. ASSUME Return
        PROVE  \/ job' = job
               \/ \E t \in BOOLEAN : job' = [job EXCEPT !.next = job.next + 1, !.timer = t]
    BY <2>2 DEF Return
  <2>3. ASSUME SessionStops \/ RequestDropped
        PROVE  job' = job
    BY <2>3 DEF SessionStops, RequestDropped
  <2> QED
    BY <2>1, <2>2, <2>3, JobFields, JobIsRow, JobTypes
<1>2. dev' \in DevOK /\ dev'.boot = dev.boot
  <2>1. dev \in DevOK
    BY DEF JobTypeOK, DeviceRecords
  <2>2. CASE Leave
    BY <2>1, <2>2 DEF Leave
  <2>3. CASE Return
    <3>1. PICK dfu \in BOOLEAN, up \in BOOLEAN :
            dev' = [dev EXCEPT !.online = TRUE, !.dfu = dfu, !.up = up]
      BY <2>3 DEF Return
    <3> QED
      BY <2>1, <3>1
  <2>4. CASE SessionStops \/ RequestDropped
    BY <2>1, <2>4 DEF SessionStops, RequestDropped
  <2> QED
    BY <2>2, <2>3, <2>4
<1>3. job = NoJob => job' = NoJob /\ request' = "none"
  <2>1. ASSUME job = NoJob
        PROVE  job.timer = FALSE /\ request = "none" /\ ~Watches
    BY <2>1 DEF NoJob, Watches, JobStages, RecoveryJobs, BootJobs
  <2>2. ASSUME job = NoJob, Leave
        PROVE  job' = [job EXCEPT !.timer = FALSE] /\ request' = request
    BY <2>1, <2>2 DEF Leave
  <2>3. ASSUME job = NoJob
        PROVE  [job EXCEPT !.timer = FALSE] = NoJob
    <3>1. [job EXCEPT !.timer = FALSE]
            = [name |-> job.name, at |-> job.at, timer |-> FALSE, next |-> job.next]
      BY JobFields
    <3> QED
      BY <2>3, <3>1 DEF NoJob
  <2>4. ASSUME job = NoJob, Return \/ SessionStops \/ RequestDropped
        PROVE  job' = job /\ request' = request
    BY <2>1, <2>4 DEF Return, SessionStops, RequestDropped
  <2> QED
    BY <2>1, <2>2, <2>3, <2>4
<1>4. request' \in {"none", "queued", "sent", "lost"} /\ crashed' \in BOOLEAN
  BY DEF Leave, Return, SessionStops, RequestDropped, JobTypeOK, DeviceRecords
<1>5. n \in Nat
  BY <1>1, JobTypes
<1>6. JobTypeOK'
  BY <1>1, <1>2, <1>4, <1>5, JobTypes DEF JobTypeOK, DeviceRecords
<1>7. job' = NoJob => job = NoJob
  BY <1>1 DEF JobStages, NoJob
<1>8. JobStages'
  BY <1>1, <1>3, <1>7 DEF JobStages
<1> QED
  BY <1>1, <1>2, <1>3, <1>6, <1>7, <1>8

-----------------------------------------------------------------------------
(* The operation: it waits for one thing at a time *)

(* What every step hands over or waits for itself.                         *)
LEMMA StepKinds ==
    ASSUME NEW s
    PROVE  /\ JobFor(s) \in JobNames \cup {"none"}
           /\ AsideOf(s) \in {"none", "helper", "delay"}
           /\ JobFor(s) # "none" => AsideOf(s) = "none"
<1>1. AsideOf(s) \in {"none", "helper", "delay"}
  BY DEF AsideOf
<1>2. JobFor(s) \in JobNames \cup {"none"}
  BY DEF JobFor, JobNames, RecoveryJobs, BootJobs, ResetJobs, Talkers
<1>3. JobFor(s) # "none" => AsideOf(s) = "none"
  BY DEF JobFor, AsideOf
<1> QED
  BY <1>1, <1>2, <1>3

(* A job just queued has its type, and is one. *)
LEMMA QueuedOK ==
    ASSUME NEW name \in JobNames
    PROVE  /\ QueuedJob(name) # NoJob /\ QueuedJob(name).name = name
           /\ QueuedJob(name).at = "queued"
           /\ QueuedJob(name) \in [name : JobNames \cup {"none"}, at : Stages, timer : BOOLEAN, next : Nat]
           /\ name # "none"
<1>1. name # "none"
  BY DEF JobNames, RecoveryJobs, BootJobs, ResetJobs, Talkers
<1> QED
  BY <1>1 DEF QueuedJob, NoJob, Stages

(* What the operation waits for is what its step asks for.                 *)
JobOfStep ==
    /\ job # NoJob => pos > 0 /\ job.name = JobFor(Step)
    /\ aside # "none" => pos > 0 /\ aside = AsideOf(Step)

Inv == TypeOK /\ JobStages /\ OneThingPending /\ JobOfStep

(* A step of the row is entered when nothing else is pending.              *)
LEMMA EnterOK ==
    ASSUME Inv, NextStateLogic
    PROVE  Inv'
<1>1. /\ posted = 1 /\ aside = "none" /\ job = NoJob /\ request = "none" /\ result = "none"
      /\ op \in Ops /\ pos \in 0 .. Len(StepsOf(op)) /\ Len(StepsOf(op)) \in Nat \ {0}
  <2>1. /\ posted \in Nat /\ op \in Ops /\ pos \in 0 .. Len(StepsOf(op))
        /\ posted > 0 /\ result = "none"
    BY DEF Inv, TypeOK, TopTypeOK, NextStateLogic
  <2>2. posted = 1 /\ aside = "none" /\ job = NoJob
    BY <2>1 DEF Inv, OneThingPending, Pending
  <2> QED
    BY <2>1, <2>2, StepRows DEF Inv, JobStages
<1>2. UNCHANGED <<op, request, dev, crashed, done>>
  BY DEF NextStateLogic
<1>3. CASE ~(pos < Len(StepsOf(op)))
  <2>1. /\ pos' = pos /\ posted' = 0 /\ result' = "ok" /\ job' = job /\ aside' = aside
    BY <1>1, <1>3 DEF NextStateLogic, Becomes
  <2>2. TypeOK' /\ JobStages'
    BY <2>1, <1>1, <1>2 DEF Inv, TypeOK, TopTypeOK, JobTypeOK, DeviceRecords, JobStages
  <2>3. OneThingPending' /\ JobOfStep'
    BY <2>1, <1>1, <1>2 DEF OneThingPending, Pending, JobOfStep
  <2> QED
    BY <2>2, <2>3 DEF Inv
<1>4. CASE pos < Len(StepsOf(op))
  <2> DEFINE p == pos + 1
             s == StepsOf(op)[p]
  <2>1. p \in 1 .. Len(StepsOf(op)) /\ (s = "SavingBackup" => p + 1 \in 1 .. Len(StepsOf(op)))
    BY <1>1, <1>4, StepRows
  <2>2. \/ job' = job /\ aside' = aside /\ posted' = 1 /\ result' = "none" /\ pos' \in 1 .. Len(StepsOf(op))
        \/ job' = job /\ aside' = aside /\ posted' = 0 /\ result' \in {"ok", "error"} /\ pos' = p
        \/ job' = job /\ aside' = AsideOf(s) /\ AsideOf(s) # "none" /\ posted' = 0
              /\ result' = "none" /\ pos' = p
        \/ job' = QueuedJob(JobFor(s)) /\ JobFor(s) # "none" /\ aside' = aside /\ posted' = 0
              /\ result' = "none" /\ pos' = p
    BY <1>1, <1>4, <2>1 DEF NextStateLogic, Enter, Becomes, Waits, Hands, AfterHanding
  <2>3. pos' \in 1 .. Len(StepsOf(op))
    BY <2>1, <2>2
  <2> HIDE DEF p
  <2>4. CASE job' = job
    <3>1. /\ posted' \in {0, 1} /\ aside' \in {"none", "helper", "delay"}
          /\ result' \in {"none", "ok", "error"}
      BY <2>2, <2>4, <1>1, StepKinds
    <3>2. TypeOK'
      BY <2>3, <2>4, <3>1, <1>1, <1>2 DEF Inv, TypeOK, TopTypeOK, JobTypeOK, DeviceRecords
    <3>3. JobStages'
      BY <2>4, <1>1, <1>2 DEF Inv, JobStages
    <3>5. aside' # "none" => aside' = AsideOf(s) /\ pos' = p
      BY <2>2, <2>4, <1>1, QueuedOK, StepKinds
    <3>6. pos' = p => Step' = s
      BY <2>1, <1>1, <1>2 DEF Step, p
    <3>7. JobOfStep'
      BY <2>3, <2>4, <3>5, <3>6, <1>1 DEF JobOfStep
    <3>4. OneThingPending'
      BY <2>2, <2>4, <1>1, QueuedOK, StepKinds DEF OneThingPending, Pending
    <3> QED
      BY <3>2, <3>3, <3>4, <3>7 DEF Inv
  <2>5. CASE job' # job
    <3>1. /\ job' = QueuedJob(JobFor(s)) /\ JobFor(s) # "none" /\ aside' = aside /\ posted' = 0
          /\ result' = "none" /\ pos' = p
      BY <2>2, <2>5
    <3>2. JobFor(s) \in JobNames
      BY <3>1, StepKinds
    <3>3. /\ job' # NoJob /\ job'.name = JobFor(s) /\ job'.at = "queued" /\ job'.name # "none"
          /\ job' \in [name : JobNames \cup {"none"}, at : Stages, timer : BOOLEAN, next : Nat]
      BY <3>1, <3>2, QueuedOK
    <3>4. TypeOK'
      BY <2>3, <3>1, <3>3, <1>1, <1>2 DEF Inv, TypeOK, TopTypeOK, JobTypeOK, DeviceRecords
    <3>5. JobStages'
      BY <3>3 DEF JobStages
    <3>6. JobOfStep'
      <4>1. Step' = s
        BY <2>1, <3>1, <1>1, <1>2 DEF Step, p
      <4> QED
        BY <4>1, <3>1, <3>3, <2>3, <1>1 DEF JobOfStep
    <3>7. OneThingPending'
      BY <3>1, <3>3, <1>1 DEF OneThingPending, Pending
    <3> QED
      BY <3>4, <3>5, <3>6, <3>7 DEF Inv
  <2> QED
    BY <2>4, <2>5
<1> QED
  BY <1>1, <1>3, <1>4

(* The end of a helper or of a delay posts a step, or ends the operation.  *)
LEMMA AsideOK ==
    ASSUME Inv, NEW failed \in BOOLEAN, AsideEnds(failed)
    PROVE  Inv'
<1>1. /\ posted = 0 /\ aside # "none" /\ job = NoJob /\ result = "none"
  <2>1. posted \in Nat /\ aside # "none" /\ result = "none"
    BY DEF Inv, TypeOK, TopTypeOK, AsideEnds
  <2> QED
    BY <2>1 DEF Inv, OneThingPending, Pending
<1>2. /\ UNCHANGED <<jobVars, op, done, pos>> /\ aside' = "none"
      /\ \/ posted' = 0 /\ result' = "error"
         \/ posted' = 1 /\ result' = "none"
  BY <1>1 DEF AsideEnds, Becomes
<1>3. TypeOK' /\ JobStages'
  BY <1>2 DEF Inv, TypeOK, TopTypeOK, JobTypeOK, DeviceRecords, JobStages, jobVars
<1>4. OneThingPending' /\ JobOfStep'
  BY <1>1, <1>2 DEF OneThingPending, Pending, JobOfStep, jobVars
<1> QED
  BY <1>3, <1>4 DEF Inv

(* While a job is at work nothing else is pending, and its end posts a     *)
(* step, of this row, or ends the operation.                               *)
LEMMA JobPending ==
    ASSUME Inv, job # NoJob
    PROVE  /\ posted = 0 /\ aside = "none" /\ result = "none"
           /\ op \in Ops /\ pos \in 1 .. Len(StepsOf(op)) /\ Step = StepsOf(op)[pos]
           /\ job.name = JobFor(Step) /\ Len(StepsOf(op)) \in Nat
<1>1. posted \in Nat /\ op \in Ops /\ pos \in 0 .. Len(StepsOf(op)) /\ pos > 0
  BY DEF Inv, TypeOK, TopTypeOK, JobOfStep
<1>2. posted = 0 /\ aside = "none" /\ result = "none"
  BY <1>1 DEF Inv, OneThingPending, Pending
<1>3. Len(StepsOf(op)) \in Nat
  BY <1>1, StepRows
<1> QED
  BY <1>1, <1>2, <1>3 DEF Step, Inv, JobOfStep

(* A step of the job an operation waits for keeps Inv. *)
LEMMA SubOperationOK ==
    ASSUME Inv, SubOperationStep
    PROVE  Inv'
<1>1. PICK r \in {"none", "ok", "failed"} :
        /\ JobStep(r)
        /\ IF r = "none"
           THEN UNCHANGED <<pos, posted, result, done>>
           ELSE /\ OnSubOperation(r)
                /\ done' = IF r = "ok" THEN done \cup {job.name} ELSE done
        /\ UNCHANGED <<op, aside>>
  BY DEF SubOperationStep
<1>2. JobTypeOK /\ JobStages /\ TopTypeOK
  BY DEF Inv, TypeOK
<1>3. CASE r = "none"
  <2>1. JobTypeOK' /\ JobStages' /\ job # NoJob /\ job' # NoJob /\ job'.name = job.name
    BY <1>1, <1>2, <1>3, JobGoesOn
  <2>2. UNCHANGED topVars
    BY <1>1, <1>3 DEF topVars
  <2>3. TypeOK'
    BY <2>1, <2>2, <1>2 DEF TypeOK, TopTypeOK, topVars
  <2>4. OneThingPending' /\ JobOfStep'
    BY <2>1, <2>2 DEF Inv, OneThingPending, Pending, JobOfStep, Step, topVars
  <2> QED
    BY <2>1, <2>3, <2>4 DEF Inv
<1>4. CASE r # "none"
  <2>1. /\ JobTypeOK' /\ JobStages' /\ job' = NoJob /\ job # NoJob /\ job.name \in JobNames
    BY <1>1, <1>2, <1>4, JobIsOver
  <2>2. /\ posted = 0 /\ aside = "none" /\ result = "none"
        /\ op \in Ops /\ pos \in 1 .. Len(StepsOf(op)) /\ Step = StepsOf(op)[pos]
        /\ Len(StepsOf(op)) \in Nat
    BY <2>1, JobPending
  <2>3. SkipsOne => pos + 1 \in 1 .. Len(StepsOf(op))
    BY <2>2, StepRows DEF SkipsOne
  <2>4. /\ pos' \in 0 .. Len(StepsOf(op))
        /\ \/ posted' = 0 /\ result' = "error"
           \/ posted' = 1 /\ result' = "none"
    BY <1>1, <1>4, <2>2, <2>3 DEF OnSubOperation, Becomes
  <2>5. op' = op /\ aside' = aside /\ done' \subseteq JobNames
    BY <1>1, <1>2, <1>4, <2>1 DEF TopTypeOK
  <2>6. TypeOK'
    BY <2>1, <2>2, <2>4, <2>5 DEF TypeOK, TopTypeOK
  <2>7. OneThingPending' /\ JobOfStep'
    BY <2>1, <2>2, <2>4, <2>5 DEF OneThingPending, Pending, JobOfStep
  <2> QED
    BY <2>1, <2>6, <2>7 DEF Inv
<1> QED
  BY <1>3, <1>4

(* A device that leaves the bus or comes back keeps Inv. *)
LEMMA DeviceOK ==
    ASSUME Inv, Environment
    PROVE  Inv'
<1>1. JobTypeOK /\ JobStages /\ (Leave \/ Return \/ SessionStops \/ RequestDropped) /\ UNCHANGED topVars
  BY DEF Inv, TypeOK, Environment
<1>2. /\ JobTypeOK' /\ JobStages' /\ (job' = NoJob <=> job = NoJob) /\ job'.name = job.name
  BY <1>1, DeviceMoves
<1>3. TypeOK'
  BY <1>1, <1>2 DEF Inv, TypeOK, TopTypeOK, topVars
<1>4. OneThingPending' /\ JobOfStep'
  BY <1>1, <1>2 DEF Inv, OneThingPending, Pending, JobOfStep, Step, topVars
<1> QED
  BY <1>2, <1>3, <1>4 DEF Inv

(* The operation starts with Inv. *)
LEMMA InitOK == Init => Inv
<1> SUFFICES ASSUME Init
             PROVE  Inv
  OBVIOUS
<1>1. op \in Ops /\ job = NoJob /\ request = "none" /\ crashed = FALSE
      /\ pos = 0 /\ posted = 1 /\ aside = "none" /\ result = "none" /\ done = {}
  BY DEF Init
<1>2. dev \in [online : BOOLEAN, dfu : BOOLEAN, boot : {"os", "dfu"}, resetting : BOOLEAN, up : BOOLEAN]
  BY DEF Init
<1>3. TypeOK
  <2>1. Len(StepsOf(op)) \in Nat
    BY <1>1, StepRows
  <2>2. JobTypeOK
    BY <1>1, <1>2 DEF JobTypeOK, DeviceRecords, NoJob, Stages
  <2>3. TopTypeOK
    BY <1>1, <2>1 DEF TopTypeOK
  <2> QED
    BY <2>2, <2>3 DEF TypeOK
<1>4. JobStages
  BY <1>1 DEF JobStages, NoJob, BootJobs
<1>5. OneThingPending /\ JobOfStep
  BY <1>1 DEF OneThingPending, Pending, JobOfStep
<1> QED
  BY <1>3, <1>4, <1>5 DEF Inv

(* Inv is inductive. *)
LEMMA NextOK == Inv /\ [Next]_vars => Inv'
<1> SUFFICES ASSUME Inv, [Next]_vars
             PROVE  Inv'
  OBVIOUS
<1>1. CASE NextStateLogic
  BY <1>1, EnterOK
<1>2. ASSUME NEW failed \in BOOLEAN, AsideEnds(failed)
      PROVE  Inv'
  BY <1>2, AsideOK
<1>3. CASE SubOperationStep
  BY <1>3, SubOperationOK
<1>4. CASE Environment
  BY <1>4, DeviceOK
<1>5. CASE UNCHANGED vars
  BY <1>5 DEF Inv, TypeOK, TopTypeOK, JobTypeOK, DeviceRecords, JobStages, OneThingPending, Pending, JobOfStep,
              Step, vars, jobVars, topVars
<1> QED
  BY <1>1, <1>2, <1>3, <1>4, <1>5 DEF Next, Program

(* Types: in particular a position is always one of the row of steps, also *)
(* where a step is skipped over, so `Step' is defined.                     *)
THEOREM ToplevelTypeCorrect == Spec => []TypeOK
<1>1. Inv => TypeOK
  BY DEF Inv
<1> QED
  BY InitOK, NextOK, <1>1, PTL DEF Spec

(* A toplevel operation waits for exactly one thing until it ends, and for *)
(* nothing afterwards, whatever its kind and whatever the device does.     *)
THEOREM OneThingAtATime == Spec => []OneThingPending
<1>1. Inv => OneThingPending
  BY DEF Inv
<1> QED
  BY InitOK, NextOK, <1>1, PTL DEF Spec

-----------------------------------------------------------------------------
(* The option bytes: where in its row an operation sets and resets them *)

ChangesBoot(o) ==
    \/ o.kind \in {"fullRepair", "core2Update"}
    \/ o.kind = "legacyUpdate" /\ o.radio
SetAt(o) == IF o.kind = "legacyUpdate" THEN 4 ELSE 2
ResetAt(o) ==
    CASE o.kind = "legacyUpdate" -> 7 [] o.kind = "fullRepair" -> 5 [] OTHER -> 4

Resetters == {"setOSBootMode", "fixOptionBytes"}
BackupSteps == {"SavingBackup", "RestoringBackup"}

(* The boot mode is set and reset once, in steps that never pass, and the  *)
(* wireless stack is dealt with in between.                                *)
LEMMA BootRows ==
    ASSUME NEW o \in Ops, ChangesBoot(o), NEW p \in 1 .. Len(StepsOf(o)),
           NEW s, s = StepsOf(o)[p]
    PROVE  /\ SetAt(o) \in Nat \ {0} /\ ResetAt(o) \in Nat /\ SetAt(o) < ResetAt(o)
           /\ ResetAt(o) <= Len(StepsOf(o))
           /\ JobFor(s) = "setRecoveryBootMode" <=> p = SetAt(o)
           /\ JobFor(s) \in Resetters <=> p = ResetAt(o)
           /\ JobFor(s) = "downloadWirelessStack" => p > SetAt(o) /\ p < ResetAt(o)
           /\ p \in {SetAt(o), ResetAt(o)} =>
                s \in {"SettingBootMode", "SettingRecoveryBootMode", "SettingOSBootMode",
                       "CorrectingOptionBytes"}
           /\ s \notin {"PreparingRemoteUpdate", "VerifyingExistingFiles"}
<1>1. CASE o.kind = "fullRepair"
  <2>1. p \in 1 .. 8 /\ Len(StepsOf(o)) = 8
    BY <1>1 DEF StepsOf, FullRepairSteps
  <2>2. /\ p = 1 => s = "FetchingFirmware"
        /\ p = 2 => s = "SettingBootMode"
        /\ p = 3 => s = "DownloadingRadioFirmware"
        /\ p = 4 => s = "DownloadingFirmware"
        /\ p = 5 => s = "CorrectingOptionBytes"
        /\ p = 6 => s = "DownloadingAssets"
        /\ p = 7 => s = "ProvisioningRegion"
        /\ p = 8 => s = "RestartingDevice"
    BY <1>1 DEF StepsOf, FullRepairSteps
  <2>3. /\ p = 1 => JobFor(s) = "none"
        /\ p = 2 => JobFor(s) = "setRecoveryBootMode"
        /\ p = 3 => JobFor(s) = "downloadWirelessStack"
        /\ p = 4 => JobFor(s) = "downloadFirmware"
        /\ p = 5 => JobFor(s) = "fixOptionBytes"
        /\ p = 6 => JobFor(s) = "downloadAssets"
        /\ p = 7 => JobFor(s) = "provisionRegionData"
        /\ p = 8 => JobFor(s) = "restartDevice"
    BY <2>2 DEF JobFor
  <2> QED
    BY <1>1, <2>1, <2>2, <2>3 DEF SetAt, ResetAt, Resetters
<1>2. CASE o.kind = "core2Update"
  <2>1. p \in 1 .. 4 /\ Len(StepsOf(o)) = 4
    BY <1>2 DEF StepsOf, Core2UpdateSteps
  <2>2. /\ p = 1 => s = "StartingRecovery"
        /\ p = 2 => s = "SettingRecoveryBootMode"
        /\ p = 3 => s = "UpdatingWirelessStack"
        /\ p = 4 => s = "SettingOSBootMode"
    BY <1>2 DEF StepsOf, Core2UpdateSteps
  <2>3. /\ p = 1 => JobFor(s) = "startRecoveryMode"
        /\ p = 2 => JobFor(s) = "setRecoveryBootMode"
        /\ p = 3 => JobFor(s) = "downloadWirelessStack"
        /\ p = 4 => JobFor(s) = "setOSBootMode"
    BY <2>2 DEF JobFor
  <2> QED
    BY <1>2, <2>1, <2>2, <2>3 DEF SetAt, ResetAt, Resetters
<1>3. CASE o.kind = "legacyUpdate" /\ o.radio
  <2>1. p \in 1 .. 11 /\ Len(StepsOf(o)) = 11
    BY <1>3 DEF StepsOf, LegacyUpdateSteps
  <2>2. /\ p = 1 => s = "FetchingFirmware"
        /\ p = 2 => s = "SavingBackup"
        /\ p = 3 => s = "StartingRecovery"
        /\ p = 4 => s = "SettingBootMode"
        /\ p = 5 => s = "DownloadingRadioFirmware"
        /\ p = 6 => s = "DownloadingFirmware"
        /\ p = 7 => s = "CorrectingOptionBytes"
        /\ p = 8 => s = "DownloadingAssets"
        /\ p = 9 => s = "ProvisioningRegion"
        /\ p = 10 => s = "RestoringBackup"
        /\ p = 11 => s = "RestartingDevice"
    BY <1>3 DEF StepsOf, LegacyUpdateSteps
  <2>3. /\ p = 1 => JobFor(s) = "none"
        /\ p = 2 => JobFor(s) = "backupInternalStorage"
        /\ p = 3 => JobFor(s) = "startRecoveryMode"
        /\ p = 4 => JobFor(s) = "setRecoveryBootMode"
        /\ p = 5 => JobFor(s) = "downloadWirelessStack"
        /\ p = 6 => JobFor(s) = "downloadFirmware"
        /\ p = 7 => JobFor(s) = "fixOptionBytes"
        /\ p = 8 => JobFor(s) = "downloadAssets"
        /\ p = 9 => JobFor(s) = "provisionRegionData"
        /\ p = 10 => JobFor(s) = "restoreInternalStorage"
        /\ p = 11 => JobFor(s) = "restartDevice"
    BY <2>2 DEF JobFor
  <2> QED
    BY <1>3, <2>1, <2>2, <2>3 DEF SetAt, ResetAt, Resetters
<1> QED
  BY <1>1, <1>2, <1>3 DEF ChangesBoot

(* The others do not change it, and have no wireless stack to install.     *)
LEMMA OtherRows ==
    ASSUME NEW o \in Ops, ~ChangesBoot(o), NEW p \in 1 .. Len(StepsOf(o)),
           NEW s, s = StepsOf(o)[p]
    PROVE  /\ JobFor(s) \notin Resetters \cup {"setRecoveryBootMode"}
           /\ JobFor(s) = "downloadWirelessStack" =>
                o.kind = "legacyUpdate" /\ ~o.radio /\ s = "DownloadingRadioFirmware"
<1>1. CASE o.kind = "fullUpdate"
  <2>1. s \in {"ProvisioninigRegion", "CheckingStorage", "PreparingLocalUpdate",
               "FetchingUpdate", "ExtractingUpdate", "ReadingUpdateFiles",
               "PreparingRemoteUpdate", "VerifyingExistingFiles", "UploadingUpdateFiles",
               "WaitingForUpdate"}
    BY <1>1 DEF StepsOf, FullUpdateSteps
  <2> QED
    BY <2>1 DEF JobFor, Resetters
<1>2. CASE o.kind = "legacyUpdate" /\ ~o.radio
  <2>1. p \in 1 .. 10 /\ Len(StepsOf(o)) = 10
    BY <1>2 DEF StepsOf, LegacyUpdateSteps
  <2>2. /\ p = 1 => s = "FetchingFirmware"
        /\ p = 2 => s = "SavingBackup"
        /\ p = 3 => s = "StartingRecovery"
        /\ p = 4 => s = "DownloadingRadioFirmware"
        /\ p = 5 => s = "DownloadingFirmware"
        /\ p = 6 => s = "ExitingRecovery"
        /\ p = 7 => s = "DownloadingAssets"
        /\ p = 8 => s = "ProvisioningRegion"
        /\ p = 9 => s = "RestoringBackup"
        /\ p = 10 => s = "RestartingDevice"
    BY <1>2 DEF StepsOf, LegacyUpdateSteps
  <2>3. /\ p = 1 => JobFor(s) = "none"
        /\ p = 2 => JobFor(s) = "backupInternalStorage"
        /\ p = 3 => JobFor(s) = "startRecoveryMode"
        /\ p = 4 => JobFor(s) = "downloadWirelessStack"
        /\ p = 5 => JobFor(s) = "downloadFirmware"
        /\ p = 6 => JobFor(s) = "exitRecoveryMode"
        /\ p = 7 => JobFor(s) = "downloadAssets"
        /\ p = 8 => JobFor(s) = "provisionRegionData"
        /\ p = 9 => JobFor(s) = "restoreInternalStorage"
        /\ p = 10 => JobFor(s) = "restartDevice"
    BY <2>2 DEF JobFor
  <2> QED
    BY <1>2, <2>1, <2>2, <2>3 DEF Resetters
<1>3. CASE o.kind = "firmwareInstall"
  <2>1. p \in 1 .. 6 /\ Len(StepsOf(o)) = 6
    BY <1>3 DEF StepsOf, FirmwareInstallSteps
  <2>2. /\ p = 1 => s = "SavingBackup"
        /\ p = 2 => s = "StartingRecovery"
        /\ p = 3 => s = "InstallingFirmware"
        /\ p = 4 => s = "ExitingRecovery"
        /\ p = 5 => s = "RestoringBackup"
        /\ p = 6 => s = "RestartingDevice"
    BY <1>3 DEF StepsOf, FirmwareInstallSteps
  <2>3. /\ p = 1 => JobFor(s) = "backupInternalStorage"
        /\ p = 2 => JobFor(s) = "startRecoveryMode"
        /\ p = 3 => JobFor(s) = "downloadFirmware"
        /\ p = 4 => JobFor(s) = "exitRecoveryMode"
        /\ p = 5 => JobFor(s) = "restoreInternalStorage"
        /\ p = 6 => JobFor(s) = "restartDevice"
    BY <2>2 DEF JobFor
  <2> QED
    BY <1>3, <2>1, <2>2, <2>3 DEF Resetters
<1>4. CASE o.kind = "settingsBackup"
  <2>1. p \in 1 .. 2 /\ Len(StepsOf(o)) = 2
    BY <1>4 DEF StepsOf, SettingsBackupSteps
  <2>2. /\ p = 1 => s = "SavingBackup"
        /\ p = 2 => s = "Waiting"
    BY <1>4 DEF StepsOf, SettingsBackupSteps
  <2>3. /\ p = 1 => JobFor(s) = "backupInternalStorage"
        /\ p = 2 => JobFor(s) = "none"
    BY <2>2 DEF JobFor
  <2> QED
    BY <1>4, <2>1, <2>2, <2>3 DEF Resetters
<1>5. CASE o.kind = "settingsRestore"
  <2>1. p \in 1 .. 3 /\ Len(StepsOf(o)) = 3
    BY <1>5 DEF StepsOf, SettingsRestoreSteps
  <2>2. /\ p = 1 => s = "RestoringBackup"
        /\ p = 2 => s = "Waiting"
        /\ p = 3 => s = "RestartingDevice"
    BY <1>5 DEF StepsOf, SettingsRestoreSteps
  <2>3. /\ p = 1 => JobFor(s) = "restoreInternalStorage"
        /\ p = 2 => JobFor(s) = "none"
        /\ p = 3 => JobFor(s) = "restartDevice"
    BY <2>2 DEF JobFor
  <2> QED
    BY <1>5, <2>1, <2>2, <2>3 DEF Resetters
<1>6. CASE o.kind = "factoryReset"
  <2>1. p \in 1 .. 2 /\ Len(StepsOf(o)) = 2
    BY <1>6 DEF StepsOf, FactoryResetSteps
  <2>2. /\ p = 1 => s = "ResettingDevice"
        /\ p = 2 => s = "Waiting"
    BY <1>6 DEF StepsOf, FactoryResetSteps
  <2>3. /\ p = 1 => JobFor(s) = "factoryReset"
        /\ p = 2 => JobFor(s) = "none"
    BY <2>2 DEF JobFor
  <2> QED
    BY <1>6, <2>1, <2>2, <2>3 DEF Resetters
<1> QED
  BY <1>1, <1>2, <1>3, <1>4, <1>5, <1>6 DEF Ops, Kinds, ChangesBoot

(* What a step of the row does when it is entered. *)
LEMMA EnterShape ==
    ASSUME Inv, NextStateLogic
    PROVE  /\ posted = 1 /\ job = NoJob /\ result = "none" /\ op \in Ops
           /\ pos \in 0 .. Len(StepsOf(op)) /\ Len(StepsOf(op)) \in Nat
           /\ UNCHANGED <<op, request, dev, crashed, done>>
           /\ \/ pos = Len(StepsOf(op)) /\ pos' = pos /\ posted' = 0 /\ result' = "ok"
                    /\ job' = job
              \/ LET s == StepsOf(op)[pos + 1]
                 IN /\ pos + 1 \in 1 .. Len(StepsOf(op))
                    /\ \/ /\ Passes(s) \/ MayPass(s)
                          /\ pos' = pos + 1 /\ posted' = 1 /\ result' = "none" /\ job' = job
                       \/ /\ op.kind = "firmwareInstall" /\ op.skipBackup /\ s \in BackupSteps
                          /\ pos' = IF s = "SavingBackup" THEN pos + 2 ELSE pos + 1
                          /\ posted' = IF s = "SavingBackup" THEN 1 ELSE 0
                          /\ result' = IF s = "SavingBackup" THEN "none" ELSE "ok"
                          /\ job' = job
                       \/ pos' = pos + 1 /\ posted' = 0 /\ result' \in {"none", "error"}
                             /\ job' = job
                       \/ /\ pos' = pos + 1 /\ posted' = 0 /\ result' = "none"
                          /\ job' = QueuedJob(JobFor(s)) /\ JobFor(s) \in JobNames /\ ~Passes(s)
                          /\ ~(op.kind = "firmwareInstall" /\ op.skipBackup /\ s \in BackupSteps)
<1>1. /\ posted \in Nat /\ op \in Ops /\ pos \in 0 .. Len(StepsOf(op))
      /\ posted > 0 /\ result = "none"
  BY DEF Inv, TypeOK, TopTypeOK, NextStateLogic
<1>2. posted = 1 /\ aside = "none" /\ job = NoJob
  BY <1>1 DEF Inv, OneThingPending, Pending
<1>3. Len(StepsOf(op)) \in Nat
  BY <1>1, StepRows
<1>4. CASE ~(pos < Len(StepsOf(op)))
  BY <1>1, <1>2, <1>3, <1>4 DEF NextStateLogic, Becomes
<1>5. CASE pos < Len(StepsOf(op))
  <2>1. Enter(pos + 1) /\ UNCHANGED <<op, request, dev, crashed, done>>
    BY <1>5 DEF NextStateLogic
  <2>2. pos + 1 \in 1 .. Len(StepsOf(op)) /\ (pos + 1) + 1 = pos + 2
    BY <1>1, <1>3, <1>5
  <2> DEFINE s == StepsOf(op)[pos + 1]
  <2>3. JobFor(s) # "none" => JobFor(s) \in JobNames
    BY StepKinds
  <2> QED
    BY <2>1, <2>2, <2>3, <1>1, <1>2, <1>3
    DEF Enter, Becomes, Waits, Hands, AfterHanding, BackupSteps
<1> QED
  BY <1>4, <1>5, <1>1, <1>3

(* The step at p is over. *)
Past(p) == pos > p \/ (pos = p /\ (posted > 0 \/ result = "ok"))

(* The device will boot into recovery mode from the end of the step that   *)
(* sets the boot mode, and from the end of the one that resets it not.     *)
BootFollows ==
    /\ ChangesBoot(op) /\ Past(SetAt(op)) /\ pos < ResetAt(op) => dev.boot = "dfu"
    /\ ChangesBoot(op) /\ Past(ResetAt(op)) => dev.boot = "os"
    /\ ~ChangesBoot(op) /\ op.kind # "firmwareInstall" => dev.boot = "os"
Transaction == job.name \in BootJobs /\ job.at = "away" => dev.boot = BootAfter(job.name)
StackIsRadio == job.name = "downloadWirelessStack" => ChangesBoot(op)
EndsAtEnd ==
    result = "ok" => pos = Len(StepsOf(op)) \/ (op.kind = "firmwareInstall" /\ op.skipBackup)
BootInv == BootFollows /\ Transaction /\ StackIsRadio /\ EndsAtEnd

(* The operation starts with BootInv. *)
LEMMA BootInit == Init => BootInv
<1> SUFFICES ASSUME Init
             PROVE  BootInv
  OBVIOUS
<1>1. op \in Ops /\ job = NoJob /\ pos = 0 /\ posted = 1 /\ result = "none"
  BY DEF Init
<1>2. ~ChangesBoot(op) /\ op.kind # "firmwareInstall" => dev.boot = "os"
  BY DEF Init, ChangesBoot
<1>3. ChangesBoot(op) => SetAt(op) > 0 /\ ResetAt(op) > 0
  BY DEF SetAt, ResetAt
<1>4. BootFollows
  BY <1>1, <1>2, <1>3 DEF BootFollows, Past, SetAt, ResetAt
<1>5. Transaction /\ StackIsRadio /\ EndsAtEnd
  BY <1>1 DEF Transaction, StackIsRadio, EndsAtEnd, NoJob, BootJobs
<1> QED
  BY <1>4, <1>5 DEF BootInv

(* Entering the next state of the row keeps BootInv. *)
LEMMA BootEnter ==
    ASSUME Inv, BootInv, NextStateLogic
    PROVE  BootInv'
<1>1. /\ posted = 1 /\ job = NoJob /\ result = "none" /\ op \in Ops
      /\ pos \in 0 .. Len(StepsOf(op)) /\ Len(StepsOf(op)) \in Nat
      /\ op' = op /\ dev' = dev
  BY EnterShape
<1>2. CASE pos = Len(StepsOf(op)) /\ pos' = pos /\ posted' = 0 /\ result' = "ok" /\ job' = job
  <2>1. ChangesBoot(op) => Past(ResetAt(op)) /\ ~(pos < ResetAt(op))
    <3>1. ASSUME ChangesBoot(op)
          PROVE  ResetAt(op) \in Nat /\ ResetAt(op) <= Len(StepsOf(op))
      <4>1. Len(StepsOf(op)) \in 1 .. Len(StepsOf(op))
        BY <1>1, StepRows
      <4> QED
        BY <1>1, <3>1, <4>1, BootRows
    <3> QED
      BY <3>1, <1>1, <1>2 DEF Past
  <2>2. BootFollows'
    BY <2>1, <1>1, <1>2 DEF BootInv, BootFollows
  <2>3. Transaction' /\ StackIsRadio' /\ EndsAtEnd'
    BY <1>1, <1>2 DEF NoJob, Transaction, StackIsRadio, EndsAtEnd
  <2> QED
    BY <2>2, <2>3 DEF BootInv
<1>3. CASE ~(pos = Len(StepsOf(op)) /\ pos' = pos /\ posted' = 0 /\ result' = "ok" /\ job' = job)
  <2> DEFINE s == StepsOf(op)[pos + 1]
  <2>1. /\ pos + 1 \in 1 .. Len(StepsOf(op))
        /\ \/ /\ Passes(s) \/ MayPass(s)
              /\ pos' = pos + 1 /\ posted' = 1 /\ result' = "none" /\ job' = job
           \/ /\ op.kind = "firmwareInstall" /\ op.skipBackup
              /\ pos' \in {pos + 1, pos + 2} /\ job' = job
           \/ pos' = pos + 1 /\ posted' = 0 /\ result' \in {"none", "error"} /\ job' = job
           \/ /\ pos' = pos + 1 /\ posted' = 0 /\ result' = "none"
              /\ job' = QueuedJob(JobFor(s)) /\ JobFor(s) \in JobNames /\ ~Passes(s)
    BY <1>3, EnterShape
  <2>2. PICK t : t = s
    OBVIOUS
  <2> HIDE DEF s
  <2>3. job'.at # "away" /\ (job'.name = "downloadWirelessStack" =>
                               JobFor(t) = "downloadWirelessStack" /\ ~Passes(t))
    BY <2>1, <2>2, <1>1, QueuedOK DEF NoJob
  <2>4. EndsAtEnd' /\ Transaction'
    BY <2>1, <2>3, <1>1 DEF EndsAtEnd, Transaction
  <2>5. CASE ChangesBoot(op)
    <3>1. /\ SetAt(op) \in Nat \ {0} /\ ResetAt(op) \in Nat /\ SetAt(op) < ResetAt(op)
          /\ pos + 1 \in {SetAt(op), ResetAt(op)} =>
                t \in {"SettingBootMode", "SettingRecoveryBootMode", "SettingOSBootMode",
                       "CorrectingOptionBytes"}
      BY <2>1, <2>2, <2>5, <1>1, BootRows DEF s
    <3>2. op.kind # "firmwareInstall"
      BY <2>5 DEF ChangesBoot
    <3>3. pos + 1 \in {SetAt(op), ResetAt(op)} => ~Passes(t) /\ ~MayPass(t)
      BY <3>1 DEF Passes, MayPass
    <3>4. /\ pos' = pos + 1 /\ result' # "ok"
          /\ pos + 1 \in {SetAt(op), ResetAt(op)} => posted' = 0
      BY <2>1, <2>2, <3>2, <3>3, <1>1
    <3>5. Past(SetAt(op))' => Past(SetAt(op))
      BY <3>1, <3>4, <1>1 DEF Past
    <3>6. Past(ResetAt(op))' => Past(ResetAt(op))
      BY <3>1, <3>4, <1>1 DEF Past
    <3>7. (pos < ResetAt(op))' => pos < ResetAt(op)
      BY <3>1, <3>4, <1>1
    <3>8. BootFollows'
      BY <3>5, <3>6, <3>7, <2>5, <1>1 DEF BootInv, BootFollows
    <3>9. StackIsRadio'
      BY <2>5, <1>1 DEF StackIsRadio
    <3> QED
      BY <2>4, <3>8, <3>9 DEF BootInv
  <2>6. CASE ~ChangesBoot(op)
    <3>1. JobFor(t) = "downloadWirelessStack" =>
             op.kind = "legacyUpdate" /\ ~op.radio /\ t = "DownloadingRadioFirmware"
      BY <2>1, <2>2, <2>6, <1>1, OtherRows DEF s
    <3>2. job'.name # "downloadWirelessStack"
      BY <2>3, <3>1 DEF Passes
    <3>3. BootFollows' /\ StackIsRadio'
      BY <3>2, <2>6, <1>1 DEF BootInv, BootFollows, StackIsRadio
    <3> QED
      BY <2>4, <3>3 DEF BootInv
  <2> QED
    BY <2>5, <2>6
<1> QED
  BY <1>2, <1>3

(* A job that has not started does not wait for the device. *)
LEMMA QueuedStarts ==
    ASSUME JobTypeOK, job.at = "queued", JobStep("none")
    PROVE  job'.at # "away"
<1>1. CASE StartJob("none")
  BY <1>1, JobFields DEF StartJob, GoesOn
<1>2. CASE OnAnswer("none")
  <2>1. PICK t, n : job' = [job EXCEPT !.timer = t, !.next = n]
    BY <1>2 DEF OnAnswer, GoesOn, Ends
  <2>2. job' = [name |-> job.name, at |-> job.at, timer |-> t, next |-> n]
    BY <2>1, JobFields
  <2> QED
    BY <2>2
<1>3. CASE OnOperationTimeout("none")
  <2>1. job' = [job EXCEPT !.timer = FALSE, !.next = job.next + 1]
    BY <1>3 DEF OnOperationTimeout, GoesOn, Ends
  <2>2. job' = [name |-> job.name, at |-> job.at, timer |-> FALSE, next |-> job.next + 1]
    BY <2>1, JobFields
  <2> QED
    BY <2>2
<1> QED
  BY <1>1, <1>2, <1>3 DEF JobStep, FirstStep, LaterStep, TransferEnds, TalksOn

(* A step of the job an operation waits for keeps BootInv. *)
LEMMA BootJobStep ==
    ASSUME Inv, BootInv, SubOperationStep
    PROVE  BootInv'
<1>1. PICK r \in {"none", "ok", "failed"} :
        /\ JobStep(r)
        /\ IF r = "none"
           THEN UNCHANGED <<pos, posted, result, done>>
           ELSE /\ OnSubOperation(r)
                /\ done' = IF r = "ok" THEN done \cup {job.name} ELSE done
        /\ UNCHANGED <<op, aside>>
  BY DEF SubOperationStep
<1>2. JobTypeOK /\ JobStages
  BY DEF Inv, TypeOK
<1>3. job # NoJob
  BY <1>1, <1>2, JobGoesOn, JobIsOver
<1>4. /\ posted = 0 /\ aside = "none" /\ result = "none" /\ op' = op
      /\ op \in Ops /\ pos \in 1 .. Len(StepsOf(op)) /\ Step = StepsOf(op)[pos]
      /\ job.name = JobFor(Step) /\ Len(StepsOf(op)) \in Nat
  BY <1>1, <1>3, JobPending
<1>5. ChangesBoot(op) =>
        /\ SetAt(op) \in Nat \ {0} /\ ResetAt(op) \in Nat /\ SetAt(op) < ResetAt(op)
        /\ job.name = "setRecoveryBootMode" <=> pos = SetAt(op)
        /\ job.name \in Resetters <=> pos = ResetAt(op)
        /\ pos \in {SetAt(op), ResetAt(op)} => ~Tolerates
  <2>1. ASSUME ChangesBoot(op)
        PROVE  /\ SetAt(op) \in Nat \ {0} /\ ResetAt(op) \in Nat /\ SetAt(op) < ResetAt(op)
               /\ job.name = "setRecoveryBootMode" <=> pos = SetAt(op)
               /\ job.name \in Resetters <=> pos = ResetAt(op)
               /\ pos \in {SetAt(op), ResetAt(op)} =>
                    Step \in {"SettingBootMode", "SettingRecoveryBootMode", "SettingOSBootMode",
                              "CorrectingOptionBytes"}
    BY <2>1, <1>4, BootRows
  <2> QED
    BY <2>1 DEF Tolerates
<1>6. ~ChangesBoot(op) => job.name \notin Resetters \cup {"setRecoveryBootMode"}
  BY <1>4, OtherRows
<1>7. CASE r = "none"
  <2>1. job'.name = job.name /\ BootStep
    BY <1>1, <1>2, <1>7, JobGoesOn
  <2>2. pos' = pos /\ posted' = posted /\ result' = result
    BY <1>1, <1>7
  <2>3. job.name \in {"setRecoveryBootMode"} \cup Resetters \/ dev'.boot = dev.boot
    BY <2>1 DEF BootStep, BootJobs, BootAfter, Resetters
  <2>4. BootFollows'
    <3>1. CASE ChangesBoot(op)
      <4>1. pos = SetAt(op) => ~Past(SetAt(op))'
        BY <2>2, <1>4, <1>5, <3>1 DEF Past
      <4>2. pos = ResetAt(op) => ~Past(ResetAt(op))' /\ ~(pos' < ResetAt(op))
        BY <2>2, <1>4, <1>5, <3>1 DEF Past
      <4>3. /\ Past(SetAt(op))' <=> Past(SetAt(op))
            /\ Past(ResetAt(op))' <=> Past(ResetAt(op))
        BY <2>2, <1>4 DEF Past
      <4>4. pos # SetAt(op) /\ pos # ResetAt(op) => dev'.boot = dev.boot
        BY <2>3, <1>5, <3>1
      <4>5. pos = SetAt(op) => ~Past(ResetAt(op))'
        BY <2>2, <1>4, <1>5, <3>1 DEF Past
      <4> QED
        BY <4>1, <4>2, <4>3, <4>4, <4>5, <2>2, <1>4, <3>1 DEF BootInv, BootFollows
    <3>2. CASE ~ChangesBoot(op)
      BY <2>3, <1>4, <1>6, <3>2 DEF BootInv, BootFollows
    <3> QED
      BY <3>1, <3>2
  <2>5. Transaction'
    <3>1. ASSUME job.name \in BootJobs, job'.at = "away"
          PROVE  dev'.boot = BootAfter(job.name)'
      <4>1. CASE job.at = "ready"
        BY <3>1, <4>1, <2>1 DEF BootStep, BootAfter, BootJobs
      <4>2. CASE job.at # "ready"
        <5>1. job.at = "away" /\ dev'.boot = dev.boot
          <6>1. dev'.boot = dev.boot
            BY <2>1, <4>2 DEF BootStep
          <6>2. job.at \in {"queued", "away"}
            BY <3>1, <4>2, <1>2 DEF JobStages
          <6>3. job.at # "queued"
            BY <1>1, <1>2, <1>7, <3>1, QueuedStarts
          <6> QED
            BY <6>1, <6>2, <6>3
        <5> QED
          BY <5>1, <3>1, <2>1 DEF BootInv, Transaction, BootAfter
      <4> QED
        BY <4>1, <4>2
    <3> QED
      BY <3>1, <2>1 DEF Transaction, BootAfter
  <2>6. StackIsRadio' /\ EndsAtEnd'
    BY <2>1, <2>2, <1>4 DEF BootInv, StackIsRadio, EndsAtEnd
  <2> QED
    BY <2>4, <2>5, <2>6 DEF BootInv
<1>8. CASE r # "none"
  <2>1. /\ job' = NoJob /\ dev'.boot = dev.boot
        /\ r = "ok" /\ job.name \in BootJobs => job.at = "away"
    BY <1>1, <1>2, <1>8, JobIsOver
  <2>2. /\ result' \in {"none", "error"} /\ posted' \in {0, 1} /\ pos' \in {pos, pos + 1}
        /\ posted' = 0 => pos' = pos
        /\ posted' = 1 => r = "ok" \/ Tolerates
        /\ pos' = pos + 1 => r = "ok" /\ SkipsOne
    BY <1>1, <1>4, <1>8 DEF OnSubOperation, Becomes
  <2>3. BootFollows'
    <3>1. CASE ChangesBoot(op)
      <4>1. pos' = pos
        <5>1. Step \notin {"PreparingRemoteUpdate", "VerifyingExistingFiles"}
          BY <3>1, <1>4, BootRows
        <5> QED
          BY <2>2, <5>1 DEF SkipsOne
      <4>2. pos = SetAt(op) /\ posted' = 1 => dev.boot = "dfu"
        BY <2>1, <2>2, <1>5, <3>1 DEF BootInv, Transaction, BootAfter, BootJobs
      <4>3. pos = ResetAt(op) /\ posted' = 1 => dev.boot = "os"
        BY <2>1, <2>2, <1>5, <3>1 DEF BootInv, Transaction, BootAfter, BootJobs, Resetters
      <4>4. Past(SetAt(op))' => Past(SetAt(op)) \/ (pos = SetAt(op) /\ posted' = 1)
        BY <2>2, <4>1, <1>4, <1>5, <3>1 DEF Past
      <4>5. Past(ResetAt(op))' => Past(ResetAt(op)) \/ (pos = ResetAt(op) /\ posted' = 1)
        BY <2>2, <4>1, <1>4, <1>5, <3>1 DEF Past
      <4> QED
        BY <2>1, <4>1, <4>2, <4>3, <4>4, <4>5, <1>4, <3>1 DEF BootInv, BootFollows
    <3>2. CASE ~ChangesBoot(op)
      BY <2>1, <1>4, <3>2 DEF BootInv, BootFollows
    <3> QED
      BY <3>1, <3>2
  <2>4. Transaction' /\ StackIsRadio' /\ EndsAtEnd'
    BY <2>1, <2>2 DEF Transaction, StackIsRadio, EndsAtEnd, NoJob
  <2> QED
    BY <2>3, <2>4 DEF BootInv
<1> QED
  BY <1>7, <1>8

(* BootInv is inductive, given Inv. *)
LEMMA BootNext == Inv /\ BootInv /\ [Next]_vars => BootInv'
<1> SUFFICES ASSUME Inv, BootInv, [Next]_vars
             PROVE  BootInv'
  OBVIOUS
<1>1. CASE NextStateLogic
  BY <1>1, BootEnter
<1>2. ASSUME NEW failed \in BOOLEAN, AsideEnds(failed)
      PROVE  BootInv'
  <2>1. /\ posted \in Nat /\ aside # "none" /\ result = "none" /\ op \in Ops
        /\ pos \in 0 .. Len(StepsOf(op))
    BY <1>2 DEF Inv, TypeOK, TopTypeOK, AsideEnds
  <2>2. job = NoJob /\ posted = 0
    BY <2>1 DEF Inv, OneThingPending, Pending
  <2>3. /\ UNCHANGED <<op, dev, pos, job>> /\ result' \in {"none", "error"}
    BY <1>2, <2>1 DEF AsideEnds, Becomes, jobVars
  <2>4. pos > 0 /\ Step = StepsOf(op)[pos] /\ AsideOf(Step) # "none"
    BY <2>1, <2>2 DEF Inv, JobOfStep, Step
  <2>5. ChangesBoot(op) => pos # SetAt(op) /\ pos # ResetAt(op)
    <3>1. ASSUME ChangesBoot(op), pos \in {SetAt(op), ResetAt(op)}
          PROVE  Step \in {"SettingBootMode", "SettingRecoveryBootMode", "SettingOSBootMode",
                           "CorrectingOptionBytes"}
      <4>1. pos \in 1 .. Len(StepsOf(op))
        BY <2>1, <2>4, StepRows
      <4> QED
        BY <4>1, <3>1, <2>1, <2>4, BootRows
    <3> QED
      BY <3>1, <2>4 DEF AsideOf
  <2>6. BootFollows'
    BY <2>1, <2>2, <2>3, <2>5 DEF BootInv, BootFollows, Past
  <2>7. Transaction' /\ StackIsRadio' /\ EndsAtEnd'
    BY <2>2, <2>3 DEF Transaction, StackIsRadio, EndsAtEnd, NoJob
  <2> QED
    BY <2>6, <2>7 DEF BootInv
<1>3. CASE SubOperationStep
  BY <1>3, BootJobStep
<1>4. CASE Environment
  <2>1. /\ JobTypeOK /\ JobStages /\ (Leave \/ Return \/ SessionStops \/ RequestDropped)
        /\ UNCHANGED <<op, pos, posted, aside, result, done>>
    BY <1>4 DEF Inv, TypeOK, Environment, topVars
  <2>2. job'.name = job.name /\ job'.at = job.at /\ dev'.boot = dev.boot
    BY <2>1, DeviceMoves
  <2> QED
    BY <2>1, <2>2 DEF BootInv, BootFollows, Transaction, BootAfter, StackIsRadio, EndsAtEnd, Past
<1>5. CASE UNCHANGED vars
  BY <1>5 DEF BootInv, BootFollows, Transaction, BootAfter, StackIsRadio, EndsAtEnd, Past,
              vars, jobVars, topVars
<1> QED
  BY <1>1, <1>2, <1>3, <1>4, <1>5 DEF Next, Program

(* The upgrade service of the radio is only started when the option bytes  *)
(* make the device come back in recovery mode: whatever failed before, and *)
(* whenever the device comes and goes.                                     *)
THEOREM StackBootsIntoRecovery == Spec => []StackOnRecoveryBoot
<1>1. Inv /\ BootInv => StackOnRecoveryBoot
  <2> SUFFICES ASSUME Inv, BootInv, job.name = "downloadWirelessStack"
               PROVE  dev.boot = "dfu"
    BY DEF StackOnRecoveryBoot
  <2>1. job # NoJob /\ ChangesBoot(op)
    BY DEF NoJob, BootInv, StackIsRadio
  <2>2. /\ op \in Ops /\ pos \in 1 .. Len(StepsOf(op)) /\ Step = StepsOf(op)[pos]
        /\ JobFor(Step) = "downloadWirelessStack"
    BY <2>1, JobPending
  <2>3. pos > SetAt(op) /\ pos < ResetAt(op)
    BY <2>1, <2>2, BootRows
  <2> QED
    BY <2>1, <2>3 DEF BootInv, BootFollows, Past
<1> QED
  BY InitOK, NextOK, BootInit, BootNext, <1>1, PTL DEF Spec

(* An operation that reports success leaves a device that boots its        *)
(* firmware, on every path through the row, for every kind but the         *)
(* installation of a firmware file, which never touches the option bytes.  *)
THEOREM SuccessBootsFirmware == Spec => []SuccessLeavesOSBoot
<1>1. Inv /\ BootInv => SuccessLeavesOSBoot
  <2> SUFFICES ASSUME Inv, BootInv, result = "ok", op.kind # "firmwareInstall"
               PROVE  dev.boot = "os"
    BY DEF SuccessLeavesOSBoot
  <2>1. op \in Ops /\ pos = Len(StepsOf(op)) /\ pos \in 0 .. Len(StepsOf(op))
    BY DEF Inv, TypeOK, TopTypeOK, BootInv, EndsAtEnd
  <2>2. CASE ChangesBoot(op)
    <3>1. pos \in 1 .. Len(StepsOf(op))
      BY <2>1, StepRows
    <3>2. ResetAt(op) <= pos /\ ResetAt(op) \in Nat /\ pos \in Nat
      BY <2>1, <2>2, <3>1, BootRows
    <3>3. Past(ResetAt(op))
      BY <3>2 DEF Past
    <3> QED
      BY <2>2, <3>3 DEF BootInv, BootFollows
  <2>3. CASE ~ChangesBoot(op)
    BY <2>3 DEF BootInv, BootFollows
  <2> QED
    BY <2>2, <2>3
<1> QED
  BY InitOK, NextOK, BootInit, BootNext, <1>1, PTL DEF Spec

(* The option bytes are right where a reboot would tell, in every kind of   *)
(* operation.                                                               *)
THEOREM BootRight == Spec => []BootIsRight
BY StackBootsIntoRecovery, SuccessBootsFirmware, PTL DEF BootIsRight

-----------------------------------------------------------------------------
(* The settings: where in its row an operation saves and restores them *)

SaveAt(o) == IF o.kind = "legacyUpdate" THEN 2 ELSE 1
RestoreAt(o) == IF o.kind = "firmwareInstall" THEN 5 ELSE IF o.radio THEN 10 ELSE 9
FlashAt(o) == IF o.kind = "firmwareInstall" THEN 3 ELSE IF o.radio THEN 6 ELSE 5

(* They are saved and restored once, and the flash comes after the first.  *)
LEMMA SettingsRows ==
    ASSUME NEW o \in Ops, o.kind \in {"legacyUpdate", "firmwareInstall"},
           NEW p \in 1 .. Len(StepsOf(o)), NEW s, s = StepsOf(o)[p]
    PROVE  /\ SaveAt(o) \in Nat \ {0} /\ RestoreAt(o) \in Nat /\ FlashAt(o) \in Nat
           /\ SaveAt(o) < FlashAt(o) /\ FlashAt(o) < RestoreAt(o)
           /\ RestoreAt(o) < Len(StepsOf(o))
           /\ s = "SavingBackup" <=> p = SaveAt(o)
           /\ s = "RestoringBackup" <=> p = RestoreAt(o)
           /\ JobFor(s) = "backupInternalStorage" <=> p = SaveAt(o)
           /\ JobFor(s) = "restoreInternalStorage" <=> p = RestoreAt(o)
           /\ JobFor(s) = "downloadFirmware" <=> p = FlashAt(o)
           /\ s \notin {"PreparingRemoteUpdate", "VerifyingExistingFiles", "ProvisioninigRegion",
                        "PreparingLocalUpdate", "ReadingUpdateFiles"}
<1>1. CASE o.kind = "legacyUpdate" /\ o.radio
  <2>1. p \in 1 .. 11 /\ Len(StepsOf(o)) = 11
    BY <1>1 DEF StepsOf, LegacyUpdateSteps
  <2>2. /\ p = 1 => s = "FetchingFirmware"
        /\ p = 2 => s = "SavingBackup"
        /\ p = 3 => s = "StartingRecovery"
        /\ p = 4 => s = "SettingBootMode"
        /\ p = 5 => s = "DownloadingRadioFirmware"
        /\ p = 6 => s = "DownloadingFirmware"
        /\ p = 7 => s = "CorrectingOptionBytes"
        /\ p = 8 => s = "DownloadingAssets"
        /\ p = 9 => s = "ProvisioningRegion"
        /\ p = 10 => s = "RestoringBackup"
        /\ p = 11 => s = "RestartingDevice"
    BY <1>1 DEF StepsOf, LegacyUpdateSteps
  <2>3. /\ p = 1 => JobFor(s) = "none"
        /\ p = 2 => JobFor(s) = "backupInternalStorage"
        /\ p = 3 => JobFor(s) = "startRecoveryMode"
        /\ p = 4 => JobFor(s) = "setRecoveryBootMode"
        /\ p = 5 => JobFor(s) = "downloadWirelessStack"
        /\ p = 6 => JobFor(s) = "downloadFirmware"
        /\ p = 7 => JobFor(s) = "fixOptionBytes"
        /\ p = 8 => JobFor(s) = "downloadAssets"
        /\ p = 9 => JobFor(s) = "provisionRegionData"
        /\ p = 10 => JobFor(s) = "restoreInternalStorage"
        /\ p = 11 => JobFor(s) = "restartDevice"
    BY <2>2 DEF JobFor
  <2> QED
    BY <1>1, <2>1, <2>2, <2>3 DEF SaveAt, RestoreAt, FlashAt
<1>2. CASE o.kind = "legacyUpdate" /\ ~o.radio
  <2>1. p \in 1 .. 10 /\ Len(StepsOf(o)) = 10
    BY <1>2 DEF StepsOf, LegacyUpdateSteps
  <2>2. /\ p = 1 => s = "FetchingFirmware"
        /\ p = 2 => s = "SavingBackup"
        /\ p = 3 => s = "StartingRecovery"
        /\ p = 4 => s = "DownloadingRadioFirmware"
        /\ p = 5 => s = "DownloadingFirmware"
        /\ p = 6 => s = "ExitingRecovery"
        /\ p = 7 => s = "DownloadingAssets"
        /\ p = 8 => s = "ProvisioningRegion"
        /\ p = 9 => s = "RestoringBackup"
        /\ p = 10 => s = "RestartingDevice"
    BY <1>2 DEF StepsOf, LegacyUpdateSteps
  <2>3. /\ p = 1 => JobFor(s) = "none"
        /\ p = 2 => JobFor(s) = "backupInternalStorage"
        /\ p = 3 => JobFor(s) = "startRecoveryMode"
        /\ p = 4 => JobFor(s) = "downloadWirelessStack"
        /\ p = 5 => JobFor(s) = "downloadFirmware"
        /\ p = 6 => JobFor(s) = "exitRecoveryMode"
        /\ p = 7 => JobFor(s) = "downloadAssets"
        /\ p = 8 => JobFor(s) = "provisionRegionData"
        /\ p = 9 => JobFor(s) = "restoreInternalStorage"
        /\ p = 10 => JobFor(s) = "restartDevice"
    BY <2>2 DEF JobFor
  <2> QED
    BY <1>2, <2>1, <2>2, <2>3 DEF SaveAt, RestoreAt, FlashAt
<1>3. CASE o.kind = "firmwareInstall"
  <2>1. p \in 1 .. 6 /\ Len(StepsOf(o)) = 6
    BY <1>3 DEF StepsOf, FirmwareInstallSteps
  <2>2. /\ p = 1 => s = "SavingBackup"
        /\ p = 2 => s = "StartingRecovery"
        /\ p = 3 => s = "InstallingFirmware"
        /\ p = 4 => s = "ExitingRecovery"
        /\ p = 5 => s = "RestoringBackup"
        /\ p = 6 => s = "RestartingDevice"
    BY <1>3 DEF StepsOf, FirmwareInstallSteps
  <2>3. /\ p = 1 => JobFor(s) = "backupInternalStorage"
        /\ p = 2 => JobFor(s) = "startRecoveryMode"
        /\ p = 3 => JobFor(s) = "downloadFirmware"
        /\ p = 4 => JobFor(s) = "exitRecoveryMode"
        /\ p = 5 => JobFor(s) = "restoreInternalStorage"
        /\ p = 6 => JobFor(s) = "restartDevice"
    BY <2>2 DEF JobFor
  <2> QED
    BY <1>3, <2>1, <2>2, <2>3 DEF SaveAt, RestoreAt, FlashAt
<1> QED
  BY <1>1, <1>2, <1>3

(* What has been handed to the device has been saved from it before, and   *)
(* what is skipped is skipped altogether.                                  *)
BackupJobs == {"backupInternalStorage", "restoreInternalStorage"}
SettingsInv ==
    KeepsSettings =>
        /\ ~op.skipBackup /\ Past(SaveAt(op)) => "backupInternalStorage" \in done
        /\ ~op.skipBackup /\ Past(RestoreAt(op)) => "restoreInternalStorage" \in done
        /\ Flashed => pos >= FlashAt(op)
        /\ op.skipBackup => job.name \notin BackupJobs /\ done \cap BackupJobs = {}

(* The operation starts with SettingsInv. *)
LEMMA SettingsInit == Init => SettingsInv
<1> SUFFICES ASSUME Init, KeepsSettings
             PROVE  SettingsInv
  BY DEF SettingsInv
<1>1. op \in Ops /\ job = NoJob /\ pos = 0 /\ done = {}
  BY DEF Init
<1>2. 1 \in 1 .. Len(StepsOf(op))
  BY <1>1, StepRows
<1>3. SaveAt(op) > 0 /\ RestoreAt(op) > 0
  BY DEF SaveAt, RestoreAt
<1> QED
  BY <1>1, <1>3 DEF SettingsInv, Past, Flashed, NoJob, BackupJobs, SaveAt, RestoreAt

(* Entering the next state of the row keeps SettingsInv. *)
LEMMA SettingsEnter ==
    ASSUME Inv, BootInv, SettingsInv, NextStateLogic
    PROVE  SettingsInv'
<1> SUFFICES ASSUME KeepsSettings
             PROVE  SettingsInv'
  BY EnterShape DEF SettingsInv, KeepsSettings
<1> DEFINE s == StepsOf(op)[pos + 1]
<1>1. /\ posted = 1 /\ job = NoJob /\ result = "none" /\ op \in Ops
      /\ pos \in 0 .. Len(StepsOf(op)) /\ Len(StepsOf(op)) \in Nat
      /\ op' = op /\ done' = done
      /\ op.kind \in {"legacyUpdate", "firmwareInstall"}
  BY EnterShape DEF KeepsSettings
<1>2. /\ SaveAt(op) \in Nat \ {0} /\ RestoreAt(op) \in Nat /\ FlashAt(op) \in Nat
      /\ SaveAt(op) < FlashAt(op) /\ FlashAt(op) < RestoreAt(op)
      /\ RestoreAt(op) < Len(StepsOf(op))
  <2>1. 1 \in 1 .. Len(StepsOf(op))
    BY <1>1, StepRows
  <2> QED
    BY <1>1, <2>1, SettingsRows
<1>3. CASE pos = Len(StepsOf(op)) /\ pos' = pos /\ posted' = 0 /\ result' = "ok" /\ job' = job
  <2>1. Past(SaveAt(op)) /\ Past(RestoreAt(op)) /\ pos >= FlashAt(op)
    BY <1>1, <1>2, <1>3 DEF Past
  <2> QED
    BY <2>1, <1>1, <1>3 DEF SettingsInv, Flashed
<1>4. CASE ~(pos = Len(StepsOf(op)) /\ pos' = pos /\ posted' = 0 /\ result' = "ok" /\ job' = job)
  <2>1. /\ pos + 1 \in 1 .. Len(StepsOf(op))
        /\ \/ /\ Passes(s) \/ MayPass(s)
              /\ pos' = pos + 1 /\ posted' = 1 /\ result' = "none" /\ job' = job
           \/ /\ op.skipBackup /\ pos' \in {pos + 1, pos + 2} /\ job' = job
           \/ pos' = pos + 1 /\ posted' = 0 /\ result' \in {"none", "error"} /\ job' = job
           \/ /\ pos' = pos + 1 /\ posted' = 0 /\ result' = "none"
              /\ job' = QueuedJob(JobFor(s)) /\ JobFor(s) \in JobNames /\ ~Passes(s)
              /\ ~(op.kind = "firmwareInstall" /\ op.skipBackup /\ s \in BackupSteps)
    BY <1>4, EnterShape
  <2>2. PICK t : t = s
    OBVIOUS
  <2>3. /\ t = "SavingBackup" <=> pos + 1 = SaveAt(op)
        /\ t = "RestoringBackup" <=> pos + 1 = RestoreAt(op)
        /\ JobFor(t) = "backupInternalStorage" <=> pos + 1 = SaveAt(op)
        /\ JobFor(t) = "restoreInternalStorage" <=> pos + 1 = RestoreAt(op)
        /\ JobFor(t) = "downloadFirmware" <=> pos + 1 = FlashAt(op)
        /\ t \notin {"PreparingLocalUpdate", "ReadingUpdateFiles"}
    BY <2>1, <2>2, <1>1, SettingsRows DEF s
  <2> HIDE DEF s
  <2>4. pos' > pos /\ pos' \in Nat
    BY <2>1, <1>1
  <2>5. \/ job' = job
        \/ job' = QueuedJob(JobFor(t)) /\ job'.name = JobFor(t) /\ pos' = pos + 1 /\ ~Passes(t)
              /\ ~(op.kind = "firmwareInstall" /\ op.skipBackup /\ t \in BackupSteps)
    BY <2>1, <2>2, QueuedOK
  <2>6. (Flashed => pos >= FlashAt(op))'
    <3>1. Flashed' => Flashed \/ pos' = FlashAt(op)
      BY <2>3, <2>5, <1>1 DEF Flashed
    <3>2. Flashed => pos >= FlashAt(op)
      BY DEF SettingsInv
    <3> QED
      BY <3>1, <3>2, <2>4, <1>1, <1>2
  <2>7. CASE op.skipBackup
    <3>1. t \in BackupSteps => job' = job
      BY <2>5, <1>1, <2>7 DEF Passes, BackupSteps
    <3>2. job'.name \notin BackupJobs
      <4>1. job.name \notin BackupJobs
        BY <1>1 DEF NoJob, BackupJobs
      <4>2. JobFor(t) \in BackupJobs => t \in BackupSteps
        BY <2>3 DEF BackupJobs, BackupSteps
      <4> QED
        BY <2>5, <3>1, <4>1, <4>2
    <3> QED
      BY <3>2, <2>6, <2>7, <1>1 DEF SettingsInv
  <2>8. CASE ~op.skipBackup
    <3>1. pos' = pos + 1 /\ result' # "ok" /\ (t \in BackupSteps => posted' = 0)
      <4>1. t \in BackupSteps => ~Passes(t) /\ ~MayPass(t)
        BY <2>8 DEF Passes, MayPass, BackupSteps
      <4> QED
        BY <2>1, <2>2, <2>8, <4>1, <1>1
    <3>2. Past(SaveAt(op))' => Past(SaveAt(op))
      BY <3>1, <2>3, <1>1, <1>2 DEF Past, BackupSteps
    <3>3. Past(RestoreAt(op))' => Past(RestoreAt(op))
      BY <3>1, <2>3, <1>1, <1>2 DEF Past, BackupSteps
    <3> QED
      BY <3>2, <3>3, <2>6, <2>8, <1>1 DEF SettingsInv
  <2> QED
    BY <2>7, <2>8
<1> QED
  BY <1>3, <1>4

(* A step of the job an operation waits for keeps SettingsInv. *)
LEMMA SettingsJobStep ==
    ASSUME Inv, BootInv, SettingsInv, SubOperationStep
    PROVE  SettingsInv'
<1> SUFFICES ASSUME KeepsSettings
             PROVE  SettingsInv'
  BY DEF SettingsInv, KeepsSettings, SubOperationStep
<1>1. PICK r \in {"none", "ok", "failed"} :
        /\ JobStep(r)
        /\ IF r = "none"
           THEN UNCHANGED <<pos, posted, result, done>>
           ELSE /\ OnSubOperation(r)
                /\ done' = IF r = "ok" THEN done \cup {job.name} ELSE done
        /\ UNCHANGED <<op, aside>>
  BY DEF SubOperationStep
<1>2. JobTypeOK /\ JobStages
  BY DEF Inv, TypeOK
<1>3. job # NoJob
  BY <1>1, <1>2, JobGoesOn, JobIsOver
<1>4. /\ posted = 0 /\ aside = "none" /\ result = "none" /\ op' = op
      /\ op \in Ops /\ pos \in 1 .. Len(StepsOf(op)) /\ Step = StepsOf(op)[pos]
      /\ job.name = JobFor(Step) /\ op.kind \in {"legacyUpdate", "firmwareInstall"}
  BY <1>1, <1>3, JobPending DEF KeepsSettings
<1>5. /\ SaveAt(op) \in Nat \ {0} /\ RestoreAt(op) \in Nat /\ FlashAt(op) \in Nat
      /\ SaveAt(op) < FlashAt(op) /\ FlashAt(op) < RestoreAt(op)
      /\ job.name = "backupInternalStorage" <=> pos = SaveAt(op)
      /\ job.name = "restoreInternalStorage" <=> pos = RestoreAt(op)
      /\ Step = "SavingBackup" <=> pos = SaveAt(op)
      /\ Step = "RestoringBackup" <=> pos = RestoreAt(op)
      /\ Step \notin {"PreparingRemoteUpdate", "VerifyingExistingFiles", "ProvisioninigRegion"}
  BY <1>4, SettingsRows
<1>6. CASE r = "none"
  <2>1. job'.name = job.name
    BY <1>1, <1>2, <1>6, JobGoesOn
  <2>2. pos' = pos /\ posted' = posted /\ result' = result /\ done' = done
    BY <1>1, <1>6
  <2> QED
    BY <2>1, <2>2, <1>4 DEF SettingsInv, Past, Flashed
<1>7. CASE r # "none"
  <2>1. job' = NoJob
    BY <1>1, <1>2, <1>7, JobIsOver
  <2>2. /\ result' # "ok" /\ posted' \in {0, 1} /\ pos' = pos
        /\ posted' = 1 => r = "ok" \/ Step = "DownloadingRadioFirmware"
    BY <1>1, <1>4, <1>5, <1>7 DEF OnSubOperation, Becomes, SkipsOne, Tolerates
  <2>3. done' \subseteq done \cup {job.name} /\ done \subseteq done' /\ (r = "ok" => job.name \in done')
    BY <1>1, <1>7
  <2>4. Flashed' => Flashed
    BY <2>1, <2>3 DEF Flashed, NoJob
  <2>5. Past(SaveAt(op))' => Past(SaveAt(op)) \/ (pos = SaveAt(op) /\ r = "ok")
    <3>1. Step = "DownloadingRadioFirmware" => pos # SaveAt(op)
      BY <1>5
    <3> QED
      BY <2>2, <3>1, <1>4, <1>5 DEF Past
  <2>6. Past(RestoreAt(op))' => Past(RestoreAt(op)) \/ (pos = RestoreAt(op) /\ r = "ok")
    <3>1. Step = "DownloadingRadioFirmware" => pos # RestoreAt(op)
      BY <1>5
    <3> QED
      BY <2>2, <3>1, <1>4, <1>5 DEF Past
  <2>7. op.skipBackup => job'.name \notin BackupJobs /\ done' \cap BackupJobs = {}
    BY <2>1, <2>3 DEF SettingsInv, NoJob, BackupJobs
  <2> QED
    BY <2>2, <2>3, <2>4, <2>5, <2>6, <2>7, <1>4, <1>5 DEF SettingsInv
<1> QED
  BY <1>6, <1>7

(* SettingsInv is inductive, given Inv and BootInv. *)
LEMMA SettingsNext == Inv /\ BootInv /\ SettingsInv /\ [Next]_vars => SettingsInv'
<1> SUFFICES ASSUME Inv, BootInv, SettingsInv, [Next]_vars
             PROVE  SettingsInv'
  OBVIOUS
<1>1. CASE NextStateLogic
  BY <1>1, SettingsEnter
<1>2. ASSUME NEW failed \in BOOLEAN, AsideEnds(failed)
      PROVE  SettingsInv'
  <2>1. /\ posted \in Nat /\ aside # "none" /\ result = "none" /\ op \in Ops
        /\ pos \in 0 .. Len(StepsOf(op))
    BY <1>2 DEF Inv, TypeOK, TopTypeOK, AsideEnds
  <2>2. posted = 0
    BY <2>1 DEF Inv, OneThingPending, Pending
  <2>3. UNCHANGED <<op, pos, job, done>> /\ result' \in {"none", "error"}
    BY <1>2, <2>1 DEF AsideEnds, Becomes, jobVars
  <2>4. pos > 0 /\ Step = StepsOf(op)[pos] /\ AsideOf(Step) # "none"
    BY <2>1, <2>2 DEF Inv, JobOfStep, Step
  <2>5. KeepsSettings => pos # SaveAt(op) /\ pos # RestoreAt(op)
    <3>1. ASSUME KeepsSettings, pos \in {SaveAt(op), RestoreAt(op)}
          PROVE  Step \in BackupSteps
      <4>1. pos \in 1 .. Len(StepsOf(op)) /\ op.kind \in {"legacyUpdate", "firmwareInstall"}
        BY <3>1, <2>1, <2>4, StepRows DEF KeepsSettings
      <4> QED
        BY <4>1, <3>1, <2>1, <2>4, SettingsRows DEF BackupSteps
    <3> QED
      BY <3>1, <2>4 DEF AsideOf, BackupSteps
  <2> QED
    BY <2>1, <2>2, <2>3, <2>5 DEF SettingsInv, KeepsSettings, Past, Flashed
<1>3. CASE SubOperationStep
  BY <1>3, SettingsJobStep
<1>4. CASE Environment
  <2>1. /\ JobTypeOK /\ JobStages /\ (Leave \/ Return \/ SessionStops \/ RequestDropped)
        /\ UNCHANGED <<op, pos, posted, aside, result, done>>
    BY <1>4 DEF Inv, TypeOK, Environment, topVars
  <2>2. job'.name = job.name
    BY <2>1, DeviceMoves
  <2> QED
    BY <2>1, <2>2 DEF SettingsInv, KeepsSettings, Past, Flashed
<1>5. CASE UNCHANGED vars
  BY <1>5 DEF SettingsInv, KeepsSettings, Past, Flashed, vars, jobVars, topVars
<1> QED
  BY <1>1, <1>2, <1>3, <1>4, <1>5 DEF Next, Program

(* No firmware is flashed over settings that have not been saved, success  *)
(* is not reported before they are restored, and with the backup skipped   *)
(* neither is attempted.                                                   *)
THEOREM SettingsAreKept == Spec => []SettingsSurvive
<1>1. Inv /\ BootInv /\ SettingsInv => SettingsSurvive
  <2> SUFFICES ASSUME Inv, BootInv, SettingsInv, KeepsSettings
               PROVE  /\ Flashed /\ ~op.skipBackup => "backupInternalStorage" \in done
                      /\ result = "ok" /\ ~op.skipBackup => "restoreInternalStorage" \in done
                      /\ op.skipBackup => BackupJobs \cap done = {}
    BY DEF SettingsSurvive, BackupJobs
  <2>1. /\ op \in Ops /\ op.kind \in {"legacyUpdate", "firmwareInstall"}
        /\ pos \in 0 .. Len(StepsOf(op)) /\ Len(StepsOf(op)) \in Nat \ {0}
    BY StepRows DEF Inv, TypeOK, TopTypeOK, KeepsSettings
  <2>2. /\ SaveAt(op) \in Nat \ {0} /\ RestoreAt(op) \in Nat /\ FlashAt(op) \in Nat
        /\ SaveAt(op) < FlashAt(op) /\ RestoreAt(op) < Len(StepsOf(op))
    <3>1. 1 \in 1 .. Len(StepsOf(op))
      BY <2>1
    <3> QED
      BY <2>1, <3>1, SettingsRows
  <2>3. Flashed => Past(SaveAt(op))
    <3>1. Flashed => pos >= FlashAt(op)
      BY DEF SettingsInv
    <3> QED
      BY <2>1, <2>2, <3>1 DEF Past
  <2>4. result = "ok" /\ ~op.skipBackup => Past(RestoreAt(op))
    BY <2>1, <2>2 DEF BootInv, EndsAtEnd, Past
  <2> QED
    BY <2>3, <2>4 DEF SettingsInv
<1> QED
  BY InitOK, NextOK, BootInit, BootNext, SettingsInit, SettingsNext, <1>1, PTL DEF Spec

=============================================================================
