------------------------- MODULE ProvisionSagaProofs -------------------------
(***************************************************************************)
(* Theorems of ProvisionSaga: what the attempts of a project's provision   *)
(* jobs promise about its runtime, for any number of workers, attempts and *)
(* services, whether or not the advisory lock holds.                       *)
(*                                                                         *)
(* The argument.  Nothing that an attempt relies on is ever taken back:    *)
(* preparations stay, a success of airflow-init that an attempt was told   *)
(* of stays, and the row of a required service is never removed.  So it is *)
(* enough to say at each program point what must have happened before      *)
(* (AttemptOK), whichever attempt did it, and that a command to start the  *)
(* services is given by an attempt past "init" (CommandsOK).  That a       *)
(* project is READY is taken back (JobFails), but no attempt relies on it. *)
(***************************************************************************)
EXTENDS ProvisionSaga, TLAPS

\* The preparations that come before a step.
Before(step) ==
    IF step \in {"none", "load", "database_role"} THEN {}
    ELSE IF step = "database" THEN {"database_role"}
    ELSE IF step = "configuration" THEN {"database_role", "database"}
    ELSE IF step = "runtime_image" THEN {"database_role", "database", "configuration"}
    ELSE PreparingSteps

InspectingSteps == {"init", "services", "airflow_readiness"}
LateSteps == {"services", "airflow_readiness", "publish"}

\* What holds at the program point k of an attempt.
AttemptOK(k) ==
    /\ k.step # "none" => k.attempt > 0
    /\ Before(k.step) \subseteq prepared
    /\ k.step \in LateSteps => initDone
    /\ k.phase \in {"inspect", "record"} => initDone /\ k.step \in InspectingSteps
    /\ k.phase = "record" => \A s \in Services : k.seen[s] # "none"
    /\ k.step = "publish" => \A s \in Services : row[s] # "none" /\ k.seen[s] = "running"

AttemptsOK == \A w \in Workers : AttemptOK(worker[w])

\* A command to start the services, and a service that one has started, come after
\* everything before "services".
CommandsOK ==
    (\E c \in commands : c.kind = "services") \/ (\E s \in Services \ EarlyServices : service[s] # "absent")
        => initDone /\ prepared = PreparingSteps

PublishedOK == published => initDone /\ \A s \in Services : row[s] # "none"

\* The two halves of TypeOK: of what moves with the attempts, and the rest.
ControlOK ==
    /\ lock \in Workers \cup {NoWorker}
    /\ lock # NoWorker => Working(lock)
    /\ worker \in [Workers -> WorkerStates]
    /\ AttemptsOK

DataOK ==
    /\ attempt \in 0 .. MaxAttempts /\ leased \in BOOLEAN /\ published \in BOOLEAN
    /\ prepared \subseteq PreparingSteps
    /\ init \in {"absent", "running", "succeeded", "failed"}
    /\ service \in [Services -> {"absent", "running", "exited"}]
    /\ row \in [Recorded -> Statuses]
    /\ commands \subseteq Commands
    /\ initDone \in BOOLEAN

IInv == ControlOK /\ DataOK /\ CommandsOK /\ InitRowTruthful /\ PublishedOK

-----------------------------------------------------------------------------
(* What no step takes back. *)

Kept ==
    /\ prepared \subseteq prepared'
    /\ initDone => initDone'
    /\ \A s \in Services : row[s] # "none" => row'[s] # "none"

\* Attempts that a step leaves alone keep what they rely on.
LEMMA KeptAttempt ==
    ASSUME NEW k, AttemptOK(k), Kept
    PROVE  AttemptOK(k)'
  BY DEF AttemptOK, Kept

LEMMA IdleOK == AttemptOK(Idle) /\ Idle \in WorkerStates
<1>1. AttemptOK(Idle)
  BY DEF AttemptOK, Idle, Before, LateSteps
<1>2. Idle \in WorkerStates
  BY MaxAttemptsAssumption DEF Idle, NothingSeen, WorkerStates, Phases, Statuses
<1> QED BY <1>1, <1>2

LEMMA FollowingTyped ==
    \A step \in Steps \ {"publish"} : Following[step] \in Steps \ {"load"}
  BY DEF Steps, PreparingSteps, Following

\* The preparations before the next step are those before this one, and this one.
LEMMA BeforeNext ==
    \A step \in Steps \ {"publish"} :
        Before(Following[step]) \subseteq Before(step) \cup ({step} \cap PreparingSteps)
<1> SUFFICES ASSUME NEW step \in Steps \ {"publish"}
             PROVE  Before(Following[step]) \subseteq Before(step) \cup ({step} \cap PreparingSteps)
  OBVIOUS
<1>1. CASE step = "load"
  BY <1>1 DEF Following, Before
<1>2. CASE step = "database_role"
  BY <1>2 DEF PreparingSteps, Following, Before
<1>3. CASE step = "database"
  BY <1>3 DEF PreparingSteps, Following, Before
<1>4. CASE step = "configuration"
  BY <1>4 DEF PreparingSteps, Following, Before
<1>5. CASE step = "runtime_image"
  BY <1>5 DEF PreparingSteps, Following, Before
<1>6. CASE step \in {"init", "services", "airflow_readiness"}
  BY <1>6 DEF PreparingSteps, Following, Before
<1> QED BY <1>1, <1>2, <1>3, <1>4, <1>5, <1>6 DEF Steps, PreparingSteps


LEMMA LateNext ==
    \A step \in Steps \ {"publish"} :
        /\ Following[step] \in LateSteps => step \in InspectingSteps
        /\ Following[step] = "publish" <=> step = "airflow_readiness"
  BY DEF Steps, PreparingSteps, Following, LateSteps, InspectingSteps

-----------------------------------------------------------------------------
(* How an attempt moves. *)

\* Worker w is at k now, and the others are where they were.
LEMMA Moves ==
    ASSUME ControlOK, Kept, NEW w \in Workers, NEW k \in WorkerStates,
           worker' = [worker EXCEPT ![w] = k], AttemptOK(k)',
           lock' \in {lock, NoWorker, w}, lock' = w => k.step # "none"
    PROVE  ControlOK'
<1>1. worker' \in [Workers -> WorkerStates] /\ worker'[w] = k
  BY DEF ControlOK
<1>2. \A v \in Workers \ {w} : worker'[v] = worker[v]
  BY DEF ControlOK
<1>3. AttemptsOK'
  BY <1>1, <1>2, KeptAttempt DEF ControlOK, AttemptsOK
<1>4. lock' \in Workers \cup {NoWorker} /\ (lock' # NoWorker => Working(lock)')
  BY <1>1, <1>2 DEF ControlOK, Working
<1> QED BY <1>1, <1>3, <1>4 DEF ControlOK

LEMMA Rests ==
    ASSUME ControlOK, Kept, UNCHANGED worker, lock' \in {lock, NoWorker}
    PROVE  ControlOK'
<1>1. AttemptsOK'
  BY KeptAttempt DEF ControlOK, AttemptsOK
<1> QED BY <1>1 DEF ControlOK, Working

LEMMA Ends ==
    ASSUME ControlOK, Kept, NEW w \in Workers, End(w)
    PROVE  ControlOK'
<1>1. AttemptOK(Idle)'
  BY DEF AttemptOK, Idle, Before, LateSteps
<1>2. lock' \in {lock, NoWorker} /\ (lock' = w => NoWorker = w)
  BY DEF End
<1> QED BY <1>1, <1>2, IdleOK, NoWorkerAssumption, Moves DEF End

LEMMA GoesTo ==
    ASSUME ControlOK, Kept, NEW w \in Workers, NEW phase \in Phases, GoTo(w, phase),
           Working(w), lock' \in {lock, w},
           phase \in {"inspect", "record"} => initDone' /\ worker[w].step \in InspectingSteps,
           phase # "record"
    PROVE  ControlOK'
<1>0. PICK old : old = worker[w]
  OBVIOUS
<1> DEFINE k == [old EXCEPT !.phase = phase]
<1>1. old \in WorkerStates /\ AttemptOK(old)'
  BY <1>0, KeptAttempt DEF ControlOK, AttemptsOK
<1>2. k \in WorkerStates /\ k.step # "none"
  BY <1>0, <1>1 DEF WorkerStates, Working
<1>3. AttemptOK(k)'
  BY <1>0, <1>1 DEF AttemptOK, WorkerStates
<1>4. worker' = [worker EXCEPT ![w] = k]
  BY <1>0 DEF GoTo
<1> QED BY <1>2, <1>3, <1>4, Moves

LEMMA GoesOn ==
    ASSUME ControlOK, Kept, NEW w \in Workers, NextStep(w), UNCHANGED lock,
           NEW step, step = worker[w].step, step \in Steps \ {"publish"},
           {step} \cap PreparingSteps \subseteq prepared',
           step \in InspectingSteps => initDone',
           step = "airflow_readiness" =>
               \A s \in Services : row'[s] # "none" /\ worker[w].seen[s] = "running"
    PROVE  ControlOK'
<1>0. PICK old : old = worker[w]
  OBVIOUS
<1> DEFINE k == [old EXCEPT !.step = Following[step], !.phase = "check"]
<1>1. old \in WorkerStates /\ AttemptOK(old)'
  BY <1>0, KeptAttempt DEF ControlOK, AttemptsOK
<1>2. Following[step] \in Steps /\ step # "none" /\ Following[step] # "none"
  BY FollowingTyped DEF Steps, PreparingSteps
<1>3. k \in WorkerStates /\ k.step = Following[step] /\ k.phase = "check" /\ k.seen = old.seen
      /\ k.attempt = old.attempt
  BY <1>1, <1>2 DEF WorkerStates, Phases
<1>4. Before(k.step) \subseteq prepared'
  BY <1>0, <1>1, <1>3, BeforeNext DEF AttemptOK
<1>5. k.step \in LateSteps => initDone'
  BY <1>3, LateNext
<1>6. k.step = "publish" => \A s \in Services : row'[s] # "none" /\ k.seen[s] = "running"
  BY <1>0, <1>3, LateNext
<1>7. AttemptOK(k)'
  BY <1>0, <1>1, <1>2, <1>3, <1>4, <1>5, <1>6 DEF AttemptOK
<1>8. worker' = [worker EXCEPT ![w] = k]
  BY <1>0 DEF NextStep
<1> QED BY <1>2, <1>3, <1>7, <1>8, Moves

-----------------------------------------------------------------------------
(* The steps. *)

\* What a step that changes no data leaves to be shown.
LEMMA DataRests ==
    ASSUME IInv, UNCHANGED <<published, prepared, row, dockerVars>>
    PROVE  /\ Kept /\ CommandsOK' /\ InitRowTruthful' /\ PublishedOK'
           /\ attempt' \in 0 .. MaxAttempts /\ leased' \in BOOLEAN => DataOK'
  BY DEF IInv, DataOK, dockerVars, Kept, CommandsOK, InitRowTruthful, PublishedOK

LEMMA WorkersAt ==
    ASSUME ControlOK, NEW w \in Workers
    PROVE  worker[w] \in WorkerStates /\ AttemptOK(worker[w])
  BY DEF ControlOK, AttemptsOK

LEMMA ClaimKeeps ==
    ASSUME IInv, NEW w \in Workers, Claim(w)
    PROVE  IInv'
<1>1. ControlOK /\ DataOK
  BY DEF IInv
<1>2. attempt' \in 1 .. MaxAttempts /\ leased' \in BOOLEAN
  BY <1>1, MaxAttemptsAssumption DEF Claim, DataOK
<1>3. Kept /\ CommandsOK' /\ InitRowTruthful' /\ PublishedOK' /\ DataOK'
  BY <1>2, DataRests DEF Claim
<1>4. PICK k : k = [Idle EXCEPT !.attempt = attempt', !.step = "load"]
  OBVIOUS
<1>5. k \in WorkerStates /\ k.step = "load" /\ k.phase = "locking" /\ k.attempt > 0
  <2>1. k \in WorkerStates
    <3>1. k = [attempt |-> attempt', step |-> "load", phase |-> "locking", seen |-> NothingSeen]
      BY <1>4 DEF Idle
    <3>2. NothingSeen \in [Recorded -> Statuses]
      BY DEF NothingSeen, Statuses
    <3> QED BY <1>2, <3>1, <3>2, MaxAttemptsAssumption DEF WorkerStates, Steps, Phases
  <2>2. k.step = "load" /\ k.phase = "locking" /\ k.attempt = attempt'
    BY <1>4 DEF Idle
  <2> QED BY <1>2, <2>1, <2>2, MaxAttemptsAssumption
<1>6. AttemptOK(k)'
  BY <1>5 DEF AttemptOK, Before, LateSteps
<1>7. ControlOK'
  BY <1>1, <1>3, <1>4, <1>5, <1>6, Moves DEF Claim
<1> QED BY <1>3, <1>7 DEF IInv

\* Steps that change nothing but the program point and the lock.
LEMMA AdvancesKeep ==
    ASSUME IInv, NEW w \in Workers,
           AcquireLock(w) \/ Load(w) \/ SetStep(w) \/ SkipInit(w) \/ BecomesReady(w)
    PROVE  IInv'
<1>1. ControlOK /\ DataOK
  BY DEF IInv
<1>2. UNCHANGED <<jobVars, prepared, row, dockerVars>>
  BY DEF AcquireLock, Load, SetStep, SkipInit, BecomesReady
<1>3. Kept /\ CommandsOK' /\ InitRowTruthful' /\ PublishedOK' /\ DataOK'
  BY <1>1, <1>2, DataRests DEF jobVars, DataOK
<1>4. ControlOK'
  <2>1. CASE AcquireLock(w)
    <3>1. worker[w].step = "load" /\ GoTo(w, "check") /\ lock' = w
      BY <2>1 DEF AcquireLock, At
    <3> QED BY <1>1, <1>3, <3>1, GoesTo DEF Working, Phases
  <2>2. CASE Load(w)
    <3>1. worker[w].step = "load" /\ NextStep(w) /\ UNCHANGED lock
      BY <2>2 DEF Load, At
    <3> QED BY <1>1, <1>3, <3>1, GoesOn DEF Steps, PreparingSteps, InspectingSteps
  <2>3. CASE SetStep(w)
    <3>1. worker[w].step \in Steps /\ GoTo(w, "act") /\ UNCHANGED lock
      BY <2>3 DEF SetStep
    <3> QED BY <1>1, <1>3, <3>1, GoesTo DEF Working, Phases, Steps, PreparingSteps
  <2>4. CASE SkipInit(w)
    <3>1. worker[w].step = "init" /\ NextStep(w) /\ UNCHANGED lock /\ row["airflow-init"] = "exited"
      BY <2>4 DEF SkipInit, At, InitCompleted
    <3>2. initDone'
      BY <1>3, <3>1 DEF IInv, InitRowTruthful, Kept
    <3> QED BY <1>1, <1>3, <3>1, <3>2, GoesOn DEF Steps, PreparingSteps
  <2>5. CASE BecomesReady(w)
    <3>1. worker[w].step = "airflow_readiness" /\ GoTo(w, "inspect") /\ UNCHANGED lock
      BY <2>5 DEF BecomesReady, At
    <3>2. initDone'
      BY <1>1, <1>3, <3>1, WorkersAt DEF IInv, AttemptOK, LateSteps, Kept
    <3> QED BY <1>1, <1>3, <3>1, <3>2, GoesTo DEF Working, Phases, InspectingSteps
  <2> QED BY <2>1, <2>2, <2>3, <2>4, <2>5
<1> QED BY <1>3, <1>4 DEF IInv

LEMMA PrepareKeeps ==
    ASSUME IInv, NEW w \in Workers, Prepare(w)
    PROVE  IInv'
<1>1. ControlOK /\ DataOK
  BY DEF IInv
<1>2. worker[w].step \in PreparingSteps /\ NextStep(w) /\ UNCHANGED lock
  BY DEF Prepare
<1>3. prepared' = prepared \cup {worker[w].step} /\ UNCHANGED <<jobVars, row, dockerVars>>
  BY DEF Prepare
<1>4. Kept /\ DataOK'
  BY <1>1, <1>2, <1>3 DEF Kept, DataOK, jobVars, dockerVars
<1>5. CommandsOK' /\ InitRowTruthful' /\ PublishedOK'
  BY <1>1, <1>2, <1>3
     DEF IInv, DataOK, CommandsOK, InitRowTruthful, PublishedOK, jobVars, dockerVars
<1>6. ControlOK'
  BY <1>1, <1>2, <1>3, <1>4, GoesOn DEF Steps, PreparingSteps, InspectingSteps
<1> QED BY <1>4, <1>5, <1>6 DEF IInv

LEMMA RunInitKeeps ==
    ASSUME IInv, NEW w \in Workers, RunInit(w)
    PROVE  IInv'
<1>1. ControlOK /\ DataOK
  BY DEF IInv
<1>2. /\ worker[w].step = "init" /\ GoTo(w, "wait") /\ UNCHANGED <<jobVars, lock, prepared, row, initDone>>
      /\ commands' = commands \cup {Command(w, "init")} /\ init' = "running"
      /\ service' = [s \in Services |-> IF s \in EarlyServices THEN "running" ELSE service[s]]
  BY DEF RunInit, At
<1>3. Command(w, "init") \in Commands /\ Command(w, "init").kind = "init"
  BY <1>2, WorkersAt, MaxAttemptsAssumption DEF IInv, AttemptOK, WorkerStates, Commands, Command
<1>4. Kept /\ DataOK'
  BY <1>1, <1>2, <1>3 DEF Kept, DataOK, jobVars
<1>5. CommandsOK' /\ InitRowTruthful' /\ PublishedOK'
  BY <1>1, <1>2, <1>3 DEF IInv, DataOK, CommandsOK, InitRowTruthful, PublishedOK, jobVars
<1>6. ControlOK'
  BY <1>1, <1>2, <1>4, GoesTo DEF Working, Phases
<1> QED BY <1>4, <1>5, <1>6 DEF IInv

LEMMA StartServicesKeeps ==
    ASSUME IInv, NEW w \in Workers, StartServices(w)
    PROVE  IInv'
<1>1. ControlOK /\ DataOK
  BY DEF IInv
<1>2. /\ worker[w].step = "services" /\ GoTo(w, "wait")
      /\ UNCHANGED <<jobVars, lock, prepared, row, init, service, initDone>>
      /\ commands' = commands \cup {Command(w, "services")}
  BY DEF StartServices, At
<1>3. Command(w, "services") \in Commands /\ initDone /\ prepared = PreparingSteps
  BY <1>1, <1>2, WorkersAt, MaxAttemptsAssumption
     DEF IInv, AttemptOK, WorkerStates, Commands, Command, LateSteps, Before, DataOK
<1>4. Kept /\ DataOK'
  BY <1>1, <1>2, <1>3 DEF Kept, DataOK, jobVars
<1>5. CommandsOK' /\ InitRowTruthful' /\ PublishedOK'
  BY <1>1, <1>2, <1>3 DEF IInv, CommandsOK, InitRowTruthful, PublishedOK, jobVars
<1>6. ControlOK'
  BY <1>1, <1>2, <1>4, GoesTo DEF Working, Phases
<1> QED BY <1>4, <1>5, <1>6 DEF IInv

\* The attempt that awaits a command goes on when it has succeeded, and ends otherwise.
LEMMA Returns ==
    ASSUME ControlOK, Kept, NEW c \in Commands, NEW success, Return(c, success),
           success /\ Awaits(c.worker, c) => initDone'
    PROVE  ControlOK'
<1>1. c.worker \in Workers /\ c.kind \in {"init", "services"}
  BY DEF Commands
<1>2. CASE ~Awaits(c.worker, c)
  BY <1>2, Rests DEF Return
<1>3. CASE Awaits(c.worker, c) /\ ~success
  BY <1>1, <1>3, Ends DEF Return
<1>4. CASE Awaits(c.worker, c) /\ success
  <2>1. GoTo(c.worker, "inspect") /\ UNCHANGED lock
    BY <1>4 DEF Return
  <2>2. worker[c.worker].step = c.kind
    BY <1>4 DEF Awaits, Command
  <2> QED BY <1>1, <1>4, <2>1, <2>2, GoesTo DEF Working, Phases, InspectingSteps
<1> QED BY <1>2, <1>3, <1>4

LEMMA InitReturnsKeeps ==
    ASSUME IInv, NEW c \in commands, InitReturns(c)
    PROVE  IInv'
<1>1. ControlOK /\ DataOK
  BY DEF IInv
<1>2. /\ commands' = commands \ {c} /\ UNCHANGED <<jobVars, prepared, init, row>>
      /\ Return(c, init = "succeeded")
      /\ initDone' = (initDone \/ (init = "succeeded" /\ Awaits(c.worker, c)))
  BY DEF InitReturns
<1>3. \/ UNCHANGED service
      \/ service' = [s \in Services |-> IF s \in EarlyServices THEN "exited" ELSE service[s]]
  BY DEF InitReturns
<1>4. Kept
  BY <1>1, <1>2 DEF Kept, DataOK
<1>5. initDone' \in BOOLEAN
  BY <1>1, <1>2 DEF DataOK
<1>6. DataOK'
  BY <1>1, <1>2, <1>3, <1>5 DEF DataOK, jobVars
<1>7. CommandsOK'
  BY <1>1, <1>2, <1>3, <1>4 DEF IInv, DataOK, CommandsOK, Kept
<1>8. InitRowTruthful' /\ PublishedOK'
  BY <1>2, <1>4 DEF IInv, InitRowTruthful, PublishedOK, Kept, jobVars
<1>9. ControlOK'
  <2>1. c \in Commands
    BY <1>1 DEF DataOK
  <2> QED BY <1>1, <1>2, <1>4, <2>1, Returns
<1> QED BY <1>6, <1>7, <1>8, <1>9 DEF IInv

LEMMA ServicesReturnKeeps ==
    ASSUME IInv, NEW c \in commands, ServicesReturn(c)
    PROVE  IInv'
<1>1. ControlOK /\ DataOK
  BY DEF IInv
<1>2. PICK up \in SUBSET Services :
          /\ service' = [s \in Services |-> IF s \in up THEN "running" ELSE service[s]]
          /\ Return(c, up = Services)
  BY DEF ServicesReturn
<1>3. /\ commands' = commands \ {c} /\ c.kind = "services"
      /\ UNCHANGED <<jobVars, prepared, init, row, initDone>>
  BY DEF ServicesReturn
<1>4. initDone /\ prepared = PreparingSteps
  BY <1>3 DEF IInv, CommandsOK
<1>5. Kept /\ DataOK'
  BY <1>1, <1>2, <1>3 DEF Kept, DataOK, jobVars
<1>6. CommandsOK' /\ InitRowTruthful' /\ PublishedOK'
  BY <1>3, <1>4 DEF IInv, CommandsOK, InitRowTruthful, PublishedOK, jobVars
<1>7. ControlOK'
  <2>1. c \in Commands
    BY <1>1 DEF DataOK
  <2> QED BY <1>1, <1>2, <1>3, <1>4, <1>5, <2>1, Returns
<1> QED BY <1>5, <1>6, <1>7 DEF IInv

LEMMA InspectKeeps ==
    ASSUME IInv, NEW w \in Workers, Inspect(w)
    PROVE  IInv'
<1>1. ControlOK /\ DataOK
  BY DEF IInv
<1>2. UNCHANGED <<jobVars, lock, prepared, row, dockerVars>> /\ worker[w].phase = "inspect"
  BY DEF Inspect
<1>3. Kept /\ CommandsOK' /\ InitRowTruthful' /\ PublishedOK' /\ DataOK'
  BY <1>1, <1>2, DataRests DEF jobVars, DataOK
<1>4. PICK old : old = worker[w]
  OBVIOUS
<1>5. old \in WorkerStates /\ AttemptOK(old)
  BY <1>4, WorkersAt DEF IInv
<1>6. PICK seen : seen = [name \in Recorded |->
                             IF name = "airflow-init" THEN InitStatus ELSE service[name]]
  OBVIOUS
<1>7. InitStatus \in {"absent", "running", "exited"}
  BY <1>1 DEF DataOK, InitStatus
<1>8. seen \in [Recorded -> Statuses] /\ \A s \in Services : seen[s] # "none"
  BY <1>1, <1>6, <1>7 DEF DataOK, Recorded, Statuses
<1> DEFINE k == [old EXCEPT !.phase = "record", !.seen = seen]
<1>9. worker' = [worker EXCEPT ![w] = k]
  BY <1>4, <1>6 DEF Inspect
<1>10. k \in WorkerStates /\ k.step = old.step /\ k.seen = seen
       /\ k.attempt = old.attempt /\ old.phase = "inspect"
  BY <1>2, <1>4, <1>5, <1>8 DEF WorkerStates, Phases
<1>11. old.step \in InspectingSteps
  BY <1>5, <1>10 DEF AttemptOK
<1>12. AttemptOK(k)'
  BY <1>3, <1>5, <1>8, <1>10, <1>11 DEF AttemptOK, Kept, InspectingSteps
<1>13. k.step # "none"
  BY <1>10, <1>11 DEF InspectingSteps
<1> HIDE DEF k
<1>14. ControlOK'
  BY <1>1, <1>2, <1>3, <1>9, <1>10, <1>12, <1>13, Moves
<1> QED BY <1>3, <1>14 DEF IInv

LEMMA RecordKeeps ==
    ASSUME IInv, NEW w \in Workers, Record(w)
    PROVE  IInv'
<1>1. ControlOK /\ DataOK
  BY DEF IInv
<1>2. PICK written \in SUBSET Recorded :
          /\ row' = [name \in Recorded |->
                         IF name \in written THEN NewRow(w, name) ELSE row[name]]
          /\ IF written = Recorded /\ AllRunning(w)
             THEN NextStep(w) /\ UNCHANGED lock ELSE End(w)
  BY DEF Record
<1>3. UNCHANGED <<jobVars, prepared, dockerVars>> /\ worker[w].phase = "record"
  BY DEF Record
<1>4. /\ worker[w].seen \in [Recorded -> Statuses] /\ initDone
      /\ worker[w].step \in InspectingSteps /\ \A s \in Services : worker[w].seen[s] # "none"
  BY <1>3, WorkersAt DEF IInv, AttemptOK, WorkerStates
<1>5. /\ \A name \in Recorded : NewRow(w, name) \in Statuses
      /\ \A s \in Services : row[s] # "none" => NewRow(w, s) # "none"
  BY <1>1, <1>4 DEF NewRow, DataOK, Statuses, Recorded
<1>6. Kept
  BY <1>1, <1>2, <1>3, <1>5 DEF Kept, dockerVars, Recorded
<1>7. row' \in [Recorded -> Statuses]
  BY <1>1, <1>2, <1>5 DEF DataOK
<1>8. DataOK'
  BY <1>1, <1>3, <1>7 DEF DataOK, jobVars, dockerVars
<1>9. CommandsOK' /\ InitRowTruthful' /\ PublishedOK'
  BY <1>3, <1>4, <1>6 DEF IInv, CommandsOK, InitRowTruthful, PublishedOK, Kept, jobVars, dockerVars
<1>10. ControlOK'
  <2>1. CASE written = Recorded /\ AllRunning(w)
    <3>1. worker[w].step = "airflow_readiness" =>
              \A s \in Services : row'[s] # "none" /\ worker[w].seen[s] = "running"
      BY <1>2, <2>1 DEF AllRunning, NewRow, Recorded
    <3> QED BY <1>1, <1>2, <1>4, <1>6, <2>1, <3>1, GoesOn
            DEF InspectingSteps, Steps, PreparingSteps, Kept
  <2>2. CASE ~(written = Recorded /\ AllRunning(w))
    BY <1>1, <1>2, <1>6, <2>2, Ends
  <2> QED BY <2>1, <2>2
<1> QED BY <1>8, <1>9, <1>10 DEF IInv

LEMMA PublishReadyKeeps ==
    ASSUME IInv, NEW w \in Workers, PublishReady(w)
    PROVE  IInv'
<1>1. ControlOK /\ DataOK
  BY DEF IInv
<1>2. /\ worker[w].step = "publish" /\ published' = TRUE /\ End(w)
      /\ UNCHANGED <<attempt, leased, prepared, row, dockerVars>>
  BY DEF PublishReady, At
<1>3. Kept /\ DataOK'
  BY <1>1, <1>2 DEF Kept, DataOK, dockerVars
<1>4. initDone /\ \A s \in Services : row[s] # "none"
  BY <1>2, WorkersAt DEF IInv, AttemptOK, LateSteps
<1>5. CommandsOK' /\ InitRowTruthful' /\ PublishedOK'
  BY <1>2, <1>4 DEF IInv, CommandsOK, InitRowTruthful, PublishedOK, dockerVars
<1>6. ControlOK'
  BY <1>1, <1>2, <1>3, Ends
<1> QED BY <1>3, <1>5, <1>6 DEF IInv

LEMMA EndsKeep ==
    ASSUME IInv, NEW w \in Workers, AttemptEnds(w) \/ Crash(w)
    PROVE  IInv'
<1>1. ControlOK /\ DataOK
  BY DEF IInv
<1>2. /\ End(w) /\ UNCHANGED <<jobVars, prepared, row, init, service, initDone>>
      /\ commands' \subseteq commands
  BY DEF AttemptEnds, Crash, dockerVars
<1>3. Kept /\ DataOK'
  BY <1>1, <1>2 DEF Kept, DataOK, jobVars
<1>4. CommandsOK' /\ InitRowTruthful' /\ PublishedOK'
  BY <1>2 DEF IInv, CommandsOK, InitRowTruthful, PublishedOK, jobVars
<1>5. ControlOK'
  BY <1>1, <1>2, <1>3, Ends
<1> QED BY <1>3, <1>4, <1>5 DEF IInv

\* Containers exit, the lease expires, the job fails, the lock's connection breaks.
LEMMA EnvironmentKeeps ==
    ASSUME IInv,
           InitExits \/ (\E s \in Services : ServiceExits(s)) \/ LeaseExpires
               \/ JobFails \/ LockConnectionBreaks \/ UNCHANGED vars
    PROVE  IInv'
<1>1. ControlOK /\ DataOK
  BY DEF IInv
<1>2. /\ UNCHANGED <<attempt, worker, prepared, row, commands, initDone>>
      /\ published' \in {published, FALSE}
      /\ lock' \in {lock, NoWorker} /\ leased' \in BOOLEAN
      /\ init' \in {"absent", "running", "succeeded", "failed"}
      /\ \/ UNCHANGED service
         \/ \E s \in Services : service[s] = "running" /\ service' = [service EXCEPT ![s] = "exited"]
  BY <1>1 DEF DataOK, InitExits, ServiceExits, LeaseExpires, JobFails, LockConnectionBreaks, vars,
              jobVars, dockerVars
<1>3. Kept
  BY <1>2 DEF Kept
<1>4. DataOK' /\ \A s \in Services : service'[s] # "absent" => service[s] # "absent"
  BY <1>1, <1>2 DEF DataOK
<1>5. CommandsOK' /\ InitRowTruthful'
  BY <1>2, <1>4 DEF IInv, CommandsOK, InitRowTruthful
<1>7. PublishedOK'
  <2>1. published' => published
    BY <1>2
  <2> QED BY <1>2, <2>1 DEF IInv, PublishedOK
<1>6. ControlOK'
  BY <1>1, <1>2, <1>3, Rests
<1> QED BY <1>4, <1>5, <1>6, <1>7 DEF IInv

-----------------------------------------------------------------------------
(* The theorems. *)

LEMMA InitOK == Init => IInv
<1> SUFFICES ASSUME Init PROVE IInv
  OBVIOUS
<1>1. \A w \in Workers : worker[w] = Idle
  BY DEF Init
<1>2. AttemptsOK
  BY <1>1, IdleOK DEF AttemptsOK
<1>3. ControlOK
  BY <1>2, IdleOK DEF Init, ControlOK
<1>4. DataOK
  <2>1. row \in [Recorded -> Statuses] /\ service \in [Services -> {"absent", "running", "exited"}]
    BY DEF Init, NothingSeen, Statuses
  <2>2. attempt \in 0 .. MaxAttempts
    BY MaxAttemptsAssumption DEF Init
  <2>3. prepared \subseteq PreparingSteps /\ commands \subseteq Commands
    BY DEF Init
  <2> QED BY <2>1, <2>2, <2>3 DEF Init, DataOK
<1>5. CommandsOK /\ InitRowTruthful /\ PublishedOK
  BY DEF Init, CommandsOK, InitRowTruthful, PublishedOK, NothingSeen, Recorded
<1> QED BY <1>3, <1>4, <1>5 DEF IInv

LEMMA StepOK == IInv /\ [Next]_vars => IInv'
<1> SUFFICES ASSUME IInv, [Next]_vars PROVE IInv'
  OBVIOUS
<1>1. ASSUME NEW w \in Workers, WorkerStep(w) PROVE IInv'
  BY <1>1, ClaimKeeps, AdvancesKeep, PrepareKeeps, RunInitKeeps, StartServicesKeeps, InspectKeeps,
     RecordKeeps, PublishReadyKeeps DEF WorkerStep
<1>2. ASSUME NEW w \in Workers, AttemptEnds(w) \/ Crash(w) PROVE IInv'
  BY <1>2, EndsKeep
<1>3. ASSUME NEW c \in commands, InitReturns(c) \/ ServicesReturn(c) PROVE IInv'
  BY <1>3, InitReturnsKeeps, ServicesReturnKeeps
<1>4. CASE InitExits \/ (\E s \in Services : ServiceExits(s)) \/ LeaseExpires
               \/ JobFails \/ LockConnectionBreaks \/ UNCHANGED vars
  BY <1>4, EnvironmentKeeps
<1> QED BY <1>1, <1>2, <1>3, <1>4 DEF Next

LEMMA Invariance == Spec => []IInv
  BY InitOK, StepOK, PTL DEF Spec

\* Whatever interleaving of attempts, crashes and returning commands: the state is
\* typed, and the advisory lock is held by an attempt under way or by nobody.
THEOREM TypeCorrect == Spec => []TypeOK
<1>1. IInv => TypeOK
  BY DEF IInv, ControlOK, DataOK, TypeOK
<1> QED BY <1>1, Invariance, PTL

\* A row that makes later attempts skip airflow-init is true: some attempt was told
\* that it succeeded, though attempts that were cut short write rows, too.
THEOREM InitRowIsTruthful == Spec => []InitRowTruthful
<1>1. IInv => InitRowTruthful
  BY DEF IInv
<1> QED BY <1>1, Invariance, PTL

\* No command, not even one that outlived its attempt, starts an Airflow service
\* before everything is prepared and the database is initialized.
THEOREM InitComesBeforeServices == Spec => []InitBeforeServices
<1>1. IInv => InitBeforeServices
  BY DEF IInv, CommandsOK, InitBeforeServices
<1> QED BY <1>1, Invariance, PTL

\* Only an attempt whose runtime was initialized, recorded and seen running publishes,
\* also if another attempt works beside it because the advisory lock broke.
THEOREM PublishHasRuntime == Spec => []PublishNeedsRuntime
<1>1. IInv => PublishNeedsRuntime
  BY DEF IInv, ControlOK, AttemptsOK, AttemptOK, LateSteps, PublishedOK, PublishNeedsRuntime, At
<1> QED BY <1>1, Invariance, PTL

\* An attempt that has passed the advisory lock.
Inside(w) == Working(w) /\ worker[w].phase # "locking"

LEMMA HolderInside ==
    ASSUME IInv, \A w \in Workers : Inside(w) => lock = w, ~LockMayBreak, [Next]_vars
    PROVE  (\A w \in Workers : Inside(w) => lock = w)'
<1> DEFINE Holds == \A w \in Workers : Inside(w) => lock = w
<1>0. /\ worker \in [Workers -> WorkerStates] /\ commands \subseteq Commands
      /\ \A w \in Workers : worker[w].phase \in {"inspect", "record"} => worker[w].step # "none"
  BY DEF IInv, ControlOK, DataOK, AttemptsOK, AttemptOK, InspectingSteps
<1> USE <1>0 DEF Inside, Working
<1>1. ASSUME NEW w \in Workers, Claim(w) PROVE Holds'
  BY <1>1 DEF Claim, Idle
<1>2. ASSUME NEW w \in Workers, AcquireLock(w) PROVE Holds'
  BY <1>2, NoWorkerAssumption DEF AcquireLock, At, GoTo
<1>3. ASSUME NEW w \in Workers,
             Load(w) \/ SetStep(w) \/ Prepare(w) \/ SkipInit(w) \/ RunInit(w) \/ StartServices(w)
                 \/ BecomesReady(w) \/ Inspect(w)
      PROVE  Holds'
  <2>1. worker[w].step # "none" /\ worker[w].phase # "locking"
    BY <1>3 DEF Load, SetStep, Prepare, SkipInit, RunInit, StartServices, BecomesReady, Inspect, At,
                Steps, PreparingSteps
  <2>2. UNCHANGED lock /\ \A v \in Workers \ {w} : worker'[v] = worker[v]
    BY <1>3 DEF Load, SetStep, Prepare, SkipInit, RunInit, StartServices, BecomesReady, Inspect,
                GoTo, NextStep
  <2> QED BY <2>1, <2>2
<1>4. \A w \in Workers : End(w) /\ Holds => Holds'
  BY NoWorkerAssumption DEF End, Idle
<1>5. ASSUME NEW w \in Workers, Record(w) PROVE Holds'
  <2>1. CASE End(w)
    BY <2>1, <1>4
  <2>2. CASE NextStep(w) /\ UNCHANGED lock
    <3>1. worker[w].step # "none" /\ worker[w].phase # "locking"
      BY <1>5 DEF Record
    <3> QED BY <2>2, <3>1 DEF NextStep
  <2> QED BY <1>5, <2>1, <2>2 DEF Record
<1>6. ASSUME NEW w \in Workers, PublishReady(w) \/ AttemptEnds(w) \/ Crash(w) PROVE Holds'
  BY <1>6, <1>4 DEF PublishReady, AttemptEnds, Crash
<1>7. ASSUME NEW c \in commands, InitReturns(c) \/ ServicesReturn(c) PROVE Holds'
  <2>1. c.worker \in Workers
    BY DEF Commands
  <2>2. CASE End(c.worker)
    BY <2>1, <2>2, <1>4
  <2>3. CASE UNCHANGED <<worker, lock>>
    BY <2>3
  <2>4. CASE Awaits(c.worker, c) /\ GoTo(c.worker, "inspect") /\ UNCHANGED lock
    BY <2>1, <2>4 DEF Awaits, GoTo
  <2> QED BY <1>7, <2>2, <2>3, <2>4 DEF InitReturns, ServicesReturn, Return
<1>8. CASE InitExits \/ (\E s \in Services : ServiceExits(s)) \/ LeaseExpires \/ JobFails \/ UNCHANGED vars
  BY <1>8 DEF InitExits, ServiceExits, LeaseExpires, JobFails, vars
<1>9. ~LockConnectionBreaks
  BY DEF LockConnectionBreaks
<1> QED BY <1>1, <1>2, <1>3, <1>5, <1>6, <1>7, <1>8, <1>9 DEF Next, WorkerStep

\* As long as its connection holds, the advisory lock lets one attempt at a time into
\* the saga, whatever the leases do and whoever crashes.  What it does not do is to end
\* the commands of attempts that have left: OneAttemptDrivesDocker is violated all the same.
THEOREM LockAdmitsOneAttempt ==
    ASSUME ~LockMayBreak
    PROVE  Spec => [](\A v, w \in Workers : Inside(v) /\ Inside(w) => v = w)
<1> DEFINE Holds == \A w \in Workers : Inside(w) => lock = w
<1>1. Init => Holds
  BY DEF Init, Inside, Working, Idle
<1>2. IInv /\ Holds /\ [Next]_vars => Holds'
  BY HolderInside
<1>3. Holds => \A v, w \in Workers : Inside(v) /\ Inside(w) => v = w
  OBVIOUS
<1> HIDE DEF Holds
<1> QED BY <1>1, <1>2, <1>3, Invariance, PTL DEF Spec
=============================================================================
