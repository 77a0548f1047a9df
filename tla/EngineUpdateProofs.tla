------------------------- MODULE EngineUpdateProofs -------------------------
(* Proofs that no worker an engine update stopped is forgotten, that none  *)
(* is started twice for its return, and that the update keeps the promise  *)
(* of OwedReturn, for any number of workers, faults and restarts.          *)
EXTENDS EngineUpdate, TLAPS

-----------------------------------------------------------------------------
(* Types.                                                                  *)

\* Each step an attempt can be at, so that Pcs stays folded below.
LEMMA SomePcs ==
  /\ "idle" \in Pcs /\ "drain" \in Pcs /\ "record" \in Pcs /\ "admit" \in Pcs
  /\ "relist" \in Pcs /\ "settle" \in Pcs /\ "aside" \in Pcs /\ "cancel" \in Pcs
  /\ "withdraw" \in Pcs /\ "release" \in Pcs /\ "stops" \in Pcs /\ "ask" \in Pcs
  /\ "await" \in Pcs /\ "claim" \in Pcs /\ "launch" \in Pcs /\ "lift" \in Pcs
  /\ "returned" \in Pcs /\ "refused" \in Pcs /\ "unsure" \in Pcs
  BY DEF Pcs, Answers

\* What the actions make of a task is a task.
LEMMA IdleType == Idle \in Tasks
  BY SomePcs DEF Idle, Tasks

LEMMA StepType ==
  ASSUME task \in Tasks, NEW pc \in Pcs
  PROVE  Step(pc) \in Tasks
  BY DEF Step, Tasks

LEMMA EndingType ==
  ASSUME task \in Tasks, NEW then \in {"refuse", "giveup", "partway", "abandon"}
  PROVE  Ending(then) \in Tasks
  BY SomePcs DEF Ending, Tasks

\* The lists of a task name workers.
LEMMA FieldTypes ==
  ASSUME NEW t \in Tasks
  PROVE  /\ t.listed \subseteq Workers /\ t.older \subseteq Workers
         /\ t.aside \subseteq Workers /\ t.stopped \subseteq Workers
         /\ t.todo \subseteq Workers /\ t.now \subseteq Workers
  BY DEF Tasks

\* A task stays one when a list of it is replaced.
LEMMA SetTypes ==
  ASSUME NEW t \in Tasks, NEW S \in SUBSET Workers
  PROVE  /\ [t EXCEPT !.older = S] \in Tasks
         /\ [t EXCEPT !.aside = S] \in Tasks
         /\ [t EXCEPT !.stopped = S] \in Tasks
         /\ [t EXCEPT !.todo = S] \in Tasks
         /\ [t EXCEPT !.then = "ask"] \in Tasks
         /\ [t EXCEPT !.then = "ask", !.stopped = S] \in Tasks
  BY DEF Tasks

\* What each change of a task leaves in its fields.
LEMMA StepFields ==
  ASSUME task \in Tasks, NEW pc
  PROVE  /\ Step(pc).pc = pc /\ Step(pc).then = task.then
         /\ Step(pc).listed = task.listed /\ Step(pc).aside = task.aside
         /\ Step(pc).stopped = task.stopped /\ Step(pc).todo = task.todo
         /\ Step(pc).now = task.now
  BY DEF Step, Tasks

LEMMA EndingFields ==
  ASSUME task \in Tasks, NEW then
  PROVE  /\ Ending(then).pc = "cancel" /\ Ending(then).then = then
         /\ Ending(then).listed = task.listed /\ Ending(then).aside = task.aside
         /\ Ending(then).stopped = task.stopped /\ Ending(then).todo = {}
         /\ Ending(then).now = task.now
  BY DEF Ending, Tasks

LEMMA IdleFields == Idle.pc = "idle" /\ Idle.listed = {} /\ Idle.todo = {} /\ Idle.now = {}
  BY DEF Idle

LEMMA SetFields ==
  ASSUME NEW t \in Tasks, NEW S
  PROVE  /\ [t EXCEPT !.older = S].pc = t.pc
         /\ [t EXCEPT !.older = S].listed = t.listed
         /\ [t EXCEPT !.aside = S].pc = t.pc /\ [t EXCEPT !.aside = S].then = t.then
         /\ [t EXCEPT !.aside = S].listed = t.listed /\ [t EXCEPT !.aside = S].aside = S
         /\ [t EXCEPT !.aside = S].stopped = t.stopped
         /\ [t EXCEPT !.stopped = S].pc = t.pc /\ [t EXCEPT !.stopped = S].then = t.then
         /\ [t EXCEPT !.stopped = S].listed = t.listed
         /\ [t EXCEPT !.stopped = S].aside = t.aside
         /\ [t EXCEPT !.stopped = S].stopped = S
         /\ [t EXCEPT !.todo = S].pc = t.pc /\ [t EXCEPT !.todo = S].then = t.then
         /\ [t EXCEPT !.todo = S].listed = t.listed /\ [t EXCEPT !.todo = S].aside = t.aside
         /\ [t EXCEPT !.todo = S].todo = S
         /\ [t EXCEPT !.then = "ask"].pc = t.pc
         /\ [t EXCEPT !.then = "ask", !.stopped = S].pc = t.pc
  BY DEF Tasks

\* The task, whoever holds it.
LEMMA NextTask == TypeOK /\ [Next]_vars => task' \in Tasks
<1> SUFFICES ASSUME task \in Tasks, [Next]_vars PROVE task' \in Tasks
  BY DEF TypeOK
<1> USE DEF memory, package_frame
<1>1. CASE BeginDrain
  BY <1>1, StepType, SomePcs, IdleType DEF BeginDrain
<1>2. CASE Record
  <2> DEFINE older == {w \in task.listed : promise[w] = "owed"}
  <2>1. older \in SUBSET Workers
    BY FieldTypes
  <2>2. [Step("admit") EXCEPT !.older = older] \in Tasks
    BY <2>1, StepType, SomePcs, SetTypes
  <2> QED
    BY <1>2, <2>2, EndingType DEF Record
<1>3. CASE Admit
  <2>1. Asked \in SUBSET Workers
    BY FieldTypes DEF Asked
  <2>2. CASE Asked = {} /\ task' = [Step("release") EXCEPT !.then = "ask"]
    BY <2>2, StepType, SomePcs, SetTypes
  <2>3. CASE task' = [Step("release") EXCEPT !.then = "ask", !.stopped = Asked]
    BY <2>1, <2>3, StepType, SomePcs, SetTypes
  <2>4. CASE task' = Ending("giveup")
    BY <2>4, EndingType
  <2>5. ASSUME NEW holders \in SUBSET Asked,
               task' = [Step("settle") EXCEPT !.todo = holders]
        PROVE  task' \in Tasks
    BY <2>1, <2>5, StepType, SomePcs, SetTypes
  <2>6. ASSUME NEW stopped \in SUBSET Asked,
               task' = [Ending("partway") EXCEPT !.stopped = stopped]
        PROVE  task' \in Tasks
    BY <2>1, <2>6, EndingType, SetTypes
  <2>7. CASE task' = Step("relist")
    BY <2>7, StepType, SomePcs
  <2> QED
    BY <1>3, <2>2, <2>3, <2>4, <2>5, <2>6, <2>7 DEF Admit, AdmitAnswered, AdmitLost
<1>4. CASE Relist
  <2> DEFINE S == Asked \ Running
  <2>1. S \in SUBSET Workers
    BY FieldTypes DEF Asked
  <2>2. /\ [Step("release") EXCEPT !.then = "ask", !.stopped = S] \in Tasks
        /\ [Ending("partway") EXCEPT !.stopped = S] \in Tasks
        /\ Ending("giveup") \in Tasks /\ Ending("refuse") \in Tasks
    BY <2>1, StepType, EndingType, SomePcs, SetTypes
  <2> QED
    BY <1>4, <2>2 DEF Relist
<1>5. CASE Settle
  BY <1>5, EndingType, StepType, SomePcs DEF Settle
<1>6. CASE SetAside
  <2>1. PICK w \in task.todo :
            \/ task' = [task EXCEPT !.aside = task.aside \cup {w},
                          !.todo = task.todo \ {w},
                          !.pc = IF task.todo \ {w} = {} THEN "admit" ELSE "aside"]
            \/ task' = [Ending("giveup") EXCEPT !.aside = task.aside \cup {w}]
    BY <1>6 DEF SetAside
  <2>2. task.aside \cup {w} \in SUBSET Workers /\ task.todo \ {w} \in SUBSET Workers
    BY FieldTypes
  <2>3. CASE task' = [Ending("giveup") EXCEPT !.aside = task.aside \cup {w}]
    BY <2>2, <2>3, EndingType, SetTypes
  <2>4. CASE task' = [task EXCEPT !.aside = task.aside \cup {w},
                        !.todo = task.todo \ {w},
                        !.pc = IF task.todo \ {w} = {} THEN "admit" ELSE "aside"]
    BY <2>2, <2>4, SomePcs DEF Tasks
  <2> QED
    BY <2>1, <2>3, <2>4
<1>7. CASE CancelDrain
  BY <1>7, StepType, SomePcs, IdleType DEF CancelDrain
<1>8. CASE Withdraw
  BY <1>8 DEF Withdraw, WithdrawAllBut, Step, Idle, Tasks, Pcs, Answers
<1>9. CASE Release
  <2>1. CASE task' = Idle
    BY <2>1, IdleType
  <2>2. CASE task' = [Idle EXCEPT !.pc = "ask", !.then = "abandon"]
    BY <2>2, SomePcs, IdleType DEF Tasks
  <2> QED
    BY <1>9, <2>1, <2>2 DEF Release
<1>10. CASE CardStop
  <2>1. CASE task' = Idle
    BY <2>1, IdleType
  <2>2. ASSUME NEW w, task' = [task EXCEPT !.todo = task.todo \ {w}]
        PROVE  task' \in Tasks
    BY <2>2, FieldTypes, SetTypes
  <2>3. CASE task' = [Step("ask") EXCEPT !.todo = {}]
    BY <2>3, StepType, SomePcs, SetTypes
  <2> QED
    BY <1>10, <2>1, <2>2, <2>3 DEF CardStop
<1>11. CASE Ask
  BY <1>11, IdleType, EndingType, StepType, SomePcs DEF Ask
<1>12. CASE Await
  BY <1>12, IdleType DEF Await
<1>13. CASE Claim
  <2>1. CASE task' = Idle
    BY <2>1, IdleType
  <2>2. ASSUME NEW w \in task.todo,
               \/ task' = [task EXCEPT !.todo = @ \ {w}]
               \/ task' = [[task EXCEPT !.todo = @ \ {w}] EXCEPT !.pc = "launch", !.now = {w}]
        PROVE  task' \in Tasks
    <3> DEFINE left == [task EXCEPT !.todo = @ \ {w}]
    <3>1. left \in Tasks
      BY FieldTypes DEF Tasks
    <3>2. [left EXCEPT !.pc = "launch", !.now = {w}] \in Tasks
      <4>1. w \in Workers
        BY FieldTypes
      <4> HIDE DEF left
      <4> QED
        BY <3>1, <4>1, SomePcs DEF Tasks
    <3> QED
      BY <2>2, <3>1, <3>2
  <2> QED
    BY <1>13, <2>1, <2>2 DEF Claim
<1>14. CASE Launch
  BY <1>14, StepType, SomePcs DEF Launch
<1>15. CASE SettleReturn
  BY <1>15 DEF SettleReturn, Step, Tasks, Pcs, Answers
<1>16. CASE LiftCancel
  BY <1>16, IdleType DEF LiftCancel
<1>17. CASE Look
  BY <1>17 DEF Look, Idle, Tasks, Running, Pcs, Answers
<1>18. CASE Reconcile
  BY <1>18 DEF Reconcile
<1>19. CASE RecoverInterrupted
  BY <1>19 DEF RecoverInterrupted
<1>20. CASE LiftLook
  BY <1>20 DEF LiftLook, Idle, Tasks, Pcs, Answers
<1>21. CASE Card
  BY <1>21 DEF Card, Idle, Tasks, Running, Pcs, Answers
<1>22. CASE PackageCurrent
  BY <1>22 DEF PackageCurrent
<1>23. CASE PackageLock
  BY <1>23 DEF PackageLock
<1>24. CASE PackageDrain
  BY <1>24 DEF PackageDrain
<1>25. CASE PackageCensus
  BY <1>25 DEF PackageCensus
<1>26. CASE PackageRefuse
  BY <1>26 DEF PackageRefuse
<1>27. CASE PackageSwap
  BY <1>27 DEF PackageSwap
<1>28. CASE Crash
  BY <1>28, IdleType DEF Crash
<1>29. CASE PackageKilled
  BY <1>29 DEF PackageKilled
<1>30. ASSUME NEW w \in Workers, Revive(w) PROVE task' \in Tasks
  BY <1>30 DEF Revive, Idle, Tasks, Pcs, Answers
<1>31. ASSUME NEW w \in Workers, AutostartWorker(w) PROVE task' \in Tasks
  BY <1>31 DEF AutostartWorker
<1>32. ASSUME NEW w \in Workers, OperatorStart(w) PROVE task' \in Tasks
  BY <1>32 DEF OperatorStart
<1>33. ASSUME NEW w \in Workers, Sleep(w) PROVE task' \in Tasks
  BY <1>33 DEF Sleep
<1>34. ASSUME NEW w \in Workers, Exit(w) PROVE task' \in Tasks
  BY <1>34 DEF Exit
<1>35. CASE UNCHANGED vars
  BY <1>35 DEF vars
<1> QED
  BY <1>1, <1>2, <1>3, <1>4, <1>5, <1>6, <1>7, <1>8, <1>9, <1>10, <1>11,
     <1>12, <1>13, <1>14, <1>15, <1>16, <1>17, <1>18, <1>19, <1>20, <1>21,
     <1>22, <1>23, <1>24, <1>25, <1>26, <1>27, <1>28, <1>29, <1>30, <1>31,
     <1>32, <1>33, <1>34, <1>35
  DEF Next, Attempt, Supervisor, Operator, PackageStep, Environment

\* Everything but the task.
LEMMA NextWorld == TypeOK /\ [Next]_vars => WorldTypes'
<1> SUFFICES ASSUME WorldTypes, task \in Tasks, [Next]_vars PROVE WorldTypes'
  BY DEF TypeOK
<1>0. Faulted => faults' \in 0..MaxFaults
  BY EngineUpdateAssumption DEF WorldTypes, Faulted
<1> USE DEF WorldTypes, engine, memory, bounds, package_frame
<1>1. CASE BeginDrain
  BY <1>1, <1>0 DEF BeginDrain
<1>2. CASE Record
  BY <1>2, <1>0 DEF Record
<1>3. CASE Admit
  BY <1>3, <1>0, FieldTypes DEF Admit, AdmitAnswered, AdmitLost, Asked, Stop
<1>4. CASE Relist
  BY <1>4, <1>0 DEF Relist
<1>5. CASE Settle
  BY <1>5 DEF Settle
<1>6. CASE SetAside
  BY <1>6, <1>0, FieldTypes DEF SetAside, Stop
<1>7. CASE CancelDrain
  BY <1>7, <1>0 DEF CancelDrain
<1>8. CASE Withdraw
  BY <1>8 DEF Withdraw, WithdrawAllBut
<1>9. CASE Release
  BY <1>9 DEF Release
<1>10. CASE CardStop
  BY <1>10, <1>0, FieldTypes DEF CardStop, Stop
<1>11. CASE Ask
  BY <1>11, <1>0 DEF Ask
<1>12. CASE Await
  BY <1>12 DEF Await
<1>13. CASE Claim
  BY <1>13 DEF Claim
<1>14. CASE Launch
  <2>1. PICK w \in task.now :
           /\ session' \in {session, Reconciled, [Reconciled EXCEPT ![w] = "running"]}
           /\ strays' \in {strays, strays \cup {w}}
           /\ taken' \in {taken, taken \ {w}}
           /\ faults' = faults \/ Faulted
    BY <1>14 DEF Launch
  <2>2. w \in Workers
    BY FieldTypes
  <2>3. Reconciled \in [Workers -> {"none", "running", "dead"}]
    BY DEF Reconciled
  <2>4. [Reconciled EXCEPT ![w] = "running"] \in [Workers -> {"none", "running", "dead"}]
    BY <2>3
  <2>5. session' \in [Workers -> {"none", "running", "dead"}]
    BY <2>1, <2>3, <2>4
  <2>6. strays' \subseteq Workers /\ taken' \subseteq Workers /\ faults' \in 0..MaxFaults
    BY <1>0, <2>1, <2>2
  <2>7. UNCHANGED <<behind, draining, promise, row, request, restarted, package, crashes>>
    BY <1>14 DEF Launch
  <2> QED
    BY <2>5, <2>6, <2>7
<1>15. CASE SettleReturn
  BY <1>15 DEF SettleReturn, Answers, Outcome
<1>16. CASE LiftCancel
  BY <1>16, <1>0 DEF LiftCancel
<1>17. CASE Look
  BY <1>17 DEF Look
<1>18. CASE Reconcile
  BY <1>18 DEF Reconcile, Reconciled
<1>19. CASE RecoverInterrupted
  BY <1>19 DEF RecoverInterrupted
<1>20. CASE LiftLook
  BY <1>20 DEF LiftLook
<1>21. CASE Card
  BY <1>21 DEF Card, Running
<1>22. CASE PackageCurrent
  BY <1>22 DEF PackageCurrent
<1>23. CASE PackageLock
  BY <1>23 DEF PackageLock
<1>24. CASE PackageDrain
  BY <1>24 DEF PackageDrain
<1>25. CASE PackageCensus
  BY <1>25 DEF PackageCensus
<1>26. CASE PackageRefuse
  BY <1>26, <1>0 DEF PackageRefuse
<1>27. CASE PackageSwap
  BY <1>27, <1>0 DEF PackageSwap
<1>28. CASE Crash
  BY <1>28, EngineUpdateAssumption DEF Crash
<1>29. CASE PackageKilled
  BY <1>29, EngineUpdateAssumption DEF PackageKilled
<1>30. ASSUME NEW w \in Workers, Revive(w) PROVE WorldTypes'
  BY <1>30 DEF Revive
<1>31. ASSUME NEW w \in Workers, AutostartWorker(w) PROVE WorldTypes'
  BY <1>31 DEF AutostartWorker, Reconciled
<1>32. ASSUME NEW w \in Workers, OperatorStart(w) PROVE WorldTypes'
  BY <1>32 DEF OperatorStart, Reconciled
<1>33. ASSUME NEW w \in Workers, Sleep(w) PROVE WorldTypes'
  BY <1>33 DEF Sleep
<1>34. ASSUME NEW w \in Workers, Exit(w) PROVE WorldTypes'
  BY <1>34 DEF Exit
<1>35. CASE UNCHANGED vars
  BY <1>35 DEF vars
<1> QED
  BY <1>1, <1>2, <1>3, <1>4, <1>5, <1>6, <1>7, <1>8, <1>9, <1>10, <1>11,
     <1>12, <1>13, <1>14, <1>15, <1>16, <1>17, <1>18, <1>19, <1>20, <1>21,
     <1>22, <1>23, <1>24, <1>25, <1>26, <1>27, <1>28, <1>29, <1>30, <1>31,
     <1>32, <1>33, <1>34, <1>35
  DEF Next, Attempt, Supervisor, Operator, PackageStep, Environment

-----------------------------------------------------------------------------
(* What an update stopped is owed.                                         *)

\* The returns this attempt recorded have not been withdrawn.
Recorded ==
    \/ task.pc \in {"admit", "relist", "settle", "aside", "withdraw"}
    \/ task.pc = "cancel" /\ task.then \in {"giveup", "partway"}

RunningAreBack == \A w \in taken : session[w] # "running"

ListedAreOwed == Recorded => \A w \in task.listed : promise[w] = "owed"

CardIsOwed == task.pc = "stops" => \A w \in task.todo : promise[w] = "owed"

HoldersAreListed == task.pc \in {"settle", "aside"} => task.todo \subseteq task.listed

\* The attempt knows whom it stopped: nobody before it asked; before its
\* answer those set aside; and, once it gives up, those the engine named too.
StoppedAreKnown ==
    \A w \in taken \cap task.listed :
        /\ task.pc \notin {"drain", "record"}
        /\ task.pc \in {"admit", "settle", "aside"} => w \in task.aside
        /\ Recorded /\ task.pc \in {"cancel", "withdraw"} =>
               w \in task.aside \cup task.stopped

ReturnedAreBack == task.pc = "returned" => task.now \cap taken = {}

LaunchesOne == task.pc = "launch" => \A v, w \in task.now : v = w

UpdateInv ==
    /\ StoppedAreOwed
    /\ RunningAreBack
    /\ ListedAreOwed
    /\ CardIsOwed
    /\ HoldersAreListed
    /\ StoppedAreKnown
    /\ ReturnedAreBack
    /\ LaunchesOne

\* Every step keeps what the attempt knows of the workers it stopped.
LEMMA NextInv == TypeOK /\ UpdateInv /\ [Next]_vars => UpdateInv'
<1> SUFFICES ASSUME TypeOK, UpdateInv, [Next]_vars PROVE UpdateInv'
  OBVIOUS
<1>0. /\ session \in [Workers -> {"none", "running", "dead"}]
      /\ promise \in [Workers -> {"none", "owed", "started", "failed", "unconfirmed"}]
      /\ task \in Tasks /\ taken \subseteq Workers
      /\ task.listed \subseteq Workers /\ task.todo \subseteq Workers
      /\ task.now \subseteq Workers
  BY FieldTypes DEF TypeOK, WorldTypes
<1> USE <1>0 DEF UpdateInv, StoppedAreOwed, RunningAreBack, ListedAreOwed, CardIsOwed,
      HoldersAreListed, StoppedAreKnown, ReturnedAreBack, LaunchesOne, Recorded, At,
      engine, memory, bounds, package_frame
<1>1. CASE BeginDrain
  <2>1. CASE task' = Step("record")
    <3>1. task'.pc = "record" /\ task'.listed = task.listed
      BY <2>1, StepFields
    <3> QED
      BY <1>1, <3>1 DEF BeginDrain
  <2>2. CASE task' = Idle
    BY <1>1, <2>2, IdleFields DEF BeginDrain
  <2> QED
    BY <1>1, <2>1, <2>2 DEF BeginDrain
<1>2. CASE Record
  <2>1. CASE task' = Ending("refuse") /\ UNCHANGED promise
    <3>1. task'.pc = "cancel" /\ task'.then = "refuse"
      BY <2>1, EndingFields
    <3> QED
      BY <1>2, <2>1, <3>1 DEF Record
  <2> DEFINE older == {w \in task.listed : promise[w] = "owed"}
  <2>2. ASSUME promise' = [w \in Workers |-> IF w \in task.listed THEN "owed" ELSE promise[w]],
               task' = [Step("admit") EXCEPT !.older = older]
        PROVE  UpdateInv'
    <3>2. task'.pc = "admit" /\ task'.listed = task.listed
      BY <2>2, StepType, SomePcs, StepFields, SetFields
    <3>3. taken \cap task.listed = {} /\ UNCHANGED <<session, taken>>
      BY <1>2 DEF Record
    <3> HIDE DEF older
    <3> QED
      BY <2>2, <3>2, <3>3
  <2> QED
    BY <1>2, <2>1, <2>2 DEF Record
<1>3. CASE Admit
  <2>1. /\ UNCHANGED promise
        /\ \A v \in taken \cap task.listed : v \in task.aside
        /\ \A v \in task.listed : promise[v] = "owed"
    BY <1>3 DEF Admit
  <2>2. CASE Asked = {} /\ task' = [Step("release") EXCEPT !.then = "ask"]
                        /\ UNCHANGED <<session, taken>>
    <3>1. task'.pc = "release"
      BY <2>2, StepType, SomePcs, StepFields, SetFields
    <3> QED
      BY <2>1, <2>2, <3>1
  <2>3. CASE task' = Ending("giveup") /\ UNCHANGED <<session, taken>>
    <3>1. /\ task'.pc = "cancel" /\ task'.listed = task.listed
          /\ task'.aside = task.aside
      BY <2>3, EndingFields
    <3> QED
      BY <2>1, <2>3, <3>1
  <2>4. ASSUME NEW holders \in SUBSET Asked,
               task' = [Step("settle") EXCEPT !.todo = holders],
               UNCHANGED <<session, taken>>
        PROVE  UpdateInv'
    <3>1. /\ task'.pc = "settle" /\ task'.listed = task.listed
          /\ task'.aside = task.aside /\ task'.todo = holders
      BY <2>4, StepType, SomePcs, StepFields, SetFields
    <3>2. holders \subseteq task.listed
      BY DEF Asked
    <3> QED
      BY <2>1, <2>4, <3>1, <3>2
  <2>5. CASE Stop(Asked) /\ task' = [Step("release") EXCEPT !.then = "ask", !.stopped = Asked]
    <3>1. task'.pc = "release"
      BY <2>5, StepType, SomePcs, StepFields, SetFields
    <3>2. Asked \subseteq task.listed
      BY DEF Asked
    <3> QED
      BY <2>1, <2>5, <3>1, <3>2 DEF Stop
  <2>6. ASSUME NEW stopped \in SUBSET Asked, Stop(stopped),
               task' = [Ending("partway") EXCEPT !.stopped = stopped]
        PROVE  UpdateInv'
    <3>1. /\ task'.pc = "cancel" /\ task'.listed = task.listed
          /\ task'.aside = task.aside /\ task'.stopped = stopped
      BY <2>6, EndingType, EndingFields, SetFields
    <3>2. stopped \subseteq task.listed
      BY DEF Asked
    <3> QED
      BY <2>1, <2>6, <3>1, <3>2 DEF Stop
  <2>7. ASSUME task' = Step("relist"),
               \/ \E stopped \in SUBSET Asked : Stop(stopped)
               \/ UNCHANGED <<session, taken>>
        PROVE  UpdateInv'
    <3>1. task'.pc = "relist" /\ task'.listed = task.listed
      BY <2>7, StepFields
    <3>2. CASE UNCHANGED <<session, taken>>
      BY <2>1, <3>1, <3>2
    <3>3. ASSUME NEW stopped \in SUBSET Asked, Stop(stopped)
          PROVE  UpdateInv'
      <4>1. stopped \subseteq task.listed
        BY DEF Asked
      <4> QED
        BY <2>1, <3>1, <3>3, <4>1 DEF Stop
    <3> QED
      BY <2>7, <3>2, <3>3
  <2> QED
    BY <1>3, <2>2, <2>3, <2>4, <2>5, <2>6, <2>7 DEF Admit, AdmitAnswered, AdmitLost
<1>4. CASE Relist
  <2> DEFINE S == Asked \ Running
  <2>1. UNCHANGED <<session, promise, taken>> /\ Recorded
    BY <1>4 DEF Relist
  <2>2. \A v \in taken \cap task.listed : v \in task.aside \/ v \in S
    BY DEF Asked, Running
  <2> HIDE DEF S
  <2>3. CASE task' = Ending("giveup") /\ S = {}
    <3>1. /\ task'.pc = "cancel" /\ task'.listed = task.listed
          /\ task'.aside = task.aside
      BY <2>3, EndingFields
    <3> QED
      BY <2>1, <2>2, <2>3, <3>1
  <2>4. CASE task' = [Step("release") EXCEPT !.then = "ask", !.stopped = S]
    <3>1. task'.pc = "release"
      BY <2>4, StepType, SomePcs, StepFields, SetFields
    <3> QED
      BY <2>1, <3>1
  <2>5. CASE task' = [Ending("partway") EXCEPT !.stopped = S]
    <3>1. /\ task'.pc = "cancel" /\ task'.listed = task.listed
          /\ task'.aside = task.aside /\ task'.stopped = S
      BY <2>5, EndingType, EndingFields, SetFields
    <3> QED
      BY <2>1, <2>2, <3>1
  <2>6. CASE task' = Ending("refuse")
    <3>1. task'.pc = "cancel" /\ task'.then = "refuse"
      BY <2>6, EndingFields
    <3> QED
      BY <2>1, <3>1
  <2> QED
    BY <1>4, <2>3, <2>4, <2>5, <2>6 DEF Relist, S
<1>5. CASE Settle
  <2>1. UNCHANGED <<session, promise, taken>> /\ At("settle")
    BY <1>5 DEF Settle
  <2>2. CASE task' = Ending("giveup")
    <3>1. /\ task'.pc = "cancel" /\ task'.listed = task.listed
          /\ task'.aside = task.aside
      BY <2>2, EndingFields
    <3> QED
      BY <2>1, <3>1
  <2>3. CASE task' = Step("aside")
    <3>1. /\ task'.pc = "aside" /\ task'.listed = task.listed
          /\ task'.aside = task.aside /\ task'.todo = task.todo
      BY <2>3, StepFields
    <3> QED
      BY <2>1, <3>1
  <2> QED
    BY <1>5, <2>2, <2>3 DEF Settle
<1>6. CASE SetAside
  <2>1. UNCHANGED promise /\ At("aside")
    BY <1>6 DEF SetAside
  <2>2. ASSUME NEW w \in task.todo,
               session' = [session EXCEPT ![w] = "none"],
               taken' = taken \cup {w},
               task' = [task EXCEPT !.aside = task.aside \cup {w},
                          !.todo = task.todo \ {w},
                          !.pc = IF task.todo \ {w} = {} THEN "admit" ELSE "aside"]
        PROVE  UpdateInv'
    <3>1. /\ task'.pc \in {"admit", "aside"} /\ task'.listed = task.listed
          /\ task'.aside = task.aside \cup {w} /\ task'.todo = task.todo \ {w}
      BY <2>2 DEF Tasks
    <3>2. w \in task.listed
      BY <2>1
    <3> QED
      BY <2>1, <2>2, <3>1, <3>2
  <2>3. ASSUME NEW w \in task.todo,
               UNCHANGED <<session, taken>> \/ Stop({w}),
               task' = [Ending("giveup") EXCEPT !.aside = task.aside \cup {w}]
        PROVE  UpdateInv'
    <3>1. /\ task'.pc = "cancel" /\ task'.listed = task.listed
          /\ task'.aside = task.aside \cup {w}
      BY <2>3, EndingType, EndingFields, SetFields
    <3>2. w \in task.listed
      BY <2>1
    <3> QED
      BY <2>1, <2>3, <3>1, <3>2 DEF Stop
  <2> QED
    BY <1>6, <2>2, <2>3 DEF SetAside
<1>7. CASE CancelDrain
  BY <1>7 DEF CancelDrain, Step, Idle
<1>8. CASE Withdraw
  BY <1>8 DEF Withdraw, WithdrawAllBut, Step, Idle
<1>9. CASE Release
  <2>1. /\ UNCHANGED <<promise, taken>>
        /\ \A v \in Workers : session'[v] = "running" => session[v] = "running"
    BY <1>9 DEF Release
  <2>2. CASE task' = Idle
    BY <2>1, <2>2, IdleFields
  <2>3. CASE task' = [Idle EXCEPT !.pc = "ask", !.then = "abandon"]
    <3>1. task'.pc = "ask"
      BY <2>3, IdleType DEF Tasks
    <3>2. task'.listed = {}
      BY <2>3, IdleType, IdleFields DEF Tasks
    <3> QED
      BY <2>1, <3>1, <3>2
  <2> QED
    BY <1>9, <2>2, <2>3 DEF Release
<1>10. CASE CardStop
  <2>1. UNCHANGED promise /\ At("stops")
    BY <1>10 DEF CardStop
  <2>2. ASSUME NEW w \in task.todo,
               session' = [session EXCEPT ![w] = "none"],
               taken' = taken \cup {w},
               task' = [task EXCEPT !.todo = @ \ {w}]
        PROVE  UpdateInv'
    <3>1. /\ task'.pc = "stops" /\ task'.listed = task.listed
          /\ task'.todo = task.todo \ {w}
      BY <2>1, <2>2, SetFields
    <3> QED
      BY <2>1, <2>2, <3>1
  <2>3. CASE task' = [Step("ask") EXCEPT !.todo = {}] /\ UNCHANGED <<session, taken>>
    <3>1. task'.pc = "ask" /\ task'.listed = task.listed
      BY <2>3, StepType, SomePcs, StepFields, SetFields
    <3> QED
      BY <2>1, <2>3, <3>1
  <2>4. CASE task' = Idle /\ UNCHANGED <<session, taken>>
    BY <2>1, <2>4, IdleFields
  <2>5. ASSUME NEW w \in task.todo, Stop({w}), task' = Idle
        PROVE  UpdateInv'
    BY <2>1, <2>5, IdleFields DEF Stop
  <2> QED
    BY <1>10, <2>2, <2>3, <2>4, <2>5 DEF CardStop
<1>11. CASE Ask
  <2>1. UNCHANGED <<session, promise, taken>> /\ At("ask")
    BY <1>11 DEF Ask
  <2>2. CASE task' = Step("await")
    <3>1. task'.pc = "await"
      BY <2>2, StepFields
    <3> QED
      BY <2>1, <3>1
  <2>3. CASE task' = Idle
    BY <2>1, <2>3, IdleFields
  <2>4. CASE task' = Ending("abandon")
    <3>1. task'.pc = "cancel" /\ task'.then = "abandon"
      BY <2>4, EndingFields
    <3> QED
      BY <2>1, <3>1
  <2> QED
    BY <1>11, <2>2, <2>3, <2>4 DEF Ask
<1>12. CASE Await
  BY <1>12 DEF Await, Idle
<1>13. CASE Claim
  <2>1. UNCHANGED <<session, taken>> /\ At("claim")
    BY <1>13 DEF Claim
  <2>2. CASE task' = Idle /\ UNCHANGED promise
    BY <2>1, <2>2, IdleFields
  <2>3. ASSUME NEW w \in task.todo,
               \/ task' = [task EXCEPT !.todo = @ \ {w}] /\ UNCHANGED promise
               \/ /\ task' = [[task EXCEPT !.todo = @ \ {w}] EXCEPT !.pc = "launch", !.now = {w}]
                  /\ promise' = [promise EXCEPT ![w] = "started"]
        PROVE  UpdateInv'
    <3> DEFINE left == [task EXCEPT !.todo = @ \ {w}]
    <3>1. left \in Tasks /\ left.pc = "claim" /\ left.listed = task.listed
      <4>1. left = [task EXCEPT !.todo = task.todo \ {w}]
        BY DEF Tasks
      <4>2. task.todo \ {w} \in SUBSET Workers
        OBVIOUS
      <4>3. left \in Tasks
        BY <4>1, <4>2, SetTypes
      <4>4. left.pc = task.pc /\ left.listed = task.listed
        BY <4>1, SetFields
      <4> QED
        BY <2>1, <4>3, <4>4
    <3>2. /\ [left EXCEPT !.pc = "launch", !.now = {w}].pc = "launch"
          /\ [left EXCEPT !.pc = "launch", !.now = {w}].listed = left.listed
      <4> HIDE DEF left
      <4> QED
        BY <3>1 DEF Tasks
    <3>3. task'.pc \in {"claim", "launch"} /\ task'.listed = task.listed
      BY <2>3, <3>1, <3>2
    <3>5. task'.pc = "launch" => task'.now = {w}
      <4>1. CASE task' = left
        BY <3>1, <4>1
      <4>2. CASE task' # left
        <5>1. task' = [left EXCEPT !.pc = "launch", !.now = {w}]
          BY <2>3, <4>2
        <5> HIDE DEF left
        <5> QED
          BY <3>1, <5>1 DEF Tasks
      <4> QED
        BY <4>1, <4>2
    <3>4. \A v \in Workers : promise[v] # "none" => promise'[v] # "none"
      BY <2>3
    <3> QED
      BY <2>1, <3>3, <3>4, <3>5
  <2> QED
    BY <1>13, <2>2, <2>3 DEF Claim
<1>14. CASE Launch
  <2>1. PICK w \in task.now :
            \/ /\ session[w] = "running" /\ session' = Reconciled
               /\ task' = Step("returned") /\ UNCHANGED taken
            \/ /\ session' = [Reconciled EXCEPT ![w] = "running"]
               /\ taken' = taken \ {w} /\ task' = Step("returned")
            \/ /\ session' \in {session, Reconciled} /\ UNCHANGED taken
               /\ task' \in {Step("refused"), Step("unsure")}
    BY <1>14 DEF Launch
  <2>2. UNCHANGED promise /\ At("launch") /\ w \in Workers /\ task.now = {w}
    BY <1>14, <2>1 DEF Launch
  <2>3. task'.pc \in Answers /\ task'.listed = task.listed /\ task'.now = task.now
    BY <2>1, StepFields DEF Answers
  <2>4. \A v \in Workers : Reconciled[v] = "running" => session[v] = "running"
    BY DEF Reconciled
  <2>5. task'.pc = "returned" => w \notin taken'
    BY <2>1, StepFields
  <2>6. \A v \in taken' : v \in taken /\ session'[v] # "running"
    BY <2>1, <2>4 DEF Reconciled
  <2> QED
    BY <2>2, <2>3, <2>5, <2>6 DEF Answers
<1>15. CASE SettleReturn
  BY <1>15 DEF SettleReturn, Step, Answers, Outcome
<1>16. CASE LiftCancel
  BY <1>16 DEF LiftCancel, Idle
<1>17. CASE Look
  BY <1>17 DEF Look, Idle, Running
<1>18. CASE Reconcile
  BY <1>18 DEF Reconcile, Reconciled
<1>19. CASE RecoverInterrupted
  BY <1>19 DEF RecoverInterrupted
<1>20. CASE LiftLook
  BY <1>20 DEF LiftLook, Idle
<1>21. CASE Card
  BY <1>21 DEF Card, Idle, Running
<1>22. CASE PackageCurrent
  BY <1>22 DEF PackageCurrent
<1>23. CASE PackageLock
  BY <1>23 DEF PackageLock
<1>24. CASE PackageDrain
  BY <1>24 DEF PackageDrain
<1>25. CASE PackageCensus
  BY <1>25 DEF PackageCensus
<1>26. CASE PackageRefuse
  BY <1>26 DEF PackageRefuse
<1>27. CASE PackageSwap
  BY <1>27 DEF PackageSwap
<1>28. CASE Crash
  BY <1>28 DEF Crash, Idle
<1>29. CASE PackageKilled
  BY <1>29 DEF PackageKilled
<1>30. ASSUME NEW w \in Workers, Revive(w) PROVE UpdateInv'
  BY <1>30 DEF Revive, Idle
<1>31. ASSUME NEW w \in Workers, AutostartWorker(w) PROVE UpdateInv'
  BY <1>31 DEF AutostartWorker, Reconciled
<1>32. ASSUME NEW w \in Workers, OperatorStart(w) PROVE UpdateInv'
  BY <1>32 DEF OperatorStart, Reconciled
<1>33. ASSUME NEW w \in Workers, Sleep(w) PROVE UpdateInv'
  BY <1>33 DEF Sleep
<1>34. ASSUME NEW w \in Workers, Exit(w) PROVE UpdateInv'
  BY <1>34 DEF Exit
<1>35. CASE UNCHANGED vars
  BY <1>35 DEF vars
<1> QED
  BY <1>1, <1>2, <1>3, <1>4, <1>5, <1>6, <1>7, <1>8, <1>9, <1>10, <1>11,
     <1>12, <1>13, <1>14, <1>15, <1>16, <1>17, <1>18, <1>19, <1>20, <1>21,
     <1>22, <1>23, <1>24, <1>25, <1>26, <1>27, <1>28, <1>29, <1>30, <1>31,
     <1>32, <1>33, <1>34, <1>35
  DEF Next, Attempt, Supervisor, Operator, PackageStep, Environment
-----------------------------------------------------------------------------
(* The specification.                                                      *)

\* The initial states have the types.
LEMMA InitTypes == Init => TypeOK
<1> SUFFICES ASSUME Init PROVE TypeOK
  OBVIOUS
<1>1. task \in Tasks
  BY IdleType DEF Init
<1>2. faults \in 0..MaxFaults /\ crashes \in 0..MaxCrashes
  BY EngineUpdateAssumption DEF Init
<1>3. session \in [Workers -> {"none", "running", "dead"}]
  BY DEF Init
<1>4. promise \in [Workers -> {"none", "owed", "started", "failed", "unconfirmed"}]
  BY DEF Init
<1> QED
  BY <1>1, <1>2, <1>3, <1>4 DEF Init, TypeOK, WorldTypes

\* Initially no update has stopped anyone.
LEMMA InitInv == Init => UpdateInv
<1> SUFFICES ASSUME Init PROVE UpdateInv
  OBVIOUS
<1>1. taken = {} /\ task = Idle
  BY DEF Init
<1>2. task.pc = "idle"
  BY <1>1, IdleFields
<1> QED
  BY <1>1, <1>2 DEF UpdateInv, StoppedAreOwed, RunningAreBack, ListedAreOwed, CardIsOwed,
     HoldersAreListed, StoppedAreKnown, ReturnedAreBack, LaunchesOne, Recorded

\* Through every step of both update routes, the supervisor, the package and
\* the restarts, the update's state keeps its types: an attempt's lists name
\* only workers, and its progress is one of the steps advance writes.
THEOREM UpdateTypes == Spec => []TypeOK
<1>1. TypeOK /\ [Next]_vars => TypeOK'
  BY NextTask, NextWorld DEF TypeOK
<1> QED
  BY InitTypes, <1>1, PTL DEF Spec

\* The inductive invariant: what advance and bring_back know, at each of
\* their steps, of the workers stopped so far.
THEOREM UpdateInvariant == Spec => []UpdateInv
<1>1. TypeOK /\ UpdateInv /\ [Next]_vars => UpdateInv'
  BY NextInv
<1> QED
  BY InitInv, UpdateTypes, <1>1, PTL DEF Spec

\* No worker an update stopped is forgotten: until it runs again or is put to
\* sleep, its return is on record, whatever answers were lost and wherever
\* the API was restarted (stopped_partway, answer_lost, give_up, withdraw).
THEOREM StoppedWorkersAreOwed == Spec => []StoppedAreOwed
<1>1. UpdateInv => StoppedAreOwed
  BY DEF UpdateInv
<1> QED
  BY UpdateInvariant, <1>1, PTL

-----------------------------------------------------------------------------
(* A return never doubles a start that went unanswered.                    *)

Returning == task.pc \in {"claim", "launch"} \cup Answers

\* On a current engine nobody with a stray process is owed a return.
StraysNotOwed == ~behind => \A w \in strays : promise[w] # "owed"

\* An attempt records returns only when there are no strays, and gets none
\* before it starts somebody.
NoStraysRecorded == Recorded => strays = {}

\* Nobody who is still to be brought back has a stray process.
NoStraysToReturn == Returning => task.todo \cap strays = {}

\* The worker about to be started has not been started, and is not started
\* again by the same task.
LaunchFresh ==
    At("launch") =>
        /\ task.now \cap strays = {} /\ task.now \cap task.todo = {}
        /\ \A w \in task.now : promise[w] = "started"

StraysInv == StraysNotOwed /\ NoStraysRecorded /\ NoStraysToReturn /\ LaunchFresh

\* A task that brings nobody back cannot break it but by owing a stray.
LEMMA StraysFollow ==
  ASSUME StraysInv, strays' \subseteq strays,
         \A w \in strays' : promise'[w] = "owed" => promise[w] = "owed",
         UNCHANGED behind, ~Returning', Recorded' => Recorded
  PROVE  StraysInv'
BY DEF StraysInv, StraysNotOwed, NoStraysRecorded, NoStraysToReturn, LaunchFresh,
       Returning, At

\* Nor can a step of somebody else.
LEMMA StraysKept ==
  ASSUME StraysInv, strays' \subseteq strays, UNCHANGED <<promise, task>>,
         UNCHANGED behind \/ strays' = {}
  PROVE  StraysInv'
<1>1. UNCHANGED <<Recorded, Returning, At("launch")>>
  BY DEF Recorded, Returning, At
<1> QED
  BY <1>1 DEF StraysInv, StraysNotOwed, NoStraysRecorded, NoStraysToReturn, LaunchFresh

\* Nor can a step that leaves none, but for a start.
LEMMA StraysEmpty ==
  ASSUME strays' = {}, ~At("launch")'
  PROVE  StraysInv'
BY DEF StraysInv, StraysNotOwed, NoStraysRecorded, NoStraysToReturn, LaunchFresh

LEMMA AskFields == [Idle EXCEPT !.pc = "ask", !.then = "abandon"].pc = "ask"
BY DEF Idle

\* Every step keeps strays and returns apart.
LEMMA NextStrays == TypeOK /\ UpdateInv /\ StraysInv /\ [Next]_vars => StraysInv'
<1> SUFFICES ASSUME TypeOK, UpdateInv, StraysInv, [Next]_vars PROVE StraysInv'
  OBVIOUS
<1>0. /\ promise \in [Workers -> {"none", "owed", "started", "failed", "unconfirmed"}]
      /\ task \in Tasks /\ strays \subseteq Workers
      /\ task.todo \subseteq Workers /\ task.now \subseteq Workers
  BY FieldTypes DEF TypeOK, WorldTypes
<1> USE <1>0 DEF engine, memory, bounds, package_frame
<1>1. CASE BeginDrain
  <2>1. /\ UNCHANGED <<behind, promise>> /\ strays' \subseteq strays
        /\ task'.pc \in {"record", "idle"}
    BY <1>1, StepFields, IdleFields
       DEF BeginDrain
  <2>2. ~Returning' /\ ~Recorded'
    BY <2>1 DEF Returning, Recorded, Answers
  <2> QED
    BY <2>1, <2>2, StraysFollow
<1>2. CASE Record
  <2>1. CASE strays = {} /\ task'.pc = "admit"
    BY <1>2, <2>1
       DEF Record, StraysInv, StraysNotOwed, NoStraysRecorded, NoStraysToReturn,
           LaunchFresh, Returning, Answers, At
  <2>2. CASE task' = Ending("refuse") /\ UNCHANGED promise
    <3>1. ~Returning' /\ ~Recorded'
      BY <2>2, EndingFields DEF Returning, Recorded, Answers
    <3> QED
      BY <1>2, <2>2, <3>1, StraysFollow DEF Record
  <2> DEFINE older == {w \in task.listed : promise[w] = "owed"}
  <2>3. [Step("admit") EXCEPT !.older = older].pc = "admit"
    BY StepType, SomePcs, StepFields, SetFields
  <2> QED
    BY <1>2, <2>1, <2>2, <2>3 DEF Record
<1>3. CASE Admit
  <2>1. strays' = {} /\ task'.pc # "launch"
    <3>1. strays = {} /\ UNCHANGED strays
      BY <1>3 DEF Admit, StraysInv, NoStraysRecorded, Recorded, At
    <3>2. /\ \A S : [Step("settle") EXCEPT !.todo = S].pc = "settle"
          /\ \A S : [Step("release") EXCEPT !.then = "ask", !.stopped = S].pc = "release"
          /\ \A S : [Ending("partway") EXCEPT !.stopped = S].pc = "cancel"
          /\ [Step("release") EXCEPT !.then = "ask"].pc = "release"
          /\ Ending("giveup").pc = "cancel" /\ Step("relist").pc = "relist"
      BY StepType, EndingType, SomePcs, StepFields, EndingFields, SetFields
    <3>3. \/ task' = Ending("giveup") \/ task' = Step("relist")
          \/ task' = [Step("release") EXCEPT !.then = "ask"]
          \/ \E S : \/ task' = [Step("settle") EXCEPT !.todo = S]
                   \/ task' = [Step("release") EXCEPT !.then = "ask", !.stopped = S]
                   \/ task' = [Ending("partway") EXCEPT !.stopped = S]
      BY <1>3, Zenon DEF Admit, AdmitAnswered, AdmitLost
    <3>4. task'.pc \in {"settle", "release", "cancel", "relist"}
      <4>1. ASSUME NEW S, \/ task' = [Step("settle") EXCEPT !.todo = S]
                          \/ task' = [Step("release") EXCEPT !.then = "ask", !.stopped = S]
                          \/ task' = [Ending("partway") EXCEPT !.stopped = S]
            PROVE  task'.pc \in {"settle", "release", "cancel"}
        <5>1. /\ [Step("settle") EXCEPT !.todo = S].pc = "settle"
              /\ [Step("release") EXCEPT !.then = "ask", !.stopped = S].pc = "release"
              /\ [Ending("partway") EXCEPT !.stopped = S].pc = "cancel"
          BY <3>2, Zenon
        <5> QED
          BY <4>1, <5>1
      <4> QED
        BY <3>2, <3>3, <4>1
    <3> QED
      BY <3>1, <3>4
  <2> QED
    BY <2>1, StraysEmpty DEF At
<1>4. CASE Relist
  <2>1. strays' = {} /\ task'.pc # "launch"
    <3>1. strays = {} /\ UNCHANGED strays
      BY <1>4 DEF Relist, StraysInv, NoStraysRecorded, Recorded, At
    <3>2. /\ \A S : [Step("release") EXCEPT !.then = "ask", !.stopped = S].pc = "release"
          /\ \A S : [Ending("partway") EXCEPT !.stopped = S].pc = "cancel"
          /\ Ending("giveup").pc = "cancel" /\ Ending("refuse").pc = "cancel"
      BY StepType, EndingType, SomePcs, StepFields, EndingFields, SetFields
    <3>3. task'.pc \in {"release", "cancel"}
      BY <1>4, <3>2 DEF Relist
    <3> QED
      BY <3>1, <3>3
  <2> QED
    BY <2>1, StraysEmpty DEF At
<1>5. CASE Settle
  <2>1. strays' = {} /\ task'.pc # "launch"
    BY <1>5, StepFields, EndingFields DEF Settle, StraysInv, NoStraysRecorded, Recorded, At
  <2> QED
    BY <2>1, StraysEmpty DEF At
<1>6. CASE SetAside
  <2>1. strays' = {} /\ task'.pc # "launch"
    <3>1. strays = {} /\ UNCHANGED strays
      BY <1>6 DEF SetAside, StraysInv, NoStraysRecorded, Recorded, At
    <3>2. PICK w \in task.todo :
              \/ task' = [task EXCEPT !.aside = task.aside \cup {w},
                            !.todo = task.todo \ {w},
                            !.pc = IF task.todo \ {w} = {} THEN "admit" ELSE "aside"]
              \/ task' = [Ending("giveup") EXCEPT !.aside = task.aside \cup {w}]
      BY <1>6 DEF SetAside
    <3>3. [Ending("giveup") EXCEPT !.aside = task.aside \cup {w}].pc = "cancel"
      BY EndingType, EndingFields, SetFields
    <3>4. task'.pc \in {"admit", "aside", "cancel"}
      BY <3>2, <3>3 DEF Tasks
    <3> QED
      BY <3>1, <3>4
  <2> QED
    BY <2>1, StraysEmpty DEF At
<1>7. CASE CancelDrain
  <2>1. CASE task.then \in {"giveup", "partway"}
    <3>1. strays = {} /\ UNCHANGED strays /\ task'.pc = "withdraw"
      BY <1>7, <2>1, StepFields
         DEF CancelDrain, StraysInv, NoStraysRecorded, Recorded, At
    <3> QED
      BY <3>1, StraysEmpty DEF At
  <2>2. CASE task.then \notin {"giveup", "partway"}
    <3>1. task'.pc = "idle"
      BY <1>7, <2>2, IdleFields DEF CancelDrain
    <3>2. ~Returning' /\ ~Recorded'
      BY <3>1 DEF Returning, Recorded, Answers
    <3> QED
      BY <1>7, <3>2, StraysFollow DEF CancelDrain
  <2> QED
    BY <2>1, <2>2
<1>8. CASE Withdraw
  <2>1. strays' = {} /\ task'.pc # "launch"
    <3>1. Step("release").pc = "release" /\ [Idle EXCEPT !.pc = "claim", !.todo = task.aside].pc = "claim"
      BY StepFields DEF Idle
    <3> QED
      BY <1>8, <3>1 DEF Withdraw, WithdrawAllBut, StraysInv, NoStraysRecorded, Recorded, At
  <2> QED
    BY <2>1, StraysEmpty DEF At
<1>9. CASE Release
  <2>1. /\ UNCHANGED <<behind, promise>> /\ strays' \subseteq strays
        /\ task'.pc \in {"ask", "idle"}
    BY <1>9, IdleFields, AskFields
       DEF Release
  <2>2. ~Returning' /\ ~Recorded'
    BY <2>1 DEF Returning, Recorded, Answers
  <2> QED
    BY <2>1, <2>2, StraysFollow
<1>10. CASE CardStop
  <2>1. /\ UNCHANGED <<behind, promise>> /\ strays' \subseteq strays
        /\ task'.pc \in {"stops", "ask", "idle"}
    <3>1. /\ \A S : [task EXCEPT !.todo = S].pc = task.pc
          /\ [Step("ask") EXCEPT !.todo = {}].pc = "ask"
      BY StepType, SomePcs, StepFields, SetFields
    <3>2. \/ task' = Idle \/ task' = [Step("ask") EXCEPT !.todo = {}]
          \/ \E w \in task.todo : task' = [task EXCEPT !.todo = task.todo \ {w}]
      BY <1>10 DEF CardStop
    <3> QED
      BY <1>10, <3>1, <3>2, IdleFields DEF CardStop, At
  <2>2. ~Returning' /\ ~Recorded'
    BY <2>1 DEF Returning, Recorded, Answers
  <2> QED
    BY <2>1, <2>2, StraysFollow
<1>11. CASE Ask
  <2>1. /\ UNCHANGED <<behind, promise, strays>>
        /\ \/ task'.pc \in {"await", "idle"}
           \/ task'.pc = "cancel" /\ task'.then = "abandon"
    BY <1>11, IdleFields, StepFields, EndingFields DEF Ask
  <2>2. ~Returning' /\ ~Recorded'
    BY <2>1 DEF Returning, Recorded, Answers
  <2> QED
    BY <2>1, <2>2, StraysFollow
<1>12. CASE Await
  <2>1. /\ UNCHANGED <<behind, promise>> /\ strays' \subseteq strays
        /\ task'.pc \in {"idle"}
    BY <1>12, IdleFields
       DEF Await
  <2>2. ~Returning' /\ ~Recorded'
    BY <2>1 DEF Returning, Recorded, Answers
  <2> QED
    BY <2>1, <2>2, StraysFollow
<1>13. CASE Claim
  <2>1. CASE task.todo = {} /\ task' = Idle /\ UNCHANGED promise
    <3>1. ~Returning' /\ ~Recorded'
      BY <2>1, IdleFields DEF Returning, Recorded, Answers
    <3> QED
      BY <1>13, <2>1, <3>1, StraysFollow DEF Claim
  <2>2. ASSUME NEW w \in task.todo, promise[w] = "owed",
               promise' = [promise EXCEPT ![w] = "started"],
               task' = [[task EXCEPT !.todo = @ \ {w}] EXCEPT !.pc = "launch", !.now = {w}]
        PROVE  StraysInv'
    <3>1. /\ task'.pc = "launch" /\ task'.now = {w} /\ task'.todo = task.todo \ {w}
      <4> DEFINE left == [task EXCEPT !.todo = @ \ {w}]
      <4>1. left \in Tasks /\ left.todo = task.todo \ {w}
        BY DEF Tasks
      <4> HIDE DEF left
      <4> QED
        BY <2>2, <4>1 DEF Tasks, left
    <3>2. UNCHANGED <<behind, strays>> /\ w \in Workers /\ task.todo \cap strays = {}
      BY <1>13 DEF Claim, StraysInv, NoStraysToReturn, Returning, At
    <3> QED
      BY <2>2, <3>1, <3>2
         DEF StraysInv, StraysNotOwed, NoStraysRecorded, NoStraysToReturn,
             LaunchFresh, Returning, Recorded, Answers, At
  <2>3. ASSUME NEW w \in task.todo, task' = [task EXCEPT !.todo = @ \ {w}],
               UNCHANGED promise
        PROVE  StraysInv'
    <3>1. task'.pc = task.pc /\ task'.todo = task.todo \ {w}
      BY <2>3 DEF Tasks
    <3> QED
      BY <1>13, <2>3, <3>1
         DEF Claim, StraysInv, StraysNotOwed, NoStraysRecorded, NoStraysToReturn,
             LaunchFresh, Returning, Recorded, Answers, At
  <2> QED
    BY <1>13, <2>1, <2>2, <2>3 DEF Claim
<1>14. CASE Launch
  <2>1. /\ task'.pc \in Answers /\ task'.todo = task.todo /\ UNCHANGED <<behind, promise>>
        /\ strays' \subseteq strays \cup task.now
    BY <1>14, StepFields DEF Launch, Answers
  <2> QED
    BY <1>14, <2>1
       DEF Launch, StraysInv, StraysNotOwed, NoStraysRecorded, NoStraysToReturn,
             LaunchFresh, Returning, Recorded, Answers, At
<1>15. CASE SettleReturn
  <2>1. /\ task'.pc = "claim" /\ task'.todo = task.todo /\ UNCHANGED <<behind, strays>>
    <3>1. Step("claim") \in Tasks /\ Step("claim").pc = "claim"
          /\ Step("claim").todo = task.todo
      BY StepType, StepFields, SomePcs
    <3>2. task' = [Step("claim") EXCEPT !.now = {}]
      BY <1>15 DEF SettleReturn
    <3> QED
      BY <1>15, <3>1, <3>2 DEF SettleReturn, Tasks
  <2>2. \A w \in Workers : promise'[w] = "owed" => promise[w] = "owed"
    BY <1>15 DEF SettleReturn, Outcome, Answers
  <2> QED
    BY <1>15, <2>1, <2>2
       DEF SettleReturn, StraysInv, StraysNotOwed, NoStraysRecorded, NoStraysToReturn,
             LaunchFresh, Returning, Recorded, Answers, At
<1>16. CASE LiftCancel
  <2>1. /\ UNCHANGED <<behind, promise>> /\ strays' \subseteq strays
        /\ task'.pc \in {"idle"}
    BY <1>16, IdleFields
       DEF LiftCancel
  <2>2. ~Returning' /\ ~Recorded'
    BY <2>1 DEF Returning, Recorded, Answers
  <2> QED
    BY <2>1, <2>2, StraysFollow
<1>17. CASE Look
  <2>1. /\ UNCHANGED <<behind, promise>> /\ strays' \subseteq strays
        /\ task'.pc \in {"drain"}
    BY <1>17, IdleFields
       DEF Look, Idle
  <2>2. ~Returning' /\ ~Recorded'
    BY <2>1 DEF Returning, Recorded, Answers
  <2> QED
    BY <2>1, <2>2, StraysFollow
<1>18. CASE Reconcile
  <2>1. /\ task'.pc = "idle" /\ UNCHANGED <<behind, strays>>
        /\ \A v \in Workers : promise'[v] = "owed" => promise[v] = "owed"
    BY <1>18 DEF Reconcile, At
  <2>2. ~Returning' /\ ~Recorded'
    BY <2>1 DEF Returning, Recorded, Answers
  <2> QED
    BY <2>1, <2>2, StraysFollow
<1>19. CASE RecoverInterrupted
  <2>1. /\ task'.pc = "idle" /\ UNCHANGED <<behind, strays>>
        /\ \A v \in Workers : promise'[v] = "owed" => promise[v] = "owed"
    BY <1>19 DEF RecoverInterrupted, At
  <2>2. ~Returning' /\ ~Recorded'
    BY <2>1 DEF Returning, Recorded, Answers
  <2> QED
    BY <2>1, <2>2, StraysFollow
<1>20. CASE LiftLook
  <2>1. /\ UNCHANGED <<behind, promise>> /\ strays' \subseteq strays
        /\ task'.pc \in {"lift"}
    BY <1>20, IdleFields
       DEF LiftLook, Idle
  <2>2. ~Returning' /\ ~Recorded'
    BY <2>1 DEF Returning, Recorded, Answers
  <2> QED
    BY <2>1, <2>2, StraysFollow
<1>21. CASE Card
  <2>1. behind /\ UNCHANGED <<behind, strays>> /\ task'.pc = "stops"
    BY <1>21 DEF Card, Idle
  <2> QED
    BY <2>1
       DEF StraysInv, StraysNotOwed, NoStraysRecorded, NoStraysToReturn,
             LaunchFresh, Returning, Recorded, Answers, At
<1>22. CASE PackageCurrent
  BY <1>22, StraysKept DEF PackageCurrent
<1>23. CASE PackageLock
  BY <1>23, StraysKept DEF PackageLock
<1>24. CASE PackageDrain
  BY <1>24, StraysKept DEF PackageDrain
<1>25. CASE PackageCensus
  BY <1>25, StraysKept DEF PackageCensus
<1>26. CASE PackageRefuse
  BY <1>26, StraysKept DEF PackageRefuse
<1>27. CASE PackageSwap
  BY <1>27, StraysKept DEF PackageSwap
<1>29. CASE PackageKilled
  BY <1>29, StraysKept DEF PackageKilled
<1>28. CASE Crash
  <2>1. /\ UNCHANGED <<behind, promise>> /\ strays' \subseteq strays
        /\ task'.pc \in {"idle"}
    BY <1>28, IdleFields
       DEF Crash
  <2>2. ~Returning' /\ ~Recorded'
    BY <2>1 DEF Returning, Recorded, Answers
  <2> QED
    BY <2>1, <2>2, StraysFollow
<1>30. ASSUME NEW w \in Workers, Revive(w) PROVE StraysInv'
  <2>1. /\ task'.pc = "claim" /\ task'.todo = {w} /\ w \notin strays
        /\ UNCHANGED <<behind, strays, promise>>
    BY <1>30 DEF Revive, Idle, StraysInv, StraysNotOwed
  <2> QED
    BY <2>1
       DEF StraysInv, StraysNotOwed, NoStraysRecorded, NoStraysToReturn,
             LaunchFresh, Returning, Recorded, Answers, At
<1>31. ASSUME NEW w \in Workers, AutostartWorker(w) PROVE StraysInv'
  <2>1. /\ task'.pc = "idle" /\ UNCHANGED <<behind, strays>>
        /\ \A v \in Workers : promise'[v] = "owed" => promise[v] = "owed"
    BY <1>31 DEF AutostartWorker, At
  <2>2. ~Returning' /\ ~Recorded'
    BY <2>1 DEF Returning, Recorded, Answers
  <2> QED
    BY <2>1, <2>2, StraysFollow
<1>32. ASSUME NEW w \in Workers, OperatorStart(w) PROVE StraysInv'
  <2>1. /\ task'.pc = "idle" /\ UNCHANGED <<behind, strays>>
        /\ \A v \in Workers : promise'[v] = "owed" => promise[v] = "owed"
    BY <1>32 DEF OperatorStart, At
  <2>2. ~Returning' /\ ~Recorded'
    BY <2>1 DEF Returning, Recorded, Answers
  <2> QED
    BY <2>1, <2>2, StraysFollow
<1>33. ASSUME NEW w \in Workers, Sleep(w) PROVE StraysInv'
  <2>1. /\ task'.pc = "idle" /\ UNCHANGED <<behind, strays>>
        /\ \A v \in Workers : promise'[v] = "owed" => promise[v] = "owed"
    BY <1>33 DEF Sleep, At
  <2>2. ~Returning' /\ ~Recorded'
    BY <2>1 DEF Returning, Recorded, Answers
  <2> QED
    BY <2>1, <2>2, StraysFollow
<1>34. ASSUME NEW w \in Workers, Exit(w) PROVE StraysInv'
  BY <1>34, StraysKept DEF Exit
<1>35. CASE UNCHANGED vars
  BY <1>35, StraysKept DEF vars
<1> QED
  BY <1>1, <1>2, <1>3, <1>4, <1>5, <1>6, <1>7, <1>8, <1>9, <1>10, <1>11,
     <1>12, <1>13, <1>14, <1>15, <1>16, <1>17, <1>18, <1>19, <1>20, <1>21, <1>22,
     <1>23, <1>24, <1>25, <1>26, <1>27, <1>28, <1>29, <1>30, <1>31, <1>32, <1>33,
     <1>34, <1>35
  DEF Next, Attempt, Supervisor, Operator, PackageStep, Environment

\* No return starts a second process for a worker one of whose starts went
\* unanswered and did launch: its promise is held for the operator, and returns
\* are recorded only where there are no strays.
THEOREM ReturnsStartOneProcess == Spec => ReturnsStartOne
<1> DEFINE StartsOne == \A w \in strays :
              At("launch") => ~(session[w] # "running" /\ session'[w] = "running")
<1>1. Init => StraysInv
  BY IdleFields
     DEF Init, StraysInv, StraysNotOwed, NoStraysRecorded, NoStraysToReturn,
         LaunchFresh, Returning, Recorded, Answers, At
<1>2. TypeOK /\ UpdateInv /\ StraysInv /\ [Next]_vars => StraysInv'
  BY NextStrays
<1>3. TypeOK /\ StraysInv /\ [Next]_vars => StartsOne
  <2> SUFFICES ASSUME TypeOK, StraysInv, [Next]_vars, NEW w \in strays, At("launch"),
                      session[w] # "running", session'[w] = "running"
               PROVE  FALSE
    BY DEF StartsOne
  <2>1. /\ session \in [Workers -> {"none", "running", "dead"}]
        /\ w \in Workers /\ w \notin task.now
    BY DEF TypeOK, WorldTypes, StraysInv, LaunchFresh
  <2>2. CASE Launch
    BY <2>1, <2>2, FieldTypes DEF Launch, Reconciled, TypeOK
  <2>3. ASSUME NEW v \in Workers, Exit(v) PROVE FALSE
    BY <2>1, <2>3 DEF Exit
  <2>4. CASE PackageSwap
    BY <2>1, <2>4 DEF PackageSwap
  <2>5. CASE UNCHANGED session
    BY <2>5
  <2>6. Launch \/ PackageSwap \/ (\E v \in Workers : Exit(v)) \/ UNCHANGED session
    BY DEF Next, Attempt, Supervisor, Operator, PackageStep, Environment,
       BeginDrain, Record, Admit, Relist, Settle, SetAside, CancelDrain, Withdraw,
       WithdrawAllBut, Release, CardStop, Ask, Await, Claim, SettleReturn,
       LiftCancel, Look, Reconcile, RecoverInterrupted, LiftLook, Revive,
       AutostartWorker, Card, OperatorStart, Sleep, PackageCurrent, PackageLock,
       PackageDrain, PackageCensus, PackageRefuse, PackageKilled, Crash, At,
       Answers, engine, package_frame, vars
  <2> QED
    BY <2>2, <2>3, <2>4, <2>5, <2>6
<1>4. Spec => []TypeOK /\ []UpdateInv
  BY UpdateTypes, UpdateInvariant
<1> QED
  BY <1>1, <1>2, <1>3, <1>4, PTL DEF Spec, ReturnsStartOne

-----------------------------------------------------------------------------
(* What the returns promise: one start, and none after a start that failed *)
(* or came into doubt (module OwedReturn).                                 *)

\* The claim of whom the attempt is starting stands: nothing withdraws it,
\* recovers it or makes it anew before its outcome is written.
ClaimedAreStarted ==
    task.pc \in {"launch"} \cup Answers => \A w \in task.now : promise[w] = "started"

\* Only Claim leads to a launch, and only Launch to an answer.
LEMMA OnlyClaimLaunches ==
  ASSUME TypeOK, [Next]_vars
  PROVE  \/ Claim \/ Launch \/ UNCHANGED <<task, promise>>
         \/ task'.pc \notin {"launch"} \cup Answers
<1> DEFINE Elsewhere == task'.pc \notin {"launch"} \cup Answers
<1> SUFFICES ASSUME ~Claim, ~Launch, ~UNCHANGED <<task, promise>> PROVE Elsewhere
  OBVIOUS
<1>0. task \in Tasks
  BY DEF TypeOK
<1>1. \A pc : Step(pc).pc = pc
  BY <1>0, StepFields
<1>2. \A then : Ending(then).pc = "cancel"
  BY <1>0, EndingFields
<1>3. ASSUME NEW pc \in Pcs, NEW S \in SUBSET Workers
      PROVE  /\ [Step(pc) EXCEPT !.older = S].pc = pc
             /\ [Step(pc) EXCEPT !.todo = S].pc = pc
             /\ [Step(pc) EXCEPT !.now = S].pc = pc
             /\ [Step(pc) EXCEPT !.then = "ask"].pc = pc
             /\ [Step(pc) EXCEPT !.then = "ask", !.stopped = S].pc = pc
  <2>1. Step(pc) \in Tasks /\ Step(pc).pc = pc
    BY <1>0, <1>1, StepType
  <2>2. [Step(pc) EXCEPT !.now = S].pc = Step(pc).pc
    BY <2>1 DEF Tasks
  <2> QED
    BY <2>1, <2>2, SetFields
<1>4. ASSUME NEW S \in SUBSET Workers
      PROVE  /\ [Ending("partway") EXCEPT !.stopped = S].pc = "cancel"
             /\ [Ending("giveup") EXCEPT !.aside = S].pc = "cancel"
             /\ [task EXCEPT !.todo = S].pc = task.pc
  BY <1>0, EndingType, EndingFields, SetFields
<1>5. Asked \subseteq Workers /\ task.todo \subseteq Workers /\ task.aside \subseteq Workers
  BY <1>0, FieldTypes DEF Asked
<1> HIDE DEF Elsewhere
<1>6. ASSUME task'.pc \in {"idle", "record", "admit", "relist", "settle", "aside",
                           "cancel", "withdraw", "release", "stops", "ask", "await",
                           "claim", "drain", "lift"}
      PROVE  Elsewhere
  BY <1>6 DEF Elsewhere, Answers
<1>7. CASE BeginDrain \/ Await \/ LiftCancel \/ Crash
  BY <1>1, <1>6, <1>7, IdleFields DEF BeginDrain, Await, LiftCancel, Crash
<1>8. CASE Record
  <2> DEFINE older == {w \in task.listed : promise[w] = "owed"}
  <2>1. older \in SUBSET Workers
    BY <1>0, FieldTypes
  <2>2. [Step("admit") EXCEPT !.older = older].pc = "admit"
    BY <1>3, <2>1, SomePcs
  <2>3. task' \in {Ending("refuse"), [Step("admit") EXCEPT !.older = older]}
    BY <1>8 DEF Record
  <2> HIDE DEF older
  <2> QED
    BY <1>2, <1>6, <2>2, <2>3
<1>9. CASE Admit
  <2>1. CASE task' \in {[Step("release") EXCEPT !.then = "ask"], Ending("giveup"), Step("relist")}
    <3>1. /\ [Step("release") EXCEPT !.then = "ask"].pc = "release"
          /\ Ending("giveup").pc = "cancel" /\ Step("relist").pc = "relist"
      BY <1>0, StepType, SomePcs, StepFields, EndingFields, SetFields
    <3>2. task'.pc \in {"release", "cancel", "relist"}
      BY <2>1, <3>1
    <3> QED
      BY <1>6, <3>2
  <2>2. ASSUME NEW S \in SUBSET Asked,
               \/ task' = [Step("settle") EXCEPT !.todo = S]
               \/ task' = [Step("release") EXCEPT !.then = "ask", !.stopped = S]
               \/ task' = [Ending("partway") EXCEPT !.stopped = S]
        PROVE  Elsewhere
    <3>1. S \in SUBSET Workers
      BY <1>5
    <3>2. /\ [Step("settle") EXCEPT !.todo = S].pc = "settle"
          /\ [Step("release") EXCEPT !.then = "ask", !.stopped = S].pc = "release"
          /\ [Ending("partway") EXCEPT !.stopped = S].pc = "cancel"
      BY <1>3, <1>4, <3>1, SomePcs, Zenon
    <3>3. task'.pc \in {"settle", "release", "cancel"}
      BY <2>2, <3>2
    <3> QED
      BY <1>6, <3>3
  <2>3. Asked \in SUBSET Asked
    OBVIOUS
  <2> QED
    BY <1>9, <2>1, <2>2, <2>3 DEF Admit, AdmitAnswered, AdmitLost
<1>10. CASE Relist
  <2> DEFINE S == Asked \ Running
  <2>1. S \in SUBSET Workers
    BY <1>5
  <2>2. task' \in {Ending("giveup"), Ending("refuse"),
                   [Step("release") EXCEPT !.then = "ask", !.stopped = S],
                   [Ending("partway") EXCEPT !.stopped = S]}
    BY <1>10 DEF Relist
  <2> HIDE DEF S
  <2>3. /\ [Step("release") EXCEPT !.then = "ask", !.stopped = S].pc = "release"
        /\ [Ending("partway") EXCEPT !.stopped = S].pc = "cancel"
        /\ Ending("giveup").pc = "cancel" /\ Ending("refuse").pc = "cancel"
    BY <1>2, <1>3, <1>4, <2>1, SomePcs, Zenon
  <2>4. task'.pc \in {"release", "cancel"}
    BY <2>2, <2>3
  <2> QED
    BY <1>6, <2>4
<1>11. CASE Settle
  BY <1>1, <1>2, <1>6, <1>11 DEF Settle
<1>12. CASE SetAside
  <2>1. PICK w \in task.todo :
            \/ task' = [task EXCEPT !.aside = task.aside \cup {w},
                          !.todo = task.todo \ {w},
                          !.pc = IF task.todo \ {w} = {} THEN "admit" ELSE "aside"]
            \/ task' = [Ending("giveup") EXCEPT !.aside = task.aside \cup {w}]
    BY <1>12 DEF SetAside
  <2>2. task.aside \cup {w} \in SUBSET Workers
    BY <1>5
  <2>3. [Ending("giveup") EXCEPT !.aside = task.aside \cup {w}].pc = "cancel"
    BY <1>4, <2>2, Zenon
  <2>4. task'.pc \in {"admit", "aside", "cancel"}
    BY <1>0, <2>1, <2>3 DEF Tasks
  <2> QED
    BY <1>6, <2>4
<1>13. CASE CancelDrain
  BY <1>1, <1>6, <1>13, IdleFields DEF CancelDrain
<1>14. CASE Withdraw
  <2>1. [Idle EXCEPT !.pc = "claim", !.todo = task.aside].pc = "claim"
    BY DEF Idle
  <2> QED
    BY <1>1, <1>6, <1>14, <2>1 DEF Withdraw, WithdrawAllBut
<1>15. CASE Release
  BY <1>6, <1>15, IdleFields, AskFields DEF Release
<1>16. CASE CardStop
  <2>1. \/ task' = Idle \/ task' = [Step("ask") EXCEPT !.todo = {}]
        \/ \E w \in task.todo : task' = [task EXCEPT !.todo = task.todo \ {w}]
    BY <1>16 DEF CardStop
  <2>2. \A w \in task.todo : [task EXCEPT !.todo = task.todo \ {w}].pc = task.pc
    BY <1>0, SetFields
  <2>3. [Step("ask") EXCEPT !.todo = {}].pc = "ask"
    BY <1>3, SomePcs
  <2>4. task.pc = "stops"
    BY <1>16 DEF CardStop, At
  <2>5. task'.pc \in {"idle", "ask", "stops"}
    BY <2>1, <2>2, <2>3, <2>4, IdleFields
  <2> QED
    BY <1>6, <2>5
<1>17. CASE Ask
  BY <1>1, <1>2, <1>6, <1>17, IdleFields DEF Ask
<1>18. CASE SettleReturn
  BY <1>3, <1>6, <1>18, SomePcs DEF SettleReturn
<1>19. CASE Look \/ LiftLook \/ Card \/ \E w \in Workers : Revive(w)
  <2>1. task'.pc \in {"drain", "lift", "stops", "claim"}
    BY <1>19 DEF Look, LiftLook, Card, Revive, Idle
  <2> QED
    BY <1>6, <2>1
<1>20. CASE \/ RecoverInterrupted
            \/ \E w \in Workers : OperatorStart(w) \/ Sleep(w)
  BY <1>6, <1>20 DEF RecoverInterrupted, OperatorStart, Sleep, At, memory
<1>21. CASE \/ Reconcile \/ \E w \in Workers : AutostartWorker(w) \/ Exit(w)
  BY <1>21 DEF Reconcile, AutostartWorker, Exit, memory
<1>22. CASE PackageStep \/ PackageKilled
  BY <1>22 DEF PackageStep, PackageCurrent, PackageLock, PackageDrain, PackageCensus,
     PackageRefuse, PackageSwap, PackageKilled, package_frame, memory
<1>23. CASE UNCHANGED vars
  BY <1>23 DEF vars
<1> QED
  BY <1>7, <1>8, <1>9, <1>10, <1>11, <1>12, <1>13, <1>14, <1>15, <1>16, <1>17,
     <1>18, <1>19, <1>20, <1>21, <1>22, <1>23
  DEF Next, Attempt, Supervisor, Operator, Environment

\* The claim is written before the start, and every answer leaves it alone.
LEMMA NextClaimed == TypeOK /\ ClaimedAreStarted /\ [Next]_vars => ClaimedAreStarted'
<1> SUFFICES ASSUME TypeOK, ClaimedAreStarted, [Next]_vars PROVE ClaimedAreStarted'
  OBVIOUS
<1>0. /\ task \in Tasks /\ task.todo \subseteq Workers
      /\ promise \in [Workers -> {"none", "owed", "started", "failed", "unconfirmed"}]
  BY FieldTypes DEF TypeOK, WorldTypes
<1>1. CASE task'.pc \notin {"launch"} \cup Answers
  BY <1>1 DEF ClaimedAreStarted
<1>2. CASE Claim
  <2>1. CASE task' = Idle
    BY <1>1, <2>1, IdleFields DEF Answers
  <2>2. ASSUME NEW w \in task.todo, task' = [task EXCEPT !.todo = @ \ {w}]
        PROVE  ClaimedAreStarted'
    <3>1. task'.pc = "claim"
      BY <1>0, <1>2, <2>2 DEF Claim, At, Tasks
    <3> QED
      BY <1>1, <3>1 DEF Answers
  <2>3. ASSUME NEW w \in task.todo, promise' = [promise EXCEPT ![w] = "started"],
               task' = [[task EXCEPT !.todo = @ \ {w}] EXCEPT !.pc = "launch", !.now = {w}]
        PROVE  ClaimedAreStarted'
    <3>1. task'.now = {w}
      <4> DEFINE left == [task EXCEPT !.todo = @ \ {w}]
      <4>1. left \in Tasks
        BY <1>0 DEF Tasks
      <4>2. task' = [left EXCEPT !.pc = "launch", !.now = {w}]
        BY <2>3
      <4> HIDE DEF left
      <4> QED
        BY <4>1, <4>2 DEF Tasks
    <3>2. promise'[w] = "started"
      BY <1>0, <2>3
    <3> QED
      BY <3>1, <3>2 DEF ClaimedAreStarted
  <2> QED
    BY <1>2, <2>1, <2>2, <2>3 DEF Claim
<1>3. CASE Launch
  <2>1. At("launch") /\ UNCHANGED promise /\ task'.now = task.now
    BY <1>0, <1>3, StepFields DEF Launch
  <2> QED
    BY <2>1 DEF ClaimedAreStarted, At
<1>4. CASE UNCHANGED <<task, promise>>
  BY <1>4 DEF ClaimedAreStarted
<1> QED
  BY <1>1, <1>2, <1>3, <1>4, OnlyClaimLaunches

\* What a worker is owed is unchanged while it is neither stopped nor back and
\* its rows stay as they are.
LEMMA DueSame ==
  ASSUME UNCHANGED taken, \A w \in taken : promise'[w] = promise[w]
  PROVE  UNCHANGED DueOf
  BY DEF DueOf

\* Workers whose returns are on record are stopped.
LEMMA DueStopped ==
  ASSUME NEW S \in SUBSET Workers, taken' = taken \cup S, UNCHANGED promise,
         \A w \in S : promise[w] = "owed"
  PROVE  Returns!Next
<1> DEFINE T == S \ taken
<1>1. \A w \in T : DueOf[w] = "nothing"
  BY DEF DueOf
<1>2. DueOf' = [w \in Workers |-> IF w \in T THEN "owed" ELSE DueOf[w]]
  BY DEF DueOf
<1>3. T \in SUBSET Workers
  OBVIOUS
<1>4. Returns!StopFor(T)
  BY <1>1, <1>2 DEF Returns!StopFor
<1> QED
  BY <1>3, <1>4 DEF Returns!Next

\* A worker runs again, or sleeps.
LEMMA DueBack ==
  ASSUME NEW w \in Workers, taken' = taken \ {w},
         \A v \in taken \ {w} : promise'[v] = promise[v]
  PROVE  Returns!Next
<1>1. DueOf' = [DueOf EXCEPT ![w] = "nothing"]
  BY DEF DueOf
<1> QED
  BY <1>1 DEF Returns!Next, Returns!ComeBack

\* Claims come to nothing.
LEMMA DueFalls ==
  ASSUME NEW S \in SUBSET Workers, NEW how \in {"failed", "unconfirmed"},
         UNCHANGED taken, \A w \in S : promise[w] = "started",
         promise' = [w \in Workers |-> IF w \in S THEN how ELSE promise[w]]
  PROVE  Returns!Next
<1> DEFINE T == S \cap taken
<1>1. T \in SUBSET Workers /\ \A w \in T : DueOf[w] = "started"
  BY DEF DueOf
<1>2. DueOf' = [w \in Workers |-> IF w \in T THEN how ELSE DueOf[w]]
  BY DEF DueOf
<1>3. Returns!Fall(T, how)
  BY <1>1, <1>2 DEF Returns!Fall
<1> QED
  BY <1>1, <1>3 DEF Returns!Next

\* Every step of an attempt, the supervisor, the operator or the package is one
\* of the promise, or none.
LEMMA StepReturns ==
  ASSUME TypeOK, UpdateInv, ClaimedAreStarted, [Next]_vars
  PROVE  Returns!Next \/ UNCHANGED DueOf
<1> DEFINE Kept == Returns!Next \/ UNCHANGED DueOf
<1> SUFFICES Kept
  OBVIOUS
<1> HIDE DEF Kept
<1>0. /\ promise \in [Workers -> {"none", "owed", "started", "failed", "unconfirmed"}]
      /\ task \in Tasks /\ taken \subseteq Workers
      /\ task.listed \subseteq Workers /\ task.todo \subseteq Workers
      /\ task.now \subseteq Workers
  BY FieldTypes DEF TypeOK, WorldTypes
<1>1. ASSUME UNCHANGED <<promise, taken>> PROVE Kept
  BY <1>1, DueSame DEF Kept
<1>2. ASSUME NEW S \in SUBSET Workers, taken' = taken \cup S, UNCHANGED promise,
             \A w \in S : promise[w] = "owed"
      PROVE  Kept
  BY <1>2, DueStopped DEF Kept
<1>3. ASSUME UNCHANGED promise, NEW S \in SUBSET Workers, Stop(S) \/ UNCHANGED taken,
             \A w \in S : promise[w] = "owed"
      PROVE  Kept
  BY <1>1, <1>2, <1>3 DEF Stop
<1>4. CASE Record
  <2>1. taken \cap task.listed = {} /\ UNCHANGED taken
    BY <1>4 DEF Record, At, UpdateInv, StoppedAreKnown
  <2>2. \A w \in taken : promise'[w] = promise[w]
    BY <1>0, <1>4, <2>1 DEF Record
  <2> QED
    BY <2>1, <2>2, DueSame DEF Kept
<1>5. CASE Admit
  <2>1. UNCHANGED promise /\ \A w \in Asked : promise[w] = "owed"
    BY <1>5 DEF Admit, At, Asked, UpdateInv, ListedAreOwed, Recorded
  <2>2. Asked \in SUBSET Workers
    BY <1>0 DEF Asked
  <2>3. UNCHANGED taken \/ \E S \in SUBSET Asked : Stop(S)
    BY <1>5 DEF Admit, AdmitAnswered, AdmitLost
  <2>4. ASSUME NEW S \in SUBSET Asked, Stop(S) PROVE Kept
    BY <1>3, <2>1, <2>2, <2>4
  <2> QED
    BY <1>1, <2>1, <2>3, <2>4
<1>6. CASE SetAside
  <2>1. UNCHANGED promise /\ \A w \in task.todo : promise[w] = "owed"
    BY <1>6 DEF SetAside, At, UpdateInv, ListedAreOwed, HoldersAreListed, Recorded
  <2>2. PICK w \in task.todo : taken' = taken \cup {w} \/ UNCHANGED taken
    BY <1>6 DEF SetAside, Stop
  <2>3. CASE taken' = taken \cup {w}
    <3>1. {w} \in SUBSET Workers /\ \A v \in {w} : promise[v] = "owed"
      BY <1>0, <2>1
    <3> QED
      BY <1>2, <2>1, <2>3, <3>1
  <2> QED
    BY <1>1, <2>1, <2>2, <2>3
<1>7. CASE Withdraw
  <2>1. UNCHANGED taken /\ \A w \in taken \cap task.listed : w \in task.aside \cup task.stopped
    BY <1>7 DEF Withdraw, WithdrawAllBut, At, UpdateInv, StoppedAreKnown, Recorded
  <2>2. \A w \in taken : promise'[w] = promise[w]
    BY <1>0, <1>7, <2>1 DEF Withdraw, WithdrawAllBut
  <2> QED
    BY <2>1, <2>2, DueSame DEF Kept
<1>8. CASE Card
  <2>1. UNCHANGED taken /\ \A w \in taken : w \notin Running
    BY <1>8 DEF Card, Running, UpdateInv, RunningAreBack
  <2>2. \A w \in taken : promise'[w] = promise[w]
    BY <1>0, <1>8, <2>1 DEF Card
  <2> QED
    BY <2>1, <2>2, DueSame DEF Kept
<1>9. CASE CardStop
  <2>1. UNCHANGED promise /\ \A w \in task.todo : promise[w] = "owed"
    BY <1>9 DEF CardStop, At, UpdateInv, CardIsOwed
  <2>2. UNCHANGED taken \/ \E w \in task.todo : taken' = taken \cup {w}
    BY <1>9 DEF CardStop, Stop
  <2>3. ASSUME NEW w \in task.todo, taken' = taken \cup {w} PROVE Kept
    <3>1. {w} \in SUBSET Workers /\ \A v \in {w} : promise[v] = "owed"
      BY <1>0, <2>1
    <3> QED
      BY <1>2, <2>1, <2>3, <3>1
  <2> QED
    BY <1>1, <2>1, <2>2, <2>3
<1>10. CASE Claim
  <2>1. UNCHANGED taken
    BY <1>10 DEF Claim, bounds
  <2>2. ASSUME NEW w \in task.todo, promise[w] = "owed",
               promise' = [promise EXCEPT ![w] = "started"]
        PROVE  Kept
    <3>1. w \in Workers
      BY <1>0
    <3>2. CASE w \in taken
      <4>1. DueOf[w] = "owed"
        BY <2>2, <3>1, <3>2 DEF DueOf
      <4>2. DueOf' = [DueOf EXCEPT ![w] = "started"]
        BY <1>0, <2>1, <2>2, <3>1, <3>2 DEF DueOf
      <4> QED
        BY <3>1, <4>1, <4>2 DEF Kept, Returns!Next, Returns!Try
    <3>3. CASE w \notin taken
      <4>1. \A v \in taken : promise'[v] = promise[v]
        BY <1>0, <2>2, <3>3
      <4> QED
        BY <2>1, <4>1, DueSame DEF Kept
    <3> QED
      BY <3>2, <3>3
  <2> QED
    BY <1>1, <1>10, <2>1, <2>2 DEF Claim
<1>11. CASE Launch
  <2>1. PICK w \in task.now : UNCHANGED promise /\ (UNCHANGED taken \/ taken' = taken \ {w})
    BY <1>11 DEF Launch
  <2>2. CASE taken' = taken \ {w}
    BY <1>0, <2>1, <2>2, DueBack DEF Kept
  <2> QED
    BY <1>1, <2>1, <2>2
<1>12. CASE SettleReturn
  <2>1. /\ UNCHANGED taken /\ \A w \in task.now : promise[w] = "started"
        /\ promise' = [w \in Workers |-> IF w \in task.now THEN Outcome[task.pc]
                                         ELSE promise[w]]
    BY <1>12 DEF SettleReturn, ClaimedAreStarted, bounds
  <2>2. CASE task.pc = "returned"
    <3>1. \A w \in taken : promise'[w] = promise[w]
      BY <1>0, <2>1, <2>2 DEF UpdateInv, ReturnedAreBack
    <3> QED
      BY <2>1, <3>1, DueSame DEF Kept
  <2>3. CASE task.pc # "returned"
    <3>1. Outcome[task.pc] \in {"failed", "unconfirmed"}
      BY <1>12, <2>3 DEF SettleReturn, Answers, Outcome
    <3> QED
      BY <1>0, <2>1, <3>1, DueFalls DEF Kept
  <2> QED
    BY <2>2, <2>3
<1>13. CASE RecoverInterrupted
  <2> DEFINE S == {w \in Workers : promise[w] = "started"}
  <2>1. /\ S \in SUBSET Workers /\ \A w \in S : promise[w] = "started"
        /\ UNCHANGED taken
        /\ promise' = [w \in Workers |-> IF w \in S THEN "unconfirmed" ELSE promise[w]]
    BY <1>13 DEF RecoverInterrupted, bounds
  <2> HIDE DEF S
  <2> QED
    BY <2>1, DueFalls DEF Kept
<1>14. ASSUME NEW w \in Workers, AutostartWorker(w) \/ OperatorStart(w) \/ Sleep(w)
       PROVE  Kept
  <2>1. taken' = taken \ {w} /\ \A v \in taken \ {w} : promise'[v] = promise[v]
    BY <1>0, <1>14 DEF AutostartWorker, OperatorStart, Sleep
  <2> QED
    BY <2>1, DueBack DEF Kept
<1>15. CASE \/ BeginDrain \/ Relist \/ Settle \/ CancelDrain \/ Release \/ Ask \/ Await
            \/ LiftCancel
  BY <1>1, <1>15 DEF BeginDrain, Relist, Settle, CancelDrain, Release, Ask, Await,
     LiftCancel, bounds
<1>16. CASE Look \/ Reconcile \/ LiftLook \/ \E w \in Workers : Revive(w)
  BY <1>1, <1>16 DEF Look, Reconcile, LiftLook, Revive, bounds
<1>17. CASE PackageStep \/ Environment
  BY <1>1, <1>17 DEF PackageStep, PackageCurrent, PackageLock, PackageDrain,
     PackageCensus, PackageRefuse, PackageSwap, Environment, Crash, PackageKilled,
     Exit, package_frame, bounds
<1>18. CASE UNCHANGED vars
  BY <1>1, <1>18 DEF vars
<1> QED
  BY <1>4, <1>5, <1>6, <1>7, <1>8, <1>9, <1>10, <1>11, <1>12, <1>13, <1>14, <1>15,
     <1>16, <1>17, <1>18 DEF Next, Attempt, Supervisor, Operator

\* Whoever an update stops is started for its return at most once, and never
\* after that start failed or came into doubt, until somebody else brings it
\* back (recover_interrupted, start_owed_return_unlocked, withdraw).
THEOREM UpdateKeepsReturns == Spec => KeepsReturns
<1>1. Init => ClaimedAreStarted
  BY IdleFields DEF Init, ClaimedAreStarted, Answers
<1>2. TypeOK /\ ClaimedAreStarted /\ [Next]_vars => ClaimedAreStarted'
  BY NextClaimed
<1>3. Init => Returns!Init
  BY DEF Init, Returns!Init, DueOf
<1>4. TypeOK /\ UpdateInv /\ ClaimedAreStarted /\ [Next]_vars => [Returns!Next]_(Returns!vars)
  BY StepReturns DEF Returns!vars
<1>5. Spec => []TypeOK /\ []UpdateInv
  BY UpdateTypes, UpdateInvariant
<1> QED
  BY <1>1, <1>2, <1>3, <1>4, <1>5, PTL DEF Spec, KeepsReturns, Returns!Spec

-----------------------------------------------------------------------------
(* Why the package's restart may end a session all the same.               *)

\* Nobody but the package lifts a drain while the package is at work, which
\* the code does not see to (cancel_drain and lift_stale_drain may).
DrainLeftAlone ==
    [][package # "idle" /\ package' # "idle" /\ draining => draining']_vars

\* From the drain to the restart nobody starts, so that the count stays true.
CensusHolds ==
    /\ package \in {"drained", "empty"} => draining
    /\ package = "empty" => Running = {} /\ strays = {}

\* Nothing is claimed of a package step that is not between drain and restart.
LEMMA NoCensus == package' \notin {"drained", "empty"} => CensusHolds'
  BY DEF CensusHolds

\* A step in which no session begins and no drain ends keeps the count true.
LEMMA CensusKept ==
  ASSUME CensusHolds, UNCHANGED package, draining => draining',
         \A w \in Workers : session'[w] = "running" => session[w] = "running",
         strays' \subseteq strays
  PROVE  CensusHolds'
  BY DEF CensusHolds, Running

\* Every start needs an engine that does not drain.
LEMMA NextCensus ==
  ASSUME TypeOK, CensusHolds, [Next]_vars,
         package # "idle" /\ package' # "idle" /\ draining => draining'
  PROVE  CensusHolds'
<1>0. /\ session \in [Workers -> {"none", "running", "dead"}]
      /\ draining \in BOOLEAN /\ task \in Tasks
      /\ task.now \subseteq Workers
  BY FieldTypes DEF TypeOK, WorldTypes
<1>1. \A w \in Workers : Reconciled[w] = "running" => session[w] = "running"
  BY DEF Reconciled
<1>2. ASSUME UNCHANGED package,
             \A w \in Workers : session'[w] = "running" => session[w] = "running",
             strays' \subseteq strays
      PROVE  CensusHolds'
  BY <1>2, CensusKept, NoCensus
<1>3. ASSUME UNCHANGED package, ~draining PROVE CensusHolds'
  BY <1>3, NoCensus DEF CensusHolds
<1>4. CASE Launch
  <2>1. UNCHANGED package /\ \/ ~draining
                             \/ UNCHANGED strays /\ session' \in {session, Reconciled}
    BY <1>4 DEF Launch
  <2> QED
    BY <1>1, <1>2, <1>3, <2>1
<1>5. ASSUME NEW w \in Workers, AutostartWorker(w) PROVE CensusHolds'
  BY <1>3, <1>5 DEF AutostartWorker
<1>6. ASSUME NEW w \in Workers, OperatorStart(w) PROVE CensusHolds'
  <2>1. UNCHANGED <<package, strays>> /\ session' = [Reconciled EXCEPT ![w] = "running"]
    BY <1>6 DEF OperatorStart
  <2>2. CASE session[w] = "running"
    <3>1. \A v \in Workers : session'[v] = "running" => session[v] = "running"
      BY <1>1, <2>1, <2>2
    <3> QED
      BY <1>2, <2>1, <3>1
  <2>3. CASE ~draining
    BY <1>3, <2>1, <2>3
  <2> QED
    BY <1>6, <2>2, <2>3 DEF OperatorStart
<1>7. CASE Admit \/ SetAside \/ CardStop
  <2>1. UNCHANGED package /\ strays' \subseteq strays
    BY <1>7 DEF Admit, SetAside, CardStop
  <2>2. \A S : Stop(S) => \A w \in Workers : session'[w] = "running" => session[w] = "running"
    BY DEF Stop
  <2>3. \A w \in Workers : session'[w] = "running" => session[w] = "running"
    <3>1. CASE Admit
      BY <2>2, <3>1 DEF Admit, AdmitAnswered, AdmitLost
    <3>2. CASE SetAside
      BY <1>0, <2>2, <3>2 DEF SetAside
    <3>3. CASE CardStop
      BY <1>0, <2>2, <3>3 DEF CardStop
    <3> QED
      BY <1>7, <3>1, <3>2, <3>3
  <2> QED
    BY <1>2, <2>1, <2>3
<1>8. CASE Release \/ Reconcile \/ \E w \in Workers : Sleep(w) \/ Exit(w)
  <2>1. UNCHANGED package /\ strays' \subseteq strays
    BY <1>8 DEF Release, Reconcile, Sleep, Exit
  <2>2. \A w \in Workers : session'[w] = "running" => session[w] = "running"
    BY <1>0, <1>1, <1>8 DEF Release, Reconcile, Sleep, Exit
  <2> QED
    BY <1>2, <2>1, <2>2
<1>9. CASE \/ BeginDrain \/ Record \/ Relist \/ Settle \/ CancelDrain \/ Withdraw
           \/ Ask \/ Await \/ Claim \/ SettleReturn \/ LiftCancel
  <2>1. UNCHANGED <<package, session, strays>>
    BY <1>9 DEF BeginDrain, Record, Relist, Settle, CancelDrain, Withdraw, WithdrawAllBut,
       Ask, Await, Claim, SettleReturn, LiftCancel, engine
  <2> QED
    BY <1>2, <2>1
<1>10. CASE \/ Look \/ RecoverInterrupted \/ LiftLook \/ Card \/ Crash
            \/ \E w \in Workers : Revive(w)
  <2>1. UNCHANGED <<package, session, strays>>
    BY <1>10 DEF Look, RecoverInterrupted, LiftLook, Card, Crash, Revive, engine
  <2> QED
    BY <1>2, <2>1
<1>11. CASE PackageCensus
  BY <1>11 DEF PackageCensus, CensusHolds, package_frame, Running
<1>12. CASE PackageDrain
  BY <1>12 DEF PackageDrain, CensusHolds
<1>13. CASE PackageCurrent \/ PackageLock \/ PackageRefuse \/ PackageSwap \/ PackageKilled
  <2>1. package' \in {"idle", "locked"}
    BY <1>13 DEF PackageCurrent, PackageLock, PackageRefuse, PackageSwap, PackageKilled
  <2> QED
    BY <2>1, NoCensus
<1>14. CASE UNCHANGED vars
  BY <1>2, <1>14 DEF vars
<1> QED
  BY <1>4, <1>5, <1>6, <1>7, <1>8, <1>9, <1>10, <1>11, <1>12, <1>13, <1>14
  DEF Next, Attempt, Supervisor, Operator, PackageStep, Environment

\* Where nobody lifts the package's drain, its restart ends no session: what the
\* run engine_update_swap shows has no other cause (swarm-package, reconcile_host).
THEOREM OnlyLiftedDrainsEndWork == Spec /\ DrainLeftAlone => SwapEndsNothing
<1> DEFINE Left == package # "idle" /\ package' # "idle" /\ draining => draining'
<1>1. Init => CensusHolds
  BY DEF Init, CensusHolds
<1>2. TypeOK /\ CensusHolds /\ [Next]_vars /\ [Left]_vars => CensusHolds'
  <2>1. UNCHANGED vars => Left
    BY DEF vars
  <2> QED
    BY <2>1, NextCensus
<1>3. CensusHolds => (PackageSwap => Running = {} /\ strays = {})
  BY DEF CensusHolds, PackageSwap
<1>4. Spec => []TypeOK
  BY UpdateTypes
<1> QED
  BY <1>1, <1>2, <1>3, <1>4, PTL DEF Spec, DrainLeftAlone, SwapEndsNothing
=============================================================================
