---------------------- MODULE TransactionManagerProofs ----------------------
(***************************************************************************)
(* Theorems about TransactionManager, for every set of callers and every   *)
(* bound on their calls.                                                   *)
(***************************************************************************)
EXTENDS TransactionManager, SequenceTheorems, TLAPS

-----------------------------------------------------------------------------
(* Types                                                                   *)

\* Every reachable state has well-typed variables, and the worker holds a real
\* task whenever worker_loop is past its first critical section.
THEOREM TypeCorrect == Spec => []TypeOK
<1>1. Init => TypeOK
  <2> SUFFICES ASSUME Init PROVE TypeOK
    OBVIOUS
  <2>1. queue \in Seq(Task)
    BY DEF Init
  <2>2. fate \in [Clients -> [1..MaxCalls -> Fate]]
    BY DEF Init, Fate
  <2>3. calls \in [Clients -> 0..MaxCalls]
    BY TMAssumption DEF Init
  <2> QED BY <2>1, <2>2, <2>3 DEF Init, TypeOK, Fate, Outcome, NoTask
<1>2. TypeOK /\ [Next]_vars => TypeOK'
  <2> SUFFICES ASSUME TypeOK, [Next]_vars
               PROVE  TypeOK'
    OBVIOUS
  <2> USE DEF TypeOK, Outcome, Fate
  <2>1. CASE TakeTask
    <3>1. queue # <<>> => Head(queue) \in Task /\ Tail(queue) \in Seq(Task)
      BY HeadTailProperties
    <3> QED BY <2>1, <3>1 DEF TakeTask, Front, clientVars
  <2>2. CASE WorkerSleep
    BY <2>2 DEF WorkerSleep, clientVars, sharedVars
  <2>3. CASE WorkerExit
    BY <2>3 DEF WorkerExit, clientVars, sharedVars
  <2>4. CASE RunFn
    <3>1. task \in Task
      BY <2>4 DEF RunFn
    <3>2. PICK o \in Outcome : fate' = [fate EXCEPT ![task.client][task.call] = o]
                               /\ workerPc' = o
      BY <2>4 DEF RunFn
    <3> QED BY <2>4, <3>1, <3>2 DEF RunFn, Task, clientVars, sharedVars
  <2>5. CASE Complete
    BY <2>5 DEF Complete, Task, WakeCallers
  <2>6. CASE CompleteWithException
    BY <2>6 DEF CompleteWithException, Task, WakeCallers
  <2>7. CASE Destroy
    BY <2>7 DEF Destroy, WakeWorker, clientVars
  <2>8. ASSUME NEW c \in Clients, ReadTxnId(c)
        PROVE  TypeOK'
    BY <2>8, TMAssumption, SMTT(40) DEF ReadTxnId, sharedVars, workerVars
  <2>9. ASSUME NEW c \in Clients, WriteTxnId(c)
        PROVE  TypeOK'
    BY <2>9 DEF WriteTxnId, workerVars
  <2>10. ASSUME NEW c \in Clients, Enqueue(c)
         PROVE  TypeOK'
    <3>1. [id |-> txnId[c], client |-> c, call |-> calls[c]] \in Task
      BY <2>10 DEF Enqueue, Task
    <3>2. queue' \in Seq(Task)
      BY <2>10, <3>1, AppendProperties DEF Enqueue
    <3> QED BY <2>10, <3>2 DEF Enqueue, ClearException, WakeWorker
  <2>11. ASSUME NEW c \in Clients, Return(c)
         PROVE  TypeOK'
    BY <2>11 DEF Return, sharedVars, workerVars
  <2>12. ASSUME NEW c \in Clients, Block(c) \/ SpuriousWakeup(c)
         PROVE  TypeOK'
    BY <2>12, ZenonT(60) DEF Block, SpuriousWakeup, sharedVars, workerVars
  <2>13. CASE UNCHANGED vars
    BY <2>13 DEF vars
  <2> QED
    BY <2>1, <2>2, <2>3, <2>4, <2>5, <2>6, <2>7, <2>8, <2>9, <2>10, <2>11,
       <2>12, <2>13 DEF Next, Worker, InExecute
<1> QED BY <1>1, <1>2, PTL DEF Spec

-----------------------------------------------------------------------------
(* The destructor drops no work                                            *)

\* the function of c's n-th call has still to be handed over, is queued, or is
\* in the worker's hands
NotQueuedYet(c, n) == n = calls[c] /\ pc[c] \in {"numbering", "numbered"}
InQueue(c, n)      == \E i \in DOMAIN queue : queue[i].client = c /\ queue[i].call = n
WithWorker(c, n)   == workerPc = "taken" /\ task.client = c /\ task.call = n

Accounted ==
    \A c \in Clients : \A n \in 1..calls[c] :
        fate[c][n] = "none" => NotQueuedYet(c, n) \/ InQueue(c, n) \/ WithWorker(c, n)

ExitInv == /\ Accounted
           /\ shutdown => \A c \in Clients : pc[c] = "idle"
           /\ workerPc = "exited" => shutdown /\ queue = <<>>

LEMMA ExitStep == TypeOK /\ ExitInv /\ [Next]_vars => ExitInv'
<1> SUFFICES ASSUME TypeOK, ExitInv, [Next]_vars
             PROVE  ExitInv'
  OBVIOUS
<1> USE DEF ExitInv, Accounted, NotQueuedYet, InQueue, WithWorker
<1>t. /\ calls \in [Clients -> 0..MaxCalls]
      /\ fate \in [Clients -> [1..MaxCalls -> Fate]]
      /\ pc \in [Clients -> {"idle", "numbering", "numbered", "waiting", "asleep"}]
      /\ queue \in Seq(Task)
      /\ MaxCalls \in Nat
  BY TMAssumption DEF TypeOK
<1>1. CASE TakeTask
  <2>1. /\ DOMAIN queue = 1..Len(queue)
        /\ Len(queue) \in Nat \ {0}
        /\ DOMAIN queue' = 1..(Len(queue) - 1)
        /\ task' = queue[1]
        /\ \A i \in 1..(Len(queue) - 1) : queue'[i] = queue[i + 1]
    BY <1>t, <1>1, HeadTailProperties, EmptySeq, LenProperties DEF TakeTask, Front
  <2>2. ASSUME NEW c \in Clients, NEW n \in 1..calls[c], InQueue(c, n)
        PROVE  InQueue(c, n)' \/ WithWorker(c, n)'
    <3>1. PICK i \in 1..Len(queue) : queue[i].client = c /\ queue[i].call = n
      BY <2>1, <2>2
    <3>2. CASE i = 1
      BY <2>1, <3>1, <3>2, <1>1 DEF TakeTask
    <3>3. CASE i # 1
      <4>1. i - 1 \in 1..(Len(queue) - 1) /\ queue'[i - 1] = queue[i]
        BY <2>1, <3>1, <3>3
      <4> QED BY <2>1, <3>1, <4>1
    <3> QED BY <3>2, <3>3
  <2> QED BY <1>1, <2>2 DEF TakeTask, clientVars
<1>2. CASE WorkerSleep
  BY <1>2 DEF WorkerSleep, clientVars, sharedVars
<1>3. CASE WorkerExit
  BY <1>3 DEF WorkerExit, MayExit, clientVars, sharedVars
<1>4. CASE RunFn
  <2>1. task \in Task
    BY <1>4 DEF RunFn, TypeOK
  <2>2. PICK o \in Outcome : fate' = [fate EXCEPT ![task.client][task.call] = o]
                             /\ workerPc' = o
    BY <1>4 DEF RunFn
  <2>3. fate'[task.client][task.call] # "none"
    BY <1>t, <2>1, <2>2 DEF Task, Outcome
  <2> QED BY <1>t, <1>4, <2>1, <2>2, <2>3 DEF RunFn, Task, Outcome, clientVars, sharedVars
<1>5. CASE Complete
  BY <1>t, <1>5 DEF Complete, WakeCallers
<1>6. CASE CompleteWithException
  BY <1>t, <1>6 DEF CompleteWithException, WakeCallers
<1>7. CASE Destroy
  BY <1>7 DEF Destroy, WakeWorker, clientVars
<1>8. ASSUME NEW c \in Clients, ReadTxnId(c)
      PROVE  ExitInv'
  BY <1>t, <1>8 DEF ReadTxnId, sharedVars, workerVars
<1>9. ASSUME NEW c \in Clients, WriteTxnId(c)
      PROVE  ExitInv'
  BY <1>t, <1>9 DEF WriteTxnId, workerVars
<1>10. ASSUME NEW c \in Clients, Enqueue(c)
       PROVE  ExitInv'
  <2> DEFINE new == [id |-> txnId[c], client |-> c, call |-> calls[c]]
  <2>1. new \in Task
    BY <1>10 DEF Enqueue, TypeOK, Task
  <2>2. /\ DOMAIN queue' = 1..(Len(queue) + 1)
        /\ Len(queue) \in Nat
        /\ DOMAIN queue = 1..Len(queue)
        /\ \A i \in 1..Len(queue) : queue'[i] = queue[i]
        /\ queue'[Len(queue) + 1] = new
    BY <1>t, <1>10, <2>1, AppendProperties, LenProperties DEF Enqueue
  <2>3. \A d \in Clients, n \in Nat : InQueue(d, n) => InQueue(d, n)'
    BY <2>2
  <2>4. InQueue(c, calls[c])'
    <3>1. new.client = c /\ new.call = calls[c]
      OBVIOUS
    <3>2. Len(queue) + 1 \in DOMAIN queue' /\ queue'[Len(queue) + 1] = new
      BY <2>2
    <3>3. \E i \in DOMAIN queue' : queue'[i].client = c /\ queue'[i].call = calls[c]
      BY <3>1, <3>2
    <3> QED BY <3>3, <1>10 DEF Enqueue
  <2>5. ~shutdown
    BY <1>10 DEF Enqueue
  <2>6. Accounted'
    <3> SUFFICES ASSUME NEW d \in Clients, NEW n \in (1..calls[d])',
                        (fate[d][n] = "none")'
                 PROVE  NotQueuedYet(d, n)' \/ InQueue(d, n)' \/ WithWorker(d, n)'
      BY DEF Accounted
    <3>1. n \in 1..calls[d] /\ n \in Nat /\ fate[d][n] = "none" /\ calls' = calls
      BY <1>t, <1>10 DEF Enqueue
    <3>2. CASE NotQueuedYet(d, n)
      BY <1>t, <1>10, <2>4, <3>1, <3>2 DEF Enqueue, NotQueuedYet
    <3>3. CASE InQueue(d, n)
      BY <2>3, <3>1, <3>3
    <3>4. CASE WithWorker(d, n)
      BY <1>10, <3>4 DEF Enqueue, WithWorker, WakeWorker
    <3> QED BY <3>1, <3>2, <3>3, <3>4 DEF ExitInv, Accounted
  <2>7. (workerPc = "exited")' => (shutdown /\ queue = <<>>)'
    BY <1>10, <2>5 DEF Enqueue, WakeWorker
  <2>8. shutdown' = FALSE
    BY <1>10, <2>5 DEF Enqueue, TypeOK
  <2> QED BY <2>6, <2>7, <2>8
<1>11. ASSUME NEW c \in Clients, Return(c)
       PROVE  ExitInv'
  <2>1. Accounted'
    BY <1>t, <1>11 DEF Return, sharedVars, workerVars
  <2>2. (shutdown => \A d \in Clients : pc[d] = "idle")'
    BY <1>t, <1>11 DEF Return, sharedVars
  <2> QED BY <1>11, <2>1, <2>2 DEF Return, sharedVars, workerVars
<1>12. ASSUME NEW c \in Clients, Block(c) \/ SpuriousWakeup(c)
       PROVE  ExitInv'
  <2>1. Accounted'
    <3>1. CASE Block(c)
      BY <1>t, <3>1 DEF Block, sharedVars, workerVars
    <3>2. CASE SpuriousWakeup(c)
      BY <1>t, <3>2 DEF SpuriousWakeup, sharedVars, workerVars
    <3> QED BY <1>12, <3>1, <3>2
  <2>2. (shutdown => \A d \in Clients : pc[d] = "idle")'
    BY <1>t, <1>12 DEF Block, SpuriousWakeup, sharedVars
  <2> QED BY <1>12, <2>1, <2>2 DEF Block, SpuriousWakeup, sharedVars, workerVars
<1>13. CASE UNCHANGED vars
  BY <1>13 DEF vars
<1> QED
  BY <1>1, <1>2, <1>3, <1>4, <1>5, <1>6, <1>7, <1>8, <1>9, <1>10, <1>11,
     <1>12, <1>13 DEF Next, Worker, InExecute

\* With any number of callers, the worker leaves worker_loop only after every
\* function handed to execute has run.
THEOREM Drained == Spec => []DrainedOnExit
<1>1. Init => ExitInv
  BY DEF Init, ExitInv, Accounted
<1>2. TypeOK /\ ExitInv => DrainedOnExit
  <2> SUFFICES ASSUME TypeOK, ExitInv, workerPc = "exited",
                      NEW c \in Clients, NEW n \in 1..calls[c]
               PROVE  fate[c][n] # "none"
    BY DEF DrainedOnExit
  <2>1. ~InQueue(c, n)
    BY EmptySeq DEF ExitInv, InQueue
  <2> QED BY <2>1 DEF ExitInv, Accounted, NotQueuedYet, WithWorker
<1> QED BY <1>1, <1>2, ExitStep, TypeCorrect, PTL DEF Spec

-----------------------------------------------------------------------------
(* One caller                                                              *)

\* the deployment: one thread calls execute (the server's database worker, or
\* the main thread of the command line program)
SingleCaller == \A c, d \in Clients : c = d

MyTask(c)  == [id |-> txnId[c], client |-> c, call |-> calls[c]]
Unanswered(c) == /\ completedTxnId < txnId[c]
                 /\ exception = NoException

\* where the function of the caller's current call is
Queued(c)   == /\ Unanswered(c)
               /\ queue = <<MyTask(c)>>
               /\ workerPc = "loop"
               /\ fate[c][calls[c]] = "none"
Taken(c)    == /\ Unanswered(c)
               /\ queue = <<>>
               /\ workerPc = "taken"
               /\ task = MyTask(c)
               /\ fate[c][calls[c]] = "none"
Ran(c)      == /\ Unanswered(c)
               /\ queue = <<>>
               /\ workerPc \in Outcome
               /\ task = MyTask(c)
               /\ fate[c][calls[c]] = workerPc
Reported(c) == /\ completedTxnId = txnId[c]
               /\ queue = <<>>
               /\ workerPc \in {"loop", "asleep"}
               /\ pc[c] = "waiting"
               /\ fate[c][calls[c]] \in Outcome
               /\ exception = IF fate[c][calls[c]] = "ok" THEN NoException ELSE c

Quiet == /\ queue = <<>>
         /\ workerPc \in {"loop", "asleep", "exited"}
         /\ completedTxnId < nextTxnId

CallInv(c) ==
    /\ pc[c] = "idle" => Quiet
    /\ pc[c] = "numbering" => Quiet /\ txnId[c] = nextTxnId
    /\ pc[c] = "numbered" => Quiet /\ nextTxnId = txnId[c] + 1 /\ completedTxnId < txnId[c]
    /\ pc[c] \in {"waiting", "asleep"} =>
          /\ nextTxnId = txnId[c] + 1
          /\ Queued(c) \/ Taken(c) \/ Ran(c) \/ Reported(c)
    /\ pc[c] # "idle" => ~shutdown /\ workerPc # "exited" /\ answer[c] = "none"
    /\ pc[c] \in {"numbering", "numbered"} => fate[c][calls[c]] = "none"
    /\ \A n \in 1..MaxCalls : calls[c] < n => fate[c][n] = "none"
    /\ answer[c] # "none" => answer[c] = fate[c][calls[c]]
    /\ calls[c] = 0 => answer[c] = "none"

SingleInv == /\ \A c \in Clients : CallInv(c)
             /\ workerPc = "exited" => shutdown

LEMMA SingleStep ==
    ASSUME SingleCaller, TypeOK, SingleInv, [Next]_vars
    PROVE  SingleInv'
<1>1. (workerPc = "exited" => shutdown)'
  <2>1. SingleInv /\ TypeOK
    OBVIOUS
  <2> QED BY <2>1, ZenonT(60) DEF SingleInv, TypeOK, Next, Worker, InExecute, TakeTask, WorkerSleep,
        WorkerExit, MayExit, RunFn, Complete, CompleteWithException, Destroy, ReadTxnId,
        WriteTxnId, Enqueue, Return, Block, SpuriousWakeup, WakeWorker, Outcome,
        vars, sharedVars, workerVars
<1>2. ASSUME NEW c \in Clients
      PROVE  CallInv(c)'
  <2>t. /\ calls \in [Clients -> 0..MaxCalls]
        /\ fate \in [Clients -> [1..MaxCalls -> Fate]]
        /\ pc \in [Clients -> {"idle", "numbering", "numbered", "waiting", "asleep"}]
        /\ answer \in [Clients -> Fate]
        /\ txnId \in [Clients -> Nat]
        /\ MaxCalls \in Nat
        /\ nextTxnId \in Nat /\ completedTxnId \in Nat
        /\ pc[c] # "idle" => calls[c] \in 1..MaxCalls
        /\ workerPc \in {"loop", "asleep", "taken", "exited", "ok", "threw"}
    BY TMAssumption DEF TypeOK, Outcome
  <2>c. CallInv(c) /\ \A d \in Clients : d = c
    BY DEF SingleCaller, SingleInv
  <2>a. queue # <<>> => pc[c] \in {"waiting", "asleep"} /\ Queued(c)
    BY <2>t, <2>c DEF CallInv, Quiet, Queued, Taken, Ran, Reported
  <2>b. workerPc = "taken" => pc[c] \in {"waiting", "asleep"} /\ Taken(c)
    BY <2>t, <2>c DEF CallInv, Quiet, Queued, Taken, Ran, Reported, Outcome
  <2>d. workerPc \in Outcome => pc[c] \in {"waiting", "asleep"} /\ Ran(c)
    BY <2>t, <2>c DEF CallInv, Quiet, Queued, Taken, Ran, Reported, Outcome
  <2>1. CASE TakeTask
    <3>1. /\ pc[c] \in {"waiting", "asleep"} /\ Queued(c)
          /\ task' = MyTask(c) /\ queue' = <<>>
      <4>1. pc[c] \in {"waiting", "asleep"} /\ Queued(c)
        BY <2>1, <2>a DEF TakeTask
      <4>2. queue = <<MyTask(c)>>
        BY <4>1 DEF Queued
      <4>3. Head(queue) = MyTask(c) /\ Tail(queue) = <<>>
        BY <4>2
      <4> QED BY <2>1, <4>1, <4>3 DEF TakeTask, Front
    <3>2. Taken(c)'
      BY <2>1, <3>1 DEF TakeTask, Taken, Queued, Unanswered, MyTask, clientVars
    <3> QED BY <2>1, <2>c, <3>1, <3>2 DEF TakeTask, CallInv, clientVars
  <2>2. CASE WorkerSleep
    BY <2>2, <2>c DEF WorkerSleep, CallInv, Quiet, Queued, Taken, Ran, Reported,
       Unanswered, MyTask, Outcome, clientVars, sharedVars
  <2>3. CASE WorkerExit
    BY <2>3, <2>c DEF WorkerExit, MayExit, CallInv, Quiet, Queued, Taken, Ran, Reported,
       Unanswered, MyTask, Outcome, clientVars, sharedVars
  <2>4. CASE RunFn
    <3>1. pc[c] \in {"waiting", "asleep"} /\ Taken(c)
      BY <2>4, <2>b DEF RunFn
    <3>2. PICK o \in Outcome : fate' = [fate EXCEPT ![c][calls[c]] = o] /\ workerPc' = o
      BY <2>4, <3>1 DEF RunFn, Taken, MyTask
    <3>3. Ran(c)'
      BY <2>4, <2>t, <3>1, <3>2 DEF RunFn, Taken, Ran, Unanswered, MyTask, clientVars, sharedVars
    <3>4. \A n \in 1..MaxCalls : calls[c] < n => fate'[c][n] = fate[c][n]
      BY <2>t, <3>2
    <3> QED BY <2>4, <2>t, <2>c, <3>1, <3>2, <3>3, <3>4
            DEF RunFn, CallInv, Outcome, clientVars, sharedVars
  <2>5. CASE Complete
    <3>1. /\ pc[c] \in {"waiting", "asleep"} /\ Ran(c)
          /\ pc' = [pc EXCEPT ![c] = "waiting"]
      BY <2>5, <2>t, <2>c, <2>d DEF Complete, WakeCallers, Outcome
    <3>2. Reported(c)'
      BY <2>5, <2>t, <3>1 DEF Complete, Ran, Reported, Unanswered, MyTask, Outcome
    <3> QED BY <2>5, <2>t, <2>c, <3>1, <3>2 DEF Complete, CallInv
  <2>6. CASE CompleteWithException
    <3>1. /\ pc[c] \in {"waiting", "asleep"} /\ Ran(c)
          /\ pc' = [pc EXCEPT ![c] = "waiting"]
      BY <2>6, <2>t, <2>c, <2>d DEF CompleteWithException, WakeCallers, Outcome
    <3>2. Reported(c)'
      BY <2>6, <2>t, <3>1 DEF CompleteWithException, Ran, Reported, Unanswered, MyTask, Outcome
    <3> QED BY <2>6, <2>t, <2>c, <3>1, <3>2 DEF CompleteWithException, CallInv
  <2>7. CASE Destroy
    BY <2>7, <2>c DEF Destroy, WakeWorker, CallInv, Quiet, clientVars
  <2>8. CASE ReadTxnId(c)
    BY <2>8, <2>t, <2>c DEF ReadTxnId, CallInv, Quiet, SingleInv, sharedVars, workerVars
  <2>9. CASE WriteTxnId(c)
    BY <2>9, <2>t, <2>c DEF WriteTxnId, CallInv, Quiet, workerVars
  <2>10. CASE Enqueue(c)
    <3>1. Queued(c)'
      BY <2>10, <2>t, <2>c DEF Enqueue, CallInv, Quiet, Queued, Unanswered, MyTask,
         ClearException, WakeWorker
    <3> QED BY <2>10, <2>t, <2>c, <3>1 DEF Enqueue, CallInv, WakeWorker, Queued
  <2>11. CASE Return(c)
    <3>1. Reported(c)
      BY <2>11, <2>t, <2>c DEF Return, Completed, CallInv, Queued, Taken, Ran, Unanswered
    <3>2. answer'[c] = fate[c][calls[c]] /\ answer'[c] \in Outcome
      BY <2>11, <2>t, <3>1, TMAssumption DEF Return, Reported, Outcome
    <3>3. completedTxnId < nextTxnId
      BY <2>11, <2>t, <2>c, <3>1 DEF Return, CallInv, Reported
    <3> QED BY <2>11, <2>t, <2>c, <3>1, <3>2, <3>3
            DEF Return, CallInv, Reported, Quiet, Outcome, sharedVars, workerVars
  <2>12. CASE Block(c)
    BY <2>12, <2>t, <2>c DEF Block, Completed, CallInv, Queued, Taken, Ran, Reported,
       Unanswered, MyTask, Outcome, sharedVars, workerVars
  <2>13. CASE SpuriousWakeup(c)
    BY <2>13, <2>t, <2>c DEF SpuriousWakeup, CallInv, Queued, Taken, Ran, Reported,
       Unanswered, MyTask, Outcome, sharedVars, workerVars
  <2>14. CASE UNCHANGED vars
    BY <2>14, <2>c DEF vars, CallInv, Quiet, Queued, Taken, Ran, Reported,
       Unanswered, MyTask
  <2> QED
    BY <2>c, <2>1, <2>2, <2>3, <2>4, <2>5, <2>6, <2>7, <2>8, <2>9, <2>10, <2>11,
       <2>12, <2>13, <2>14 DEF Next, Worker, InExecute
<1> QED BY <1>1, <1>2 DEF SingleInv

LEMMA SingleInvariant ==
    ASSUME SingleCaller
    PROVE  Spec => [](TypeOK /\ SingleInv)
<1>1. Init => SingleInv
  BY DEF Init, SingleInv, CallInv, Quiet
<1>2. TypeOK /\ SingleInv /\ [Next]_vars => SingleInv'
  BY SingleStep
<1> QED BY <1>1, <1>2, TypeCorrect, PTL DEF Spec

LEMMA AnswerIsFate ==
    ASSUME TypeOK, SingleInv
    PROVE  ReturnsAfterRun /\ OwnOutcome
<1> SUFFICES ASSUME NEW c \in Clients, answer[c] # "none"
             PROVE  fate[c][calls[c]] # "none" /\ answer[c] = fate[c][calls[c]]
  BY DEF ReturnsAfterRun, OwnOutcome
<1> QED BY DEF SingleInv, CallInv

\* With one caller, execute comes back only after its function has run.
THEOREM OneCallerReturnsAfterRun ==
    ASSUME SingleCaller
    PROVE  Spec => []ReturnsAfterRun
BY SingleInvariant, AnswerIsFate, PTL

\* With one caller, execute throws exactly when its own function threw.
THEOREM OneCallerOwnOutcome ==
    ASSUME SingleCaller
    PROVE  Spec => []OwnOutcome
BY SingleInvariant, AnswerIsFate, PTL

-----------------------------------------------------------------------------
(* Refinement                                                              *)

LEMMA RefinementStep ==
    ASSUME SingleCaller, TypeOK, SingleInv, [Next]_vars
    PROVE  [Promise!Next]_(Promise!vars)
<1> DEFINE inside == [c \in Clients |-> pc[c] # "idle"]
<1>t. /\ pc \in [Clients -> {"idle", "numbering", "numbered", "waiting", "asleep"}]
      /\ answer \in [Clients -> Fate]
  BY DEF TypeOK
<1>1. ASSUME UNCHANGED <<pc, calls, fate, answer>>
      PROVE  UNCHANGED Promise!vars
  BY <1>1 DEF Promise!vars
<1>2. CASE TakeTask \/ WorkerSleep \/ WorkerExit \/ Destroy \/ UNCHANGED vars
  BY <1>1, <1>2 DEF TakeTask, WorkerSleep, WorkerExit, Destroy, clientVars, vars
<1>3. CASE Complete \/ CompleteWithException
  <2>1. inside' = inside
    BY <1>3, <1>t DEF Complete, CompleteWithException, WakeCallers
  <2>2. UNCHANGED <<calls, fate, answer>>
    BY <1>3 DEF Complete, CompleteWithException
  <2> QED BY <2>1, <2>2 DEF Promise!vars
<1>4. CASE RunFn
  <2>1. PICK c \in Clients : pc[c] \in {"waiting", "asleep"} /\ Taken(c)
    <3>1. task \in Task /\ workerPc = "taken"
      BY <1>4 DEF RunFn, TypeOK
    <3>2. task.client \in Clients
      BY <3>1 DEF Task
    <3> QED BY <3>1, <3>2, <1>t DEF SingleInv, CallInv, Quiet, Queued, Ran, Reported, Outcome
  <2>2. task.client = c /\ task.call = calls[c] /\ fate[c][calls[c]] = "none"
    BY <2>1 DEF Taken, MyTask
  <2>3. inside[c] /\ inside' = inside
    BY <1>4, <2>1, <1>t DEF RunFn, clientVars
  <2>4. Promise!RunFn(c)
    BY <1>4, <2>2, <2>3 DEF RunFn, clientVars, Outcome, Promise!RunFn, Promise!Outcome
  <2> QED BY <2>4 DEF Promise!Next
<1>5. ASSUME NEW c \in Clients, ReadTxnId(c)
      PROVE  Promise!Next
  <2>1. ~inside[c] /\ inside' = [inside EXCEPT ![c] = TRUE]
    BY <1>5, <1>t DEF ReadTxnId
  <2>2. Promise!Call(c)
    BY <1>5, <2>1 DEF ReadTxnId, Promise!Call, workerVars
  <2> QED BY <2>2 DEF Promise!Next
<1>6. ASSUME NEW c \in Clients, WriteTxnId(c) \/ Enqueue(c) \/ Block(c) \/ SpuriousWakeup(c)
      PROVE  UNCHANGED Promise!vars
  <2>1. inside' = inside
    BY <1>6, <1>t DEF WriteTxnId, Enqueue, Block, SpuriousWakeup
  <2>2. UNCHANGED <<calls, fate, answer>>
    BY <1>6 DEF WriteTxnId, Enqueue, Block, SpuriousWakeup, workerVars
  <2> QED BY <2>1, <2>2 DEF Promise!vars
<1>7. ASSUME NEW c \in Clients, Return(c)
      PROVE  Promise!Next
  <2>1. CallInv(c) /\ pc[c] = "waiting" /\ Completed(c)
    BY <1>7 DEF SingleInv, Return
  <2>2. Reported(c)
    BY <2>1 DEF CallInv, Completed, Queued, Taken, Ran, Unanswered, TypeOK
  <2>3. (IF exception = NoException THEN "ok" ELSE "threw") = fate[c][calls[c]]
    BY <2>2, TMAssumption DEF Reported, Outcome
  <2>4. inside[c] /\ inside' = [inside EXCEPT ![c] = FALSE]
    BY <1>7, <1>t DEF Return
  <2>5. fate[c][calls[c]] # "none"
    BY <2>2 DEF Reported, Outcome
  <2>6. Promise!Return(c)
    BY <1>7, <2>3, <2>4, <2>5 DEF Return, Promise!Return, sharedVars, workerVars
  <2> QED BY <2>6 DEF Promise!Next
<1> QED
  BY <1>2, <1>3, <1>4, <1>5, <1>6, <1>7 DEF Next, Worker, InExecute

\* With one caller, execute implements the blocking call its header promises.
THEOREM OneCallerRefines ==
    ASSUME SingleCaller
    PROVE  Spec => Blocking
<1>1. Init => Promise!Init
  BY DEF Init, Promise!Init
<1>2. TypeOK /\ SingleInv /\ [Next]_vars => [Promise!Next]_(Promise!vars)
  BY RefinementStep
<1> QED BY <1>1, <1>2, SingleInvariant, PTL DEF Spec, Blocking, Promise!Spec
=============================================================================
