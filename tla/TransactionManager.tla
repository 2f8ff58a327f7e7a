------------------------- MODULE TransactionManager -------------------------
(***************************************************************************)
(* src/storage_new/transaction_manager.cpp: execute() enqueues a function  *)
(* for the one worker thread and waits until completed_txn_id_ reaches the *)
(* id it drew.  A critical section under mtx_ is one action; next_txn_id_  *)
(* is read and written outside the mutex, so its increment is two.         *)
(***************************************************************************)
EXTENDS Naturals, Sequences

CONSTANTS Clients,      \* threads that call execute
          MaxCalls,     \* bound: calls made by one thread
          NoException   \* exception_ == nullptr

ASSUME TMAssumption == /\ MaxCalls \in Nat
                       /\ NoException \notin Clients

VARIABLES
    nextTxnId,       \* next_txn_id_
    completedTxnId,  \* completed_txn_id_
    queue,           \* queue_: tasks not yet taken by the worker
    exception,       \* exception_: the client whose function threw it
    running,         \* running_
    shutdown,        \* shutdown_
    workerPc,        \* where the worker thread is in worker_loop
    task,            \* the worker's local task
    pc,              \* where each client is in execute
    txnId,           \* the client's local txn.txn_id
    calls,           \* history: number of calls of each client
    fate,            \* history: what the function of each call did
    answer           \* history: how the client's last finished call ended

clientVars == <<pc, txnId, calls, answer>>
workerVars == <<workerPc, task, running, fate>>
sharedVars == <<nextTxnId, completedTxnId, queue, exception, shutdown>>
vars == <<nextTxnId, completedTxnId, queue, exception, running, shutdown,
          workerPc, task, pc, txnId, calls, fate, answer>>

Outcome == {"ok", "threw"}
Fate    == {"none"} \union Outcome
Task    == [id : Nat, client : Clients, call : 1..MaxCalls]
NoTask  == [id |-> 0, client |-> NoException, call |-> 0]

Init == /\ nextTxnId = 1
        /\ completedTxnId = 0
        /\ queue = <<>>
        /\ exception = NoException
        /\ running = FALSE
        /\ shutdown = FALSE
        /\ workerPc = "loop"
        /\ task = NoTask
        /\ pc = [c \in Clients |-> "idle"]
        /\ txnId = [c \in Clients |-> 0]
        /\ calls = [c \in Clients |-> 0]
        /\ fate = [c \in Clients |-> [n \in 1..MaxCalls |-> "none"]]
        /\ answer = [c \in Clients |-> "none"]

-----------------------------------------------------------------------------
(* Condition variables: cv_ for the callers, worker_cv_ for the worker.    *)
(* An operator with an underscore in its name is a faulty variant of the   *)
(* one that follows it; the specification uses none of them.               *)

\* worker_cv_.notify_one(): only the worker waits on it
WakeWorker_Lost(w) == w
WakeWorker(w) == IF w = "asleep" THEN "loop" ELSE w

\* cv_.notify_all(): every waiting caller evaluates its predicate again
WakeCallers_Lost(p) == p
WakeCallers(p) == [c \in Clients |-> IF p[c] = "asleep" THEN "waiting" ELSE p[c]]

\* the predicate execute waits for
Completed_OffByOne(c) == completedTxnId + 1 >= txnId[c]
Completed(c) == completedTxnId >= txnId[c]

-----------------------------------------------------------------------------
(* execute(fn), run by client c                                            *)

\* next_txn_id_++, first half: the load
ReadTxnId(c) ==
    /\ pc[c] = "idle"
    /\ ~shutdown
    /\ calls[c] < MaxCalls
    /\ pc'     = [pc EXCEPT ![c] = "numbering"]
    /\ txnId'  = [txnId EXCEPT ![c] = nextTxnId]
    /\ calls'  = [calls EXCEPT ![c] = @ + 1]
    /\ answer' = [answer EXCEPT ![c] = "none"]
    /\ UNCHANGED <<sharedVars, workerVars>>

\* next_txn_id_++, second half: the store
WriteTxnId(c) ==
    /\ pc[c] = "numbering"
    /\ pc' = [pc EXCEPT ![c] = "numbered"]
    /\ nextTxnId' = txnId[c] + 1
    /\ UNCHANGED <<completedTxnId, queue, exception, shutdown,
                   workerVars, txnId, calls, answer>>

ClearException_Skipped == UNCHANGED exception
ClearException == exception' = NoException

\* the first critical section
Enqueue(c) ==
    /\ pc[c] = "numbered"
    /\ pc' = [pc EXCEPT ![c] = "waiting"]
    /\ ClearException
    /\ queue' = Append(queue, [id |-> txnId[c], client |-> c, call |-> calls[c]])
    /\ workerPc' = WakeWorker(workerPc)
    /\ UNCHANGED <<nextTxnId, completedTxnId, shutdown, running, task, fate,
                   txnId, calls, answer>>

\* the second critical section: the predicate holds, execute returns or rethrows
Return(c) ==
    /\ pc[c] = "waiting"
    /\ Completed(c)
    /\ pc' = [pc EXCEPT ![c] = "idle"]
    /\ answer' = [answer EXCEPT ![c] = IF exception = NoException THEN "ok" ELSE "threw"]
    /\ UNCHANGED <<sharedVars, workerVars, txnId, calls>>

\* the second critical section: the predicate does not hold
Block(c) ==
    /\ pc[c] = "waiting"
    /\ ~Completed(c)
    /\ pc' = [pc EXCEPT ![c] = "asleep"]
    /\ UNCHANGED <<sharedVars, workerVars, txnId, calls, answer>>

\* a condition variable may wake without a notification
SpuriousWakeup(c) ==
    /\ pc[c] = "asleep"
    /\ pc' = [pc EXCEPT ![c] = "waiting"]
    /\ UNCHANGED <<sharedVars, workerVars, txnId, calls, answer>>

-----------------------------------------------------------------------------
(* worker_loop                                                             *)

Front_Stale == task
Front == Head(queue)

\* pop the oldest task and release the mutex
TakeTask ==
    /\ workerPc = "loop"
    /\ queue # <<>>
    /\ workerPc' = "taken"
    /\ task' = Front
    /\ queue' = Tail(queue)
    /\ running' = TRUE
    /\ UNCHANGED <<nextTxnId, completedTxnId, exception, shutdown, fate, clientVars>>

\* nothing to do: wait on worker_cv_
WorkerSleep ==
    /\ workerPc = "loop"
    /\ queue = <<>>
    /\ ~shutdown
    /\ workerPc' = "asleep"
    /\ UNCHANGED <<sharedVars, task, running, fate, clientVars>>

MayExit == shutdown /\ queue = <<>>

\* break out of the loop
WorkerExit ==
    /\ workerPc = "loop"
    /\ MayExit
    /\ workerPc' = "exited"
    /\ UNCHANGED <<sharedVars, task, running, fate, clientVars>>

\* task.second(task.first), outside the mutex; it may throw
RunFn ==
    /\ workerPc = "taken"
    /\ \E o \in Outcome :
          /\ fate' = [fate EXCEPT ![task.client][task.call] = o]
          /\ workerPc' = o
    /\ UNCHANGED <<sharedVars, task, running, clientVars>>

\* the critical section after a normal return
Complete ==
    /\ workerPc = "ok"
    /\ workerPc' = "loop"
    /\ completedTxnId' = task.id
    /\ running' = FALSE
    /\ pc' = WakeCallers(pc)
    /\ UNCHANGED <<nextTxnId, queue, exception, shutdown, task, fate,
                   txnId, calls, answer>>

\* the critical section of the catch block
CompleteWithException ==
    /\ workerPc = "threw"
    /\ workerPc' = "loop"
    /\ exception' = task.client
    /\ completedTxnId' = task.id
    /\ running' = FALSE
    /\ pc' = WakeCallers(pc)
    /\ UNCHANGED <<nextTxnId, queue, shutdown, task, fate, txnId, calls, answer>>

\* ~TransactionManager: the owner destroys it when no caller is inside
Destroy ==
    /\ ~shutdown
    /\ \A c \in Clients : pc[c] = "idle"
    /\ shutdown' = TRUE
    /\ workerPc' = WakeWorker(workerPc)
    /\ UNCHANGED <<nextTxnId, completedTxnId, queue, exception, task, running,
                   fate, clientVars>>

-----------------------------------------------------------------------------
Worker == TakeTask \/ WorkerSleep \/ WorkerExit \/ RunFn \/ Complete \/ CompleteWithException

InExecute(c) == WriteTxnId(c) \/ Enqueue(c) \/ Return(c) \/ Block(c)

Next == \/ Worker
        \/ Destroy
        \/ \E c \in Clients : ReadTxnId(c) \/ InExecute(c) \/ SpuriousWakeup(c)

(***************************************************************************)
(* The operating system keeps running every thread that can run: the       *)
(* worker, and each thread that is inside execute.  Nothing makes a thread *)
(* call execute, destroy the manager, or wake spuriously.                  *)
(***************************************************************************)
Fairness == /\ WF_vars(Worker)
            /\ \A c \in Clients : WF_vars(InExecute(c))

Spec == Init /\ [][Next]_vars /\ Fairness

-----------------------------------------------------------------------------
TypeOK ==
    /\ nextTxnId \in Nat
    /\ completedTxnId \in Nat
    /\ queue \in Seq(Task)
    /\ exception \in Clients \union {NoException}
    /\ running \in BOOLEAN
    /\ shutdown \in BOOLEAN
    /\ workerPc \in {"loop", "asleep", "taken", "exited"} \union Outcome
    /\ task \in Task \union {NoTask}
    /\ (workerPc \in {"taken"} \union Outcome) => task \in Task
    /\ pc \in [Clients -> {"idle", "numbering", "numbered", "waiting", "asleep"}]
    /\ txnId \in [Clients -> Nat]
    /\ calls \in [Clients -> 0..MaxCalls]
    /\ \A c \in Clients : pc[c] # "idle" => calls[c] \in 1..MaxCalls
    /\ fate \in [Clients -> [1..MaxCalls -> Fate]]
    /\ answer \in [Clients -> Fate]

\* Whoever has come back from execute finds its function already run
\* (header: "execute(fn) blocks until the enqueued fn has completed").
ReturnsAfterRun ==
    \A c \in Clients : answer[c] # "none" => fate[c][calls[c]] # "none"

\* execute throws exactly when the caller's own function threw
\* (worker_loop: "Store the exception to be re-thrown in execute()").
OwnOutcome ==
    \A c \in Clients :
        (answer[c] # "none" /\ fate[c][calls[c]] # "none") => answer[c] = fate[c][calls[c]]

\* execute implements the blocking call its header promises.
Promise == INSTANCE BlockingExecute WITH inside <- [c \in Clients |-> pc[c] # "idle"]
Blocking == Promise!Spec

\* The destructor's join: the worker leaves only when every function that was
\* enqueued has been run, so the join drops no work.
DrainedOnExit ==
    workerPc = "exited" =>
        \A c \in Clients : \A n \in 1..calls[c] : fate[c][n] # "none"

\* Every call of execute comes back.
EveryCallReturns ==
    \A c \in Clients : pc[c] # "idle" ~> pc[c] = "idle"

\* A destroyed manager gets its worker thread back.
JoinReturns == shutdown ~> workerPc = "exited"
=============================================================================
