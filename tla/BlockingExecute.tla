--------------------------- MODULE BlockingExecute ---------------------------
(***************************************************************************)
(* What TransactionManager::execute promises its callers                   *)
(* (include/storage_new/transaction_manager.h): a call hands over one      *)
(* function, the function is run exactly once, and the call comes back     *)
(* after that run, with an exception if and only if the function threw.    *)
(***************************************************************************)
EXTENDS Naturals

CONSTANTS Clients,  \* threads that call execute
          MaxCalls  \* bound: calls made by one thread

VARIABLES inside,   \* inside[c]: c is between entering and leaving execute
          calls,    \* calls[c]: number of calls c has made
          fate,     \* fate[c][n]: what the function of c's n-th call did
          answer    \* answer[c]: how c's last finished call ended

vars == <<inside, calls, fate, answer>>

Outcome == {"ok", "threw"}

Init == /\ inside = [c \in Clients |-> FALSE]
        /\ calls  = [c \in Clients |-> 0]
        /\ fate   = [c \in Clients |-> [n \in 1..MaxCalls |-> "none"]]
        /\ answer = [c \in Clients |-> "none"]

Call(c) == /\ ~inside[c]
           /\ calls[c] < MaxCalls
           /\ inside' = [inside EXCEPT ![c] = TRUE]
           /\ calls'  = [calls EXCEPT ![c] = @ + 1]
           /\ answer' = [answer EXCEPT ![c] = "none"]
           /\ UNCHANGED fate

RunFn(c) == /\ inside[c]
            /\ fate[c][calls[c]] = "none"
            /\ \E o \in Outcome : fate' = [fate EXCEPT ![c][calls[c]] = o]
            /\ UNCHANGED <<inside, calls, answer>>

Return(c) == /\ inside[c]
             /\ fate[c][calls[c]] # "none"
             /\ inside' = [inside EXCEPT ![c] = FALSE]
             /\ answer' = [answer EXCEPT ![c] = fate[c][calls[c]]]
             /\ UNCHANGED <<calls, fate>>

Next == \E c \in Clients : Call(c) \/ RunFn(c) \/ Return(c)

Spec == Init /\ [][Next]_vars
=============================================================================
