------------------------------ MODULE AsioManager ------------------------------
(***************************************************************************)
(* The io_service and the threads that run it (asio_manager/               *)
(* asio_manager.cpp).  StartThreads and StopThreads run on the UI thread,  *)
(* ThreadFunc on each of the threads.  WidgetMain EXTENDS this module.     *)
(***************************************************************************)

CONSTANT Cores      \* one thread each; GetCoreCount() says 1

VARIABLES
    ios,            \* "runnable" or "stopped"
    ios_work,       \* "none", or "held": the work guard, which is never dropped
    thread_list     \* the thread of each core: "started", "running" or "returned";
                    \* "none" when the list is empty

asio == <<ios, ios_work, thread_list>>

AsioInit ==
    /\ ios = "runnable" /\ ios_work = "none"
    /\ thread_list = [c \in Cores |-> "none"]

(* StopThreads, and the beginning of StartThreads *)

StopIos == ios' = "stopped" /\ UNCHANGED <<ios_work, thread_list>>

JoinThreads ==
    /\ \A c \in Cores : thread_list[c] \in {"none", "returned"}
    /\ thread_list' = [c \in Cores |-> "none"]
    /\ UNCHANGED <<ios, ios_work>>

(* The rest of StartThreads *)

\* Mutant: the io_service is not reset.
ResetIos_Forgets == ios_work' = "held" /\ UNCHANGED <<ios, thread_list>>

ResetIos == ios' = "runnable" /\ ios_work' = "held" /\ UNCHANGED thread_list

StartAllThreads ==
    /\ thread_list' = [c \in Cores |-> "started"]
    /\ UNCHANGED <<ios, ios_work>>

(* ThreadFunc: run returns at once from a stopped io_service, stops one    *)
(* that has no work, and else returns when it is stopped.                  *)

Run(c) ==
    /\ thread_list[c] = "started"
    /\ IF ios = "runnable" /\ ios_work = "held"
       THEN thread_list' = [thread_list EXCEPT ![c] = "running"] /\ UNCHANGED ios
       ELSE thread_list' = [thread_list EXCEPT ![c] = "returned"] /\ ios' = "stopped"
    /\ UNCHANGED ios_work

RunReturns(c) ==
    /\ thread_list[c] = "running" /\ ios = "stopped"
    /\ thread_list' = [thread_list EXCEPT ![c] = "returned"]
    /\ UNCHANGED <<ios, ios_work>>

IoThread(c) == Run(c) \/ RunReturns(c)
=============================================================================
