---------------------------- MODULE Recoverable ----------------------------
(***************************************************************************)
(* VersionedIDevice: threads prepare models on a driver whose process may  *)
(* die and be started again.  recoverable() makes a protected call on the  *)
(* device in mCore and, when the device turns out dead, replaces mCore by  *)
(* a device of the restarted service and calls once more.  A protected     *)
(* call hands the driver a PreparedModelCallback; the device's death       *)
(* handler holds the callbacks of the calls in progress and notifies them  *)
(* all when the driver dies.                                               *)
(*                                                                         *)
(* The service's process is numbered afresh each time it starts.           *)
(***************************************************************************)
EXTENDS Integers, FiniteSets

CONSTANTS
    Threads,        \* threads that call prepareModel, once each
    Answers,        \* of "model" and "failure", what a driver may notify
    Statuses,       \* of "ok", "error" and "transport", what a driver may return
    MaxInstances    \* bound: starts of the driver's process

ASSUME RecoverableAssumption ==
    /\ Answers \subseteq {"model", "failure"}
    /\ Statuses \subseteq {"ok", "error", "transport"}
    /\ MaxInstances \in Nat \ {0}

VARIABLES
    (* the service *)
    alive,          \* the process that runs, or None
    instances,      \* how many processes there have been
    owed,           \* requests a process has received and not answered
    (* VersionedIDevice *)
    core,           \* mCore: the process its device is a proxy of
    mMutex,         \* the recovering thread that holds the write lock, as a set
    link,           \* link[i]: the death handler of the device of process i
    callbacks,      \* DeathHandler::mCallbacks of the device of process i
    (* threads in prepareModel *)
    pc, device, service, attempt, ret,
    callback,       \* what the thread's PreparedModelCallback holds
    outcome,        \* what prepareModel returned
    (* history *)
    answers         \* answers[t]: <<i, a>> if process i notified a to thread t

serviceVars == <<alive, instances>>
coreVars == <<core, mMutex, link>>
callVars == <<device, service, attempt, ret>>
vars == <<serviceVars, owed, coreVars, callbacks, pc, callVars, callback, outcome, answers>>

None == 0
Instances == 1..MaxInstances
Unnotified == [answer |-> "none", of |-> None]
Failed == [answer |-> "failure", of |-> None]

Move(t, from, to) == pc[t] = from /\ pc' = [pc EXCEPT ![t] = to]

\* PreparedModelCallback::notify, which keeps the first result.
Notified(old, new) == IF old = Unnotified THEN new ELSE old

----------------------------------------------------------------------------
(* The driver's process.                                                   *)

\* A request in flight is answered by the process that has received it.
Answer(i, t, a) ==
    /\ alive = i /\ <<i, t>> \in owed
    /\ owed' = owed \ {<<i, t>>}
    /\ callback' = [callback EXCEPT ![t] = Notified(@, [answer |-> a, of |-> i])]
    /\ answers' = [answers EXCEPT ![t] = @ \cup {<<i, a>>}]
    /\ UNCHANGED <<serviceVars, coreVars, callbacks, pc, callVars, outcome>>

Die ==
    /\ alive # None
    /\ alive' = None
    /\ UNCHANGED <<instances, owed, coreVars, callbacks, pc, callVars, callback,
                   outcome, answers>>

Restart ==
    /\ alive = None /\ instances < MaxInstances
    /\ instances' = instances + 1
    /\ alive' = instances + 1
    /\ UNCHANGED <<owed, coreVars, callbacks, pc, callVars, callback, outcome, answers>>

----------------------------------------------------------------------------
(* DeathHandler                                                            *)

\* serviceDied, once, of a linked handler: all its callbacks get a failure.
ServiceDied(i) ==
    /\ link[i] = "linked" /\ alive # i
    /\ link' = [link EXCEPT ![i] = "done"]
    /\ callback' = [t \in Threads |-> IF t \in callbacks[i] THEN Notified(callback[t], Failed)
                                                            ELSE callback[t]]
    /\ UNCHANGED <<serviceVars, owed, core, mMutex, callbacks, pc,
                   callVars, outcome, answers>>

\* protectCallback registers; the mutant does not.
Unprotected(t) == callbacks
Protected(t) == [callbacks EXCEPT ![device[t]] = @ \cup {t}]

----------------------------------------------------------------------------
(* prepareModel, recoverable and callProtected                             *)

\* prepareModel makes the callback object; recoverable reads mCore.
GetDevice(t) ==
    /\ Move(t, "start", "protect")
    /\ mMutex = {}
    /\ device' = [device EXCEPT ![t] = core]
    /\ attempt' = [attempt EXCEPT ![t] = 1]
    /\ UNCHANGED <<serviceVars, owed, coreVars, callbacks, service, ret, callback,
                   outcome, answers>>

Protect(t) ==
    /\ Move(t, "protect", "call")
    /\ callbacks' = Protected(t)
    /\ UNCHANGED <<serviceVars, owed, coreVars, callVars, callback, outcome, answers>>

\* fn(device): the driver, if it runs, receives the request ...
Call(t) ==
    /\ Move(t, "call", "reply")
    /\ owed' = IF alive = device[t] THEN owed \cup {<<device[t], t>>} ELSE owed
    /\ UNCHANGED <<serviceVars, coreVars, callbacks, callVars, callback, outcome,
                   answers>>

\* ... and returns a status if it still runs.
Reply(t) ==
    \E r \in IF alive = device[t] THEN Statuses ELSE {"dead"} :
        /\ Move(t, "reply", IF r = "ok" THEN "wait" ELSE "signal")
        /\ ret' = [ret EXCEPT ![t] = r]
        /\ UNCHANGED <<serviceVars, owed, coreVars, callbacks, device, service,
                       attempt, callback,
                       outcome, answers>>

\* No NONE came back: sendFailureMessage, in case nobody else will notify.
NotSignalled(t) == callback
Signalled(t) == [callback EXCEPT ![t] = Notified(@, Failed)]

Signal(t) ==
    /\ Move(t, "signal", "wait")
    /\ callback' = Signalled(t)
    /\ UNCHANGED <<serviceVars, owed, coreVars, callbacks, callVars, outcome, answers>>

\* callback->wait(), and the guard that unregisters the callback.
Wait(t) ==
    /\ callback[t] # Unnotified
    /\ callbacks' = [callbacks EXCEPT ![device[t]] = @ \ {t}]
    /\ Move(t, "wait", IF ret[t] = "dead" /\ attempt[t] = 1 THEN "lock" ELSE "return")
    /\ UNCHANGED <<serviceVars, owed, coreVars, callVars, callback, outcome, answers>>

Lock(t) ==
    /\ Move(t, "lock", "ping")
    /\ mMutex = {} /\ mMutex' = {t}
    /\ UNCHANGED <<serviceVars, owed, core, link, callbacks, callVars,
                   callback, outcome, answers>>

\* The device in mCore is pinged: another thread may have recovered already.
PingIsDead(t) == alive # core

Ping(t) ==
    /\ Move(t, "ping", IF PingIsDead(t) THEN "getService" ELSE "again")
    /\ UNCHANGED <<serviceVars, owed, coreVars, callbacks, callVars, callback, outcome,
                   answers>>

\* tryGetService returns the device of the process that runs, if one does.
GetService(t) ==
    /\ Move(t, "getService", IF alive = None THEN "return" ELSE "create")
    /\ service' = [service EXCEPT ![t] = alive]
    /\ mMutex' = IF alive = None THEN {} ELSE mMutex
    /\ UNCHANGED <<serviceVars, owed, core, link, callbacks, device,
                   attempt, ret, callback, outcome,
                   answers>>

\* The death handler of a device after Core's move assignment.
Moved == "linked"

\* Core::create links a death handler, or fails, if the process has died again;
\* mCore is overwritten.
CreateCore(t) ==
    /\ IF alive = service[t]
       THEN /\ Move(t, "create", "again")
            /\ core' = service[t]
            /\ link' = [link EXCEPT ![service[t]] = Moved]
            /\ UNCHANGED mMutex
       ELSE /\ Move(t, "create", "return")
            /\ mMutex' = {}
            /\ UNCHANGED <<core, link>>
    /\ UNCHANGED <<serviceVars, owed, callbacks, callVars, callback, outcome, answers>>

\* The second and last attempt, with the same callback.
CallAgain(t) ==
    /\ Move(t, "again", "protect")
    /\ device' = [device EXCEPT ![t] = core]
    /\ attempt' = [attempt EXCEPT ![t] = 2]
    /\ mMutex' = {}
    /\ UNCHANGED <<serviceVars, owed, core, link, callbacks, service, ret,
                   callback, outcome, answers>>

\* prepareModel takes the callback's model if the status is NONE; wrapping the
\* model links a death handler to it, which fails if its process has died.
Return(t) ==
    /\ Move(t, "return", "returned")
    /\ outcome' = [outcome EXCEPT ![t] =
                     IF ret[t] = "ok" /\ callback[t].answer = "model" /\ callback[t].of = alive
                     THEN callback[t] ELSE Failed]
    /\ UNCHANGED <<serviceVars, owed, coreVars, callbacks, callVars, callback, answers>>

----------------------------------------------------------------------------
Init ==
    /\ alive = 1 /\ instances = 1 /\ owed = {}
    /\ core = 1 /\ mMutex = {}
    /\ link = [i \in Instances |-> IF i = 1 THEN "linked" ELSE "none"]
    /\ callbacks = [i \in Instances |-> {}]
    /\ pc = [t \in Threads |-> "start"]
    /\ device = [t \in Threads |-> None] /\ service = [t \in Threads |-> None]
    /\ attempt = [t \in Threads |-> 0] /\ ret = [t \in Threads |-> "none"]
    /\ callback = [t \in Threads |-> Unnotified]
    /\ outcome = [t \in Threads |-> Unnotified]
    /\ answers = [t \in Threads |-> {}]

ThreadStep(t) ==
    \/ GetDevice(t) \/ Protect(t) \/ Call(t) \/ Reply(t) \/ Signal(t) \/ Wait(t)
    \/ Lock(t) \/ Ping(t) \/ GetService(t) \/ CreateCore(t) \/ CallAgain(t) \/ Return(t)

Next ==
    \/ \E i \in Instances, t \in Threads, a \in Answers : Answer(i, t, a)
    \/ Die \/ Restart
    \/ \E i \in Instances : ServiceDied(i)
    \/ \E t \in Threads : ThreadStep(t)

\* A driver that has taken a request answers it or dies, and a death is told of
\* (IDevice.hal and linkToDeath promise so).  Nothing obliges it to restart.
Fairness ==
    /\ \A t \in Threads : WF_vars(ThreadStep(t))
    /\ \A i \in Instances, t \in Threads : WF_vars(\E a \in Answers : Answer(i, t, a))
    /\ \A i \in Instances : WF_vars(ServiceDied(i))

Spec == Init /\ [][Next]_vars
FairSpec == Spec /\ Fairness

----------------------------------------------------------------------------
Results == [answer : {"none", "model", "failure"}, of : Instances \cup {None}]
Labels == {"start", "protect", "call", "reply", "signal", "wait", "lock", "ping", "getService",
           "create", "again", "return", "returned"}

\* Types; the threads whose callback is registered are in a protected call.
TypeOK ==
    /\ alive \in Instances \cup {None} /\ instances \in Instances
    /\ owed \subseteq Instances \X Threads
    /\ core \in Instances /\ mMutex \in SUBSET Threads
    /\ link \in [Instances -> {"none", "linked", "done"}]
    /\ callbacks \in [Instances -> SUBSET Threads]
    /\ pc \in [Threads -> Labels]
    /\ device \in [Threads -> Instances \cup {None}]
    /\ service \in [Threads -> Instances \cup {None}]
    /\ attempt \in [Threads -> 0..2]
    /\ ret \in [Threads -> {"none", "ok", "error", "transport", "dead"}]
    /\ callback \in [Threads -> Results] /\ outcome \in [Threads -> Results]
    /\ answers \in [Threads -> SUBSET (Instances \X Answers)]

\* Whoever waits for a callback will have it notified: the process that took the
\* request runs and owes the answer, or has died and its death handler, which
\* has not run yet, knows the callback.  So no death is missed between the
\* registration, the call and the replacement of mCore.
NoOrphanedWait ==
    \A t \in Threads : pc[t] = "wait" /\ callback[t] = Unnotified =>
        /\ link[device[t]] = "linked" /\ t \in callbacks[device[t]]
        /\ alive = device[t] => <<device[t], t>> \in owed

\* Every call of prepareModel returns.
CallsReturn == \A t \in Threads : <>(pc[t] = "returned")

\* What the comment on recoverable leads one to expect: once the driver has been
\* restarted and has accepted the repeated call, prepareModel fails only if the
\* driver dies again or refuses the model.
RecoverySucceeds ==
    \A t \in Threads : pc[t] = "returned" /\ attempt[t] = 2 /\ ret[t] = "ok" =>
        \/ outcome[t].answer = "model"
        \/ alive # device[t]
        \/ <<device[t], "failure">> \in answers[t]
=============================================================================
