------------------------- MODULE ExecutionCallback -------------------------
(***************************************************************************)
(* ExecutionCallback: threads of the driver and the death handler call     *)
(* notify*, a thread bound to the object computes and then calls notify*,  *)
(* clients wait.  One mutex and one condition variable; wait() joins the   *)
(* bound thread while it holds the mutex; notify* runs the "finish"        *)
(* function while it holds the mutex.                                      *)
(*                                                                         *)
(* The runtime uses the class in two ways.  ExecutionBuilder::compute sets *)
(* a finish function, binds a thread (which may have notified before that) *)
(* and only then hands the object to the clients.  A callback that is      *)
(* passed to a driver has neither; the driver and its death handler may    *)
(* both notify it.                                                         *)
(***************************************************************************)
EXTENDS Integers, FiniteSets

CONSTANTS
    Drivers,        \* threads, other than the bound one, that notify
    Clients,        \* threads that wait
    Bound,          \* the thread that is bound, where one is
    Notifications,  \* the [status, shapes] a notifier may call notify_1_2 with
    FinishResults   \* what the finish function may return

ASSUME CallbackAssumption ==
    /\ Notifications \subseteq [status : {"NONE", "INSUFFICIENT", "FAILURE"}, shapes : BOOLEAN]
    /\ FinishResults \subseteq {"NONE", "FAILURE"}
    /\ Drivers \cap Clients = {} /\ Bound \notin Clients
    /\ Bound \notin Drivers

Notifiers == Drivers \cup {Bound}

VARIABLES
    bound,          \* whether the object is used with a thread and a finish function
    mMutex,         \* the thread that holds mMutex, as a set
    mNotified,
    mResult,        \* mErrorStatus and mOutputShapes
    mOnFinish,      \* whether a finish function is set
    mThread,        \* whether mThread is joinable
    pc,             \* control point of each notifier and client
    argument,       \* what a notifier stores
    launcher,       \* control point of the launcher
    got,            \* got[c]: the result client c returned with
    finishCalls     \* history: calls of the finish function

vars == <<bound, mMutex, mNotified, mResult, mOnFinish, mThread, pc, argument, launcher, got, finishCalls>>

Result == [status : {"NONE", "INSUFFICIENT", "FAILURE"}, shapes : BOOLEAN]
Nothing == [status |-> "nothing", shapes |-> FALSE]
Failure == [status |-> "FAILURE", shapes |-> FALSE]

\* notify_1_2 takes INSUFFICIENT without shapes, or another error with shapes,
\* for a general failure.
Normalized(n) == IF n.status # "NONE" /\ (n.status = "INSUFFICIENT") # n.shapes THEN Failure ELSE n

Move(t, from, to) == pc[t] = from /\ pc' = [pc EXCEPT ![t] = to]
Free == mMutex = {}

----------------------------------------------------------------------------
(* notify*                                                                 *)

\* A thread calls notify*.  Only the bound thread is sure to, once it ends.
Notify(t, n) ==
    /\ Move(t, "running", "notify")
    /\ argument' = [argument EXCEPT ![t] = Normalized(n)]
    /\ UNCHANGED <<bound, mMutex, mNotified, mResult, mOnFinish, mThread, launcher, got, finishCalls>>

\* The object has been notified before: notifyInternal returns from within the
\* scope of the lock, before notify_all, and wakes nobody.
NotifyAgain(t) ==
    /\ Move(t, "notify", "ended")
    /\ Free /\ mNotified
    /\ UNCHANGED <<bound, mMutex, mNotified, mResult, mOnFinish, mThread, argument, launcher, got,
                   finishCalls>>

\* The guard of the first notification, and the guard left out.
Always(flag) == TRUE
IsFirst(flag) == ~flag

NotifyFirst(t) ==
    /\ Move(t, "notify", "finish")
    /\ Free /\ IsFirst(mNotified)
    /\ mMutex' = {t}
    /\ mResult' = argument[t]
    /\ mNotified' = TRUE
    /\ UNCHANGED <<bound, mOnFinish, mThread, argument, launcher, got, finishCalls>>

\* The finish function runs under the mutex and may turn the status into its
\* own error; the shapes stay.
Finish(t) ==
    /\ Move(t, "finish", "signal")
    /\ mMutex' = {}
    /\ IF mOnFinish
       THEN /\ finishCalls' = finishCalls + 1
            /\ \E r \in FinishResults :
                  mResult' = IF r = "NONE" THEN mResult ELSE [mResult EXCEPT !.status = r]
       ELSE UNCHANGED <<mResult, finishCalls>>
    /\ mOnFinish' = FALSE
    /\ UNCHANGED <<bound, mNotified, mThread, argument, launcher, got>>

\* Whom the condition variable awakens: all that sleep, or one of them.
Asleep == {c \in Clients : pc[c] = "asleep"}
One == {CHOOSE c \in Clients : Asleep # {} => c \in Asleep} \cap Asleep
All == Asleep
Awakened == All

\* mCondition.notify_all() after the mutex is released; then the thread ends.
Signal(t) ==
    /\ pc[t] = "signal"
    /\ pc' = [x \in DOMAIN pc |-> IF x = t THEN "ended"
                                  ELSE IF x \in Awakened THEN "wait" ELSE pc[x]]
    /\ UNCHANGED <<bound, mMutex, mNotified, mResult, mOnFinish, mThread, argument, launcher, got,
                   finishCalls>>

----------------------------------------------------------------------------
(* wait and get*                                                           *)

\* The predicate does not hold: the client sleeps and releases the mutex.
Sleep(c) ==
    /\ launcher = "handed" /\ Move(c, "wait", "asleep")
    /\ Free /\ ~mNotified
    /\ UNCHANGED <<bound, mMutex, mNotified, mResult, mOnFinish, mThread, argument, launcher, got,
                   finishCalls>>

\* It holds; with a thread to join, the client keeps the mutex and joins it.
Awoken(c) ==
    /\ launcher = "handed" /\ Free /\ mNotified
    /\ \/ Move(c, "wait", "join") /\ mThread /\ mMutex' = {c}
       \/ Move(c, "wait", "read") /\ ~mThread /\ UNCHANGED mMutex
    /\ UNCHANGED <<bound, mNotified, mResult, mOnFinish, mThread, argument, launcher, got, finishCalls>>

\* std::thread::join, and detach in its place.
Detach(t) == TRUE
Joined(t) == pc[t] = "ended"

Join(c) ==
    /\ Move(c, "join", "read")
    /\ Joined(Bound)
    /\ mThread' = FALSE
    /\ mMutex' = {}
    /\ UNCHANGED <<bound, mNotified, mResult, mOnFinish, argument, launcher, got, finishCalls>>

\* get* reads the result without the mutex.
Read(c) ==
    /\ Move(c, "read", "done")
    /\ got' = [got EXCEPT ![c] = mResult]
    /\ UNCHANGED <<bound, mMutex, mNotified, mResult, mOnFinish, mThread, argument, launcher, finishCalls>>

----------------------------------------------------------------------------
(* The launcher: setOnFinish, std::thread, bindThread, and the hand-over.  *)

\* setOnFinish takes no function once notified; the mutant inverts the check.
TakenLate == mNotified
Taken == ~mNotified

SetOnFinish ==
    /\ launcher = "start" /\ Free
    /\ mOnFinish' = (bound /\ Taken)
    /\ launcher' = "launch"
    /\ UNCHANGED <<bound, mMutex, mNotified, mResult, mThread, pc, argument, got, finishCalls>>

\* The threads that may notify start.
Launch ==
    /\ launcher = "launch"
    /\ pc' = [t \in DOMAIN pc |-> IF t \in Notifiers /\ (t = Bound <=> bound) THEN "running"
                                  ELSE pc[t]]
    /\ launcher' = IF bound THEN "bind" ELSE "handed"
    /\ UNCHANGED <<bound, mMutex, mNotified, mResult, mOnFinish, mThread, argument, got, finishCalls>>

BindThread ==
    /\ launcher = "bind" /\ Free /\ ~mThread
    /\ mThread' = TRUE
    /\ launcher' = "handed"
    /\ UNCHANGED <<bound, mMutex, mNotified, mResult, mOnFinish, pc, argument, got, finishCalls>>

----------------------------------------------------------------------------
Init ==
    /\ bound \in BOOLEAN
    /\ mMutex = {} /\ mNotified = FALSE /\ mResult = Failure
    /\ mOnFinish = FALSE /\ mThread = FALSE
    /\ pc = [t \in Notifiers \cup Clients |-> IF t \in Clients THEN "wait" ELSE "new"]
    /\ argument = [t \in Notifiers |-> Nothing]
    /\ launcher = "start"
    /\ got = [c \in Clients |-> Nothing]
    /\ finishCalls = 0

NotifierStep(t) == \/ \E n \in Notifications : Notify(t, n)
                   \/ NotifyAgain(t) \/ NotifyFirst(t) \/ Finish(t) \/ Signal(t)
ClientStep(c) == Sleep(c) \/ Awoken(c) \/ Join(c) \/ Read(c)
LauncherStep == SetOnFinish \/ Launch \/ BindThread

Next == \/ \E t \in Notifiers : NotifierStep(t)
        \/ \E c \in Clients : ClientStep(c)
        \/ LauncherStep

\* A task that was launched, or could not be, "must immediately call notify"
\* (Callbacks.h:39-42), but one notifier of several is enough: the driver, or
\* the death handler if it dies.  Once in notify, a thread is scheduled.
Unnotified == \A t \in Notifiers : pc[t] \in {"new", "running"}
Fairness == /\ WF_vars(Unnotified /\ \E t \in Notifiers, n \in Notifications : Notify(t, n))
            /\ \A t \in Notifiers : WF_vars(NotifyAgain(t) \/ NotifyFirst(t) \/ Finish(t) \/ Signal(t))
            /\ \A c \in Clients : WF_vars(ClientStep(c))
            /\ WF_vars(LauncherStep)

Spec == Init /\ [][Next]_vars
FairSpec == Spec /\ Fairness

----------------------------------------------------------------------------
Stored == {r \in Result : r.status # "NONE" => (r.status = "INSUFFICIENT") = r.shapes}

\* Types; only normalized notifications are stored, and one thread holds the
\* mutex.
TypeOK ==
    /\ bound \in BOOLEAN
    /\ mMutex \in SUBSET DOMAIN pc /\ Cardinality(mMutex) <= 1
    /\ mNotified \in BOOLEAN /\ mOnFinish \in BOOLEAN /\ mThread \in BOOLEAN
    /\ mResult \in Result
    /\ DOMAIN pc = Notifiers \cup Clients
    /\ \A t \in Notifiers : pc[t] \in {"new", "running", "notify", "finish", "signal", "ended"}
    /\ \A c \in Clients : pc[c] \in {"wait", "asleep", "join", "read", "done"}
    /\ argument \in [Notifiers -> Stored \cup {Nothing}]
    /\ launcher \in {"start", "launch", "bind", "handed"}
    /\ got \in [Clients -> Result \cup {Nothing}]
    /\ finishCalls \in Nat

\* Where one was set, the finish function has run, and only once, when a client
\* returns (Callbacks.h: "before any calls to wait or get* return").
FinishedBeforeReturn ==
    /\ finishCalls <= 1
    /\ \A c \in Clients : pc[c] \in {"read", "done"} /\ bound => finishCalls = 1

\* The bound thread has ended when a wait returns, so that the object can be
\* destroyed, whoever notified it.
ThreadEndedBeforeReturn ==
    \A c \in Clients : pc[c] \in {"read", "done"} /\ bound => pc[Bound] = "ended"

\* All clients return with the one result that the first notification and the
\* finish function made; later notifications change nothing.
Settled == IF mNotified /\ ~\E t \in Notifiers : pc[t] = "finish" THEN mResult ELSE Nothing
Promise == INSTANCE OneShot WITH Values <- Result, Observers <- Clients, Unsettled <- Nothing,
                                 value <- Settled, seen <- got
ImplementsOneShot == Promise!Spec

\* Every wait returns: no wake-up is lost between the predicate, the sleep, the
\* notification and the join under the mutex.
WaitsReturn == \A c \in Clients : <>(pc[c] = "done")
=============================================================================
