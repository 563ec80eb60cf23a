---------------------- MODULE ExecutionCallbackProofs ----------------------
(***************************************************************************)
(* ExecutionCallback implements OneShot, for any clients and notifiers.    *)
(*                                                                         *)
(* A client that has passed its wait reads the result without the mutex.   *)
(* This is sound because only the first notification and its finish        *)
(* function change the result, and both are over when a wait returns: the  *)
(* notifier holds the mutex from its store to the end of finish, and a     *)
(* client that takes the mutex after it finds the object notified for good.*)
(***************************************************************************)
EXTENDS ExecutionCallback, TLAPS

Past == {"join", "read", "done"}

\* The inductive invariant, in parts.
\* A notifier that runs the finish function holds the mutex, and the object is
\* notified.
FinishHoldsMutex == \A t \in Notifiers : pc[t] = "finish" => mMutex = {t} /\ mNotified
\* A client has passed its wait only once the object was notified and the
\* finish function is over.
PastIsSettled ==
    \A c \in Clients : pc[c] \in Past => /\ mNotified
                                         /\ \A t \in Notifiers : pc[t] # "finish"
\* A client has a result just when it has returned.
GotIffDone == /\ got \in [Clients -> Result \cup {Nothing}]
              /\ \A c \in Clients : got[c] # Nothing => pc[c] = "done"

\* No notifier runs before it is launched.
Launched == launcher \in {"start", "launch"} => \A t \in Notifiers : pc[t] = "new"

Shape == /\ DOMAIN pc = Notifiers \cup Clients
         /\ DOMAIN argument = Notifiers
         /\ mNotified \in BOOLEAN
         /\ mResult \in Result
         /\ \A t \in Notifiers : argument[t] \in Result \cup {Nothing}
         /\ \A t \in Notifiers : pc[t] = "notify" => argument[t] \in Result

Inductive == Shape /\ FinishHoldsMutex /\ PastIsSettled /\ GotIffDone /\ Launched

\* A client that has not returned is told apart from one that has a result.
LEMMA NothingIsNoResult == Nothing \notin Result
  BY DEF Nothing, Result

\* The bound thread and the driver's threads are not clients that wait.
LEMMA NotifiersAreNotClients == Notifiers \cap Clients = {}
  BY CallbackAssumption DEF Notifiers

\* Whatever a notification carries, what notifyInternal stores is a result.
LEMMA NormalizedIsResult == \A n \in Notifications : Normalized(n) \in Result
  BY CallbackAssumption DEF Normalized, Failure, Result

\* A new ExecutionCallback: not notified, no thread bound.
LEMMA InitInductive == Init => Inductive
<1> SUFFICES ASSUME Init PROVE Inductive
  OBVIOUS
<1>1. Shape
  BY NotifiersAreNotClients DEF Init, Shape, Failure, Result, Nothing
<1>2. FinishHoldsMutex /\ PastIsSettled /\ Launched
  BY NotifiersAreNotClients DEF Init, FinishHoldsMutex, PastIsSettled, Launched, Past
<1>3. GotIffDone
  BY DEF Init, GotIffDone
<1> QED
  BY <1>1, <1>2, <1>3 DEF Inductive

----------------------------------------------------------------------------
\* notify keeps the invariant: it stores under the mutex, and once only.
LEMMA NotifierInductive ==
    ASSUME Inductive, NEW t \in Notifiers, NotifierStep(t)
    PROVE  Inductive'
<1> USE NotifiersAreNotClients DEF Inductive, Move, Free
<1>1. ASSUME NEW n \in Notifications, Notify(t, n) PROVE Inductive'
  <2>1. Shape'
    BY <1>1, NormalizedIsResult DEF Notify, Shape
  <2>2. FinishHoldsMutex' /\ PastIsSettled' /\ GotIffDone' /\ Launched'
    BY <1>1 DEF Notify, Shape, FinishHoldsMutex, PastIsSettled, GotIffDone, Launched, Past
  <2> QED BY <2>1, <2>2
<1>2. CASE NotifyAgain(t)
  BY <1>2
  DEF NotifyAgain, Shape, FinishHoldsMutex, PastIsSettled, GotIffDone, Launched, Past
<1>3. CASE NotifyFirst(t)
  <2>1. Shape'
    BY <1>3 DEF NotifyFirst, Shape
  <2>2. FinishHoldsMutex'
    BY <1>3 DEF NotifyFirst, Shape, FinishHoldsMutex
  <2>3. PastIsSettled' /\ GotIffDone' /\ Launched'
    BY <1>3 DEF NotifyFirst, IsFirst, Shape, PastIsSettled, GotIffDone, Launched, Past
  <2> QED BY <2>1, <2>2, <2>3
<1>4. CASE Finish(t)
  <2>1. mResult' \in Result
    BY <1>4, CallbackAssumption DEF Finish, Shape, Result
  <2>2. Shape'
    BY <1>4, <2>1 DEF Finish, Shape
  <2>3. FinishHoldsMutex' /\ PastIsSettled' /\ GotIffDone' /\ Launched'
    BY <1>4 DEF Finish, Shape, FinishHoldsMutex, PastIsSettled, GotIffDone, Launched, Past
  <2> QED BY <2>2, <2>3
<1>5. CASE Signal(t)
  <2>1. \A c \in Clients : pc'[c] \in Past \/ pc'[c] = "done" => pc[c] = pc'[c]
    BY <1>5 DEF Signal, Awakened, All, Asleep, Shape, Past
  <2>2. \A x \in Notifiers : pc'[x] = IF x = t THEN "ended" ELSE pc[x]
    BY <1>5 DEF Signal, Awakened, All, Asleep, Shape
  <2>3. DOMAIN pc' = DOMAIN pc
    BY <1>5 DEF Signal
  <2>4. \A c \in Clients : pc[c] = "done" => pc'[c] = "done"
    BY <1>5 DEF Signal, Awakened, All, Asleep, Shape
  <2>5. Shape' /\ FinishHoldsMutex' /\ Launched'
    BY <1>5, <2>2, <2>3 DEF Signal, Shape, FinishHoldsMutex, Launched
  <2>6. PastIsSettled' /\ GotIffDone'
    BY <1>5, <2>1, <2>2, <2>4 DEF Signal, PastIsSettled, GotIffDone
  <2> QED BY <2>5, <2>6
<1> QED
  BY <1>1, <1>2, <1>3, <1>4, <1>5 DEF NotifierStep

\* wait and the getters keep the invariant: they change no result.
LEMMA ClientInductive ==
    ASSUME Inductive, NEW c \in Clients, ClientStep(c)
    PROVE  Inductive'
<1> USE NotifiersAreNotClients DEF Inductive, Move, Free
<1>1. CASE Sleep(c)
  BY <1>1 DEF Sleep, Shape, FinishHoldsMutex, PastIsSettled, GotIffDone, Launched, Past
<1>2. CASE Awoken(c)
  <2>1. \A t \in Notifiers : pc[t] # "finish" /\ pc'[t] = pc[t]
    BY <1>2 DEF Awoken, Shape, FinishHoldsMutex
  <2>2. Shape' /\ FinishHoldsMutex' /\ Launched'
    BY <1>2, <2>1 DEF Awoken, Shape, FinishHoldsMutex, Launched
  <2>3. PastIsSettled' /\ GotIffDone'
    BY <1>2, <2>1 DEF Awoken, Shape, PastIsSettled, GotIffDone, Past
  <2> QED BY <2>2, <2>3
<1>3. CASE Join(c)
  <2>1. \A t \in Notifiers : pc[t] # "finish" /\ pc'[t] = pc[t]
    BY <1>3 DEF Join, Shape, PastIsSettled, Past
  <2>2. Shape' /\ FinishHoldsMutex' /\ Launched'
    BY <1>3, <2>1 DEF Join, Shape, FinishHoldsMutex, Launched
  <2>3. PastIsSettled' /\ GotIffDone'
    BY <1>3, <2>1 DEF Join, Shape, PastIsSettled, GotIffDone, Past
  <2> QED BY <2>2, <2>3
<1>4. CASE Read(c)
  <2>1. Shape' /\ FinishHoldsMutex' /\ Launched'
    BY <1>4 DEF Read, Shape, FinishHoldsMutex, Launched
  <2>2. PastIsSettled'
    BY <1>4 DEF Read, Shape, PastIsSettled, Past
  <2>3. GotIffDone'
    BY <1>4 DEF Read, Shape, GotIffDone
  <2> QED BY <2>1, <2>2, <2>3
<1> QED
  BY <1>1, <1>2, <1>3, <1>4 DEF ClientStep

\* Binding a thread or setting the finish function keeps the invariant.
LEMMA LauncherInductive == Inductive /\ LauncherStep => Inductive'
<1> SUFFICES ASSUME Inductive, LauncherStep PROVE Inductive'
  OBVIOUS
<1> USE NotifiersAreNotClients DEF Inductive
<1>1. CASE SetOnFinish
  BY <1>1 DEF SetOnFinish, Shape, FinishHoldsMutex, PastIsSettled, GotIffDone, Launched
<1>2. CASE Launch
  <2>1. \A t \in Notifiers : pc'[t] \in {"new", "running"}
    BY <1>2 DEF Launch, Shape, Launched
  <2>2. \A c \in Clients : pc'[c] = pc[c]
    BY <1>2 DEF Launch, Shape
  <2> QED
    BY <1>2, <2>1, <2>2
    DEF Launch, Shape, FinishHoldsMutex, PastIsSettled, GotIffDone, Launched
<1>3. CASE BindThread
  BY <1>3 DEF BindThread, Shape, FinishHoldsMutex, PastIsSettled, GotIffDone, Launched
<1> QED
  BY <1>1, <1>2, <1>3 DEF LauncherStep

\* Steps of the rest of the system keep the invariant.
LEMMA StutterInductive == Inductive /\ UNCHANGED vars => Inductive'
  BY DEF Inductive, Shape, FinishHoldsMutex, PastIsSettled, GotIffDone, Launched, vars

\* The invariant of mNotified, the mutex and the stored result holds always.
THEOREM Invariance == Spec => []Inductive
<1>1. Init => Inductive
  BY InitInductive
<1>2. Inductive /\ [Next]_vars => Inductive'
  BY NotifierInductive, ClientInductive, LauncherInductive, StutterInductive DEF Next
<1> QED
  BY <1>1, <1>2, PTL DEF Spec

----------------------------------------------------------------------------
(* Refinement: the first notification settles the value when its finish    *)
(* function is over; a client that returns observes it.                    *)

\* A new ExecutionCallback is a promise without a result.
LEMMA InitRefines == Init => Promise!Init
  BY NothingIsNoResult DEF Init, Promise!Init, Settled

\* Only the end of the first notification sets the promise; a later notify is
\* nothing to it.
LEMMA NotifierRefines ==
    ASSUME Inductive, NEW t \in Notifiers, NotifierStep(t)
    PROVE  [Promise!Next]_Promise!vars
<1> USE NotifiersAreNotClients DEF Inductive, Move, Free
<1> DEFINE Finishing == \E x \in Notifiers : pc[x] = "finish"
<1>1. CASE (\E n \in Notifications : Notify(t, n)) \/ NotifyAgain(t) \/ Signal(t)
  <2>1. \A x \in Notifiers : (pc'[x] = "finish") <=> (pc[x] = "finish")
    BY <1>1 DEF Notify, NotifyAgain, Signal, Awakened, All, Asleep, Shape
  <2>2. UNCHANGED <<mNotified, mResult, got>>
    BY <1>1 DEF Notify, NotifyAgain, Signal
  <2> QED
    BY <2>1, <2>2 DEF Settled, Promise!vars
<1>2. CASE NotifyFirst(t)
  <2>1. Settled = Nothing /\ Settled' = Nothing
    BY <1>2 DEF NotifyFirst, IsFirst, Settled, Shape
  <2> QED
    BY <1>2, <2>1 DEF NotifyFirst, Promise!vars
<1>3. CASE Finish(t)
  <2>1. mNotified' = mNotified /\ got' = got /\ Settled = Nothing
    BY <1>3 DEF Finish, Settled
  <2>2. \A x \in Notifiers : pc'[x] # "finish"
    BY <1>3 DEF Finish, Shape, FinishHoldsMutex
  <2>3. mResult' \in Result
    BY <1>3, CallbackAssumption DEF Finish, Shape, Result
  <2>4. Promise!Settle(mResult')
    BY <1>3, <2>1, <2>2 DEF Promise!Settle, Settled, FinishHoldsMutex, Finish
  <2> QED
    BY <2>3, <2>4 DEF Promise!Next
<1> QED
  BY <1>1, <1>2, <1>3 DEF NotifierStep

\* A client that returns from wait takes the promise's result, or does nothing.
LEMMA ClientRefines ==
    ASSUME Inductive, NEW c \in Clients, ClientStep(c)
    PROVE  [Promise!Next]_Promise!vars
<1> USE NotifiersAreNotClients DEF Inductive, Move, Free
<1>1. \A x \in Notifiers : pc'[x] = pc[x]
  BY DEF ClientStep, Sleep, Awoken, Join, Read, Shape
<1>2. UNCHANGED <<mNotified, mResult, Settled>>
  BY <1>1 DEF ClientStep, Sleep, Awoken, Join, Read, Settled
<1>3. CASE Sleep(c) \/ Awoken(c) \/ Join(c)
  BY <1>2, <1>3 DEF Sleep, Awoken, Join, Promise!vars
<1>4. CASE Read(c)
  <2>1. Settled = mResult /\ Settled # Nothing
    BY <1>4, NothingIsNoResult DEF Read, PastIsSettled, Past, Settled, Shape
  <2>2. got[c] = Nothing
    BY <1>4 DEF Read, GotIffDone
  <2>3. Promise!Observe(c)
    BY <1>2, <1>4, <2>1, <2>2 DEF Read, Promise!Observe
  <2> QED
    BY <2>3 DEF Promise!Next
<1> QED
  BY <1>3, <1>4 DEF ClientStep

\* Setting up an execution is nothing to the promise.
LEMMA LauncherRefines == Inductive /\ LauncherStep => [Promise!Next]_Promise!vars
<1> SUFFICES ASSUME Inductive, LauncherStep PROVE UNCHANGED Promise!vars
  OBVIOUS
<1>1. UNCHANGED <<mNotified, mResult, got>>
  BY DEF LauncherStep, SetOnFinish, Launch, BindThread
<1>2. \A t \in Notifiers : (pc'[t] = "finish") <=> (pc[t] = "finish")
  BY NotifiersAreNotClients
  DEF Inductive, Shape, Launched, LauncherStep, SetOnFinish, Launch, BindThread
<1> QED
  BY <1>1, <1>2 DEF Settled, Promise!vars

\* The class implements the promise: the first notification, as its finish
\* function leaves it, is the one result that any client ever returns with.
THEOREM Refinement == Spec => ImplementsOneShot
<1>1. Init => Promise!Init
  BY InitRefines
<1>2. Inductive /\ [Next]_vars => [Promise!Next]_Promise!vars
  BY NotifierRefines, ClientRefines, LauncherRefines
  DEF Next, vars, Promise!vars, Settled
<1> QED
  BY <1>1, <1>2, Invariance, PTL DEF Spec, ImplementsOneShot, Promise!Spec

----------------------------------------------------------------------------
(* The bound thread and the finish function of ExecutionBuilder::compute.  *)

Pending == ~mNotified \/ \E t \in Notifiers : pc[t] = "finish"

\* A client is past its wait only after the hand-over, by when the thread was
\* bound; it leaves only after somebody has joined it.
Bindings ==
    /\ \A c \in Clients : pc[c] \in Past => launcher = "handed"
    /\ \A c \in Clients : pc[c] \in {"read", "done"} => ~mThread
    /\ launcher = "handed" /\ ~mThread /\ bound => pc[Bound] = "ended"

\* The finish function is set before any notifier runs and is dropped by the
\* notification that runs it.
FinishOnce ==
    /\ finishCalls \in Nat
    /\ launcher \in {"start", "launch"} => ~mNotified
    /\ launcher = "start" => ~mOnFinish
    /\ finishCalls = IF bound /\ ~Pending THEN 1 ELSE 0
    /\ launcher # "start" => (mOnFinish <=> bound /\ Pending)

\* A thread is bound once at most, and joined only after it was bound.
LEMMA BindingsInductive == Inductive /\ Bindings /\ [Next]_vars => Bindings'
<1> SUFFICES ASSUME Inductive, Bindings, [Next]_vars PROVE Bindings'
  OBVIOUS
<1> USE NotifiersAreNotClients DEF Inductive, Shape, Bindings, Move, Free, Past
<1>1. Bound \in Notifiers
  BY DEF Notifiers
<1>2. ASSUME NEW t \in Notifiers, NotifierStep(t) PROVE Bindings'
  <2>1. \A c \in Clients : pc'[c] \in Past => pc[c] = pc'[c]
    BY <1>2 DEF NotifierStep, Notify, NotifyAgain, NotifyFirst, Finish, Signal, Awakened, All,
                Asleep
  <2>2. \A x \in Notifiers : pc[x] = "ended" => pc'[x] = "ended"
    BY <1>2 DEF NotifierStep, Notify, NotifyAgain, NotifyFirst, Finish, Signal, Awakened, All,
                Asleep
  <2>3. UNCHANGED <<bound, launcher, mThread>>
    BY <1>2 DEF NotifierStep, Notify, NotifyAgain, NotifyFirst, Finish, Signal
  <2> QED
    BY <1>1, <2>1, <2>2, <2>3
<1>3. ASSUME NEW c \in Clients, ClientStep(c) PROVE Bindings'
  BY <1>1, <1>3 DEF ClientStep, Sleep, Awoken, Join, Joined, Read
<1>4. CASE SetOnFinish
  BY <1>1, <1>4 DEF SetOnFinish
<1>5. CASE Launch
  BY <1>1, <1>5 DEF Launch
<1>6. CASE BindThread
  BY <1>1, <1>6 DEF BindThread
<1>7. CASE UNCHANGED vars
  BY <1>7 DEF vars
<1> QED
  BY <1>2, <1>3, <1>4, <1>5, <1>6, <1>7 DEF Next, LauncherStep

\* The finish function is set before anybody notifies and taken when it runs.
LEMMA FinishOnceInductive == Inductive /\ FinishOnce /\ [Next]_vars => FinishOnce'
<1> SUFFICES ASSUME Inductive, FinishOnce, [Next]_vars PROVE FinishOnce'
  OBVIOUS
<1> USE NotifiersAreNotClients DEF Inductive, Shape, FinishOnce, Pending, Move, Free
<1>1. ASSUME NEW t \in Notifiers, NEW n \in Notifications, Notify(t, n) PROVE FinishOnce'
  BY <1>1 DEF Notify
<1>2. ASSUME NEW t \in Notifiers, NotifyAgain(t) PROVE FinishOnce'
  BY <1>2 DEF NotifyAgain
<1>3. ASSUME NEW t \in Notifiers, NotifyFirst(t) PROVE FinishOnce'
  <2>1. Pending /\ Pending' /\ launcher \notin {"start", "launch"}
    BY <1>3 DEF NotifyFirst, IsFirst, Launched
  <2> QED
    BY <1>3, <2>1 DEF NotifyFirst
<1>4. ASSUME NEW t \in Notifiers, Finish(t) PROVE FinishOnce'
  <2>1. \A x \in Notifiers : pc'[x] # "finish"
    BY <1>4 DEF Finish, FinishHoldsMutex
  <2>2. Pending /\ launcher \notin {"start", "launch"} /\ mNotified' = mNotified
    BY <1>4 DEF Finish, Launched
  <2>3. mNotified
    BY <1>4 DEF Finish, FinishHoldsMutex
  <2> QED
    BY <1>4, <2>1, <2>2, <2>3 DEF Finish
<1>5. ASSUME NEW t \in Notifiers, Signal(t) PROVE FinishOnce'
  <2>1. \A x \in Notifiers : (pc'[x] = "finish") <=> (pc[x] = "finish")
    BY <1>5 DEF Signal, Awakened, All, Asleep
  <2> QED
    BY <1>5, <2>1 DEF Signal
<1>6. ASSUME NEW c \in Clients, ClientStep(c) PROVE FinishOnce'
  <2>1. \A x \in Notifiers : pc'[x] = pc[x]
    BY <1>6 DEF ClientStep, Sleep, Awoken, Join, Read
  <2> QED
    BY <1>6, <2>1 DEF ClientStep, Sleep, Awoken, Join, Read
<1>7. CASE SetOnFinish
  BY <1>7 DEF SetOnFinish, Taken
<1>8. CASE Launch
  BY <1>8 DEF Launch, Launched
<1>9. CASE BindThread
  BY <1>9 DEF BindThread
<1>10. CASE UNCHANGED vars
  BY <1>10 DEF vars
<1> QED
  BY <1>1, <1>2, <1>3, <1>4, <1>5, <1>6, <1>7, <1>8, <1>9, <1>10
  DEF Next, NotifierStep, LauncherStep

\* What is bound to the callback, a thread and a finish function, is used once.
THEOREM BoundInvariance == Spec => [](Bindings /\ FinishOnce)
<1>1. Init => Bindings /\ FinishOnce
  BY NotifiersAreNotClients DEF Init, Bindings, FinishOnce, Pending, Past
<1>2. Inductive /\ Bindings /\ FinishOnce /\ [Next]_vars => Bindings' /\ FinishOnce'
  BY BindingsInductive, FinishOnceInductive
<1> QED
  BY <1>1, <1>2, Invariance, PTL DEF Spec

\* The bound thread has ended whenever a wait has returned, so the callback
\* object, which owns it, may then be destroyed.
THEOREM ThreadEnded == Spec => []ThreadEndedBeforeReturn
<1>1. Bindings => ThreadEndedBeforeReturn
  BY DEF Bindings, ThreadEndedBeforeReturn, Past
<1> QED
  BY <1>1, BoundInvariance, PTL

\* The finish function has run exactly once whenever a wait has returned.
THEOREM Finished == Spec => []FinishedBeforeReturn
<1>1. Inductive /\ FinishOnce => FinishedBeforeReturn
  BY DEF Inductive, PastIsSettled, FinishOnce, Pending, FinishedBeforeReturn, Past
<1> QED
  BY <1>1, BoundInvariance, Invariance, PTL
=============================================================================
