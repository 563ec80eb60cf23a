------------------------- MODULE RecoverableProofs -------------------------
(***************************************************************************)
(* Recovery of a driver, for any number of threads and of starts of the    *)
(* driver's process, whatever it answers and whenever it dies: nobody      *)
(* waits for a callback that nobody will notify, and one thread at a time  *)
(* replaces mCore, by the device of a later process.                       *)
(***************************************************************************)
EXTENDS Recoverable, TLAPS

Protecting == {"call", "reply", "signal", "wait"}
Recovering == {"ping", "getService", "create", "again"}

(***************************************************************************)
(* Processes are numbered as they start, so that one that has died never   *)
(* comes back; a device exists of processes that have been started only.   *)
(***************************************************************************)
Processes ==
    /\ alive \in {None, instances}
    /\ core <= instances /\ link[core] # "none"
    /\ \A i \in Instances : link[i] # "none" => i <= instances
    /\ \A i \in Instances : link[i] = "done" => alive # i

\* A thread in a protected call has a device, whose death handler has its
\* callback from the moment that the call is made.
Registered ==
    /\ \A t \in Threads : pc[t] \in Protecting \cup {"protect"} =>
            device[t] \in Instances /\ link[device[t]] # "none"
    /\ \A t \in Threads : pc[t] \in Protecting => t \in callbacks[device[t]]

\* The process that has received a request answers it, if it lives.
Owing ==
    \A t \in Threads : pc[t] = "reply" /\ callback[t] = Unnotified /\ alive = device[t] =>
        <<device[t], t>> \in owed

\* mMutex is the thread that is recovering, and what it finds is newer.
Locked ==
    /\ \A t \in Threads : pc[t] \in Recovering <=> t \in mMutex
    /\ \A t, u \in mMutex : t = u
    /\ \A t \in Threads : /\ pc[t] = "getService" => alive # core
                          /\ pc[t] = "create" => service[t] > core /\ service[t] <= instances

RecoverInv == TypeOK /\ Processes /\ Registered /\ Owing /\ Locked /\ NoOrphanedWait

----------------------------------------------------------------------------
(* Types                                                                   *)

\* PreparedModelCallback::notify keeps what a callback holds already.
LEMMA NotifiedIs ==
  ASSUME NEW old \in Results, NEW new \in Results, new # Unnotified
  PROVE  Notified(old, new) \in {old, new} /\ Notified(old, new) # Unnotified
BY DEF Notified

LEMMA ResultTypes ==
  /\ Unnotified \in Results /\ Failed \in Results /\ Failed # Unnotified
  /\ \A a \in Answers, i \in Instances : /\ [answer |-> a, of |-> i] \in Results
                                         /\ [answer |-> a, of |-> i] # Unnotified
BY RecoverableAssumption DEF Results, Unnotified, Failed

\* What the driver's process and the death handlers do keeps the types ...
LEMMA DriverKeepsTypes ==
  ASSUME TypeOK,
         \/ \E i \in Instances, t \in Threads, a \in Answers : Answer(i, t, a)
         \/ Die \/ Restart \/ \E i \in Instances : ServiceDied(i)
  PROVE  TypeOK'
<1>1. ASSUME NEW i \in Instances, NEW t \in Threads, NEW a \in Answers, Answer(i, t, a)
      PROVE  TypeOK'
  <2>1. /\ owed' = owed \ {<<i, t>>}
        /\ callback' = [callback EXCEPT ![t] = Notified(callback[t], [answer |-> a, of |-> i])]
        /\ answers' = [answers EXCEPT ![t] = answers[t] \cup {<<i, a>>}]
        /\ UNCHANGED <<serviceVars, coreVars, callbacks, pc, callVars, outcome>>
    BY <1>1 DEF Answer
  <2>2. Notified(callback[t], [answer |-> a, of |-> i]) \in Results
    BY NotifiedIs, ResultTypes DEF TypeOK
  <2> QED
    BY <2>1, <2>2 DEF TypeOK, serviceVars, coreVars, callVars
<1>2. CASE Die
  BY <1>2 DEF Die, TypeOK, coreVars, callVars
<1>3. CASE Restart
  BY <1>3, RecoverableAssumption DEF Restart, TypeOK, coreVars, callVars, Instances
<1>4. ASSUME NEW i \in Instances, ServiceDied(i) PROVE TypeOK'
  <2>1. /\ link' = [link EXCEPT ![i] = "done"]
        /\ callback' = [t \in Threads |-> IF t \in callbacks[i] THEN Notified(callback[t], Failed)
                                                                ELSE callback[t]]
        /\ UNCHANGED <<serviceVars, owed, core, mMutex, callbacks, pc, callVars, outcome, answers>>
    BY <1>4 DEF ServiceDied
  <2>2. callback' \in [Threads -> Results]
    BY <2>1, NotifiedIs, ResultTypes DEF TypeOK
  <2> QED
    BY <2>1, <2>2 DEF TypeOK, serviceVars, callVars
<1> QED
  BY <1>1, <1>2, <1>3, <1>4

\* ... and so does a thread in prepareModel.
LEMMA ThreadKeepsTypes ==
  ASSUME TypeOK, Processes, Registered, Locked, NEW t \in Threads, ThreadStep(t)
  PROVE  TypeOK'
<1>1. CASE GetDevice(t)
  BY <1>1 DEF GetDevice, Move, TypeOK, Labels, serviceVars, coreVars
<1>2. CASE Protect(t)
  <2>1. device[t] \in Instances
    BY <1>2 DEF Protect, Move, Registered
  <2> QED
    BY <1>2, <2>1 DEF Protect, Protected, Move, TypeOK, Labels, serviceVars, coreVars, callVars
<1>3. CASE Call(t)
  <2>1. device[t] \in Instances
    BY <1>3 DEF Call, Move, Registered, Protecting
  <2> QED
    BY <1>3, <2>1 DEF Call, Move, TypeOK, Labels, serviceVars, coreVars, callVars
<1>4. CASE Reply(t)
  <2>1. PICK r \in {"ok", "error", "transport", "dead"} :
          /\ Move(t, "reply", IF r = "ok" THEN "wait" ELSE "signal")
          /\ ret' = [ret EXCEPT ![t] = r]
    BY <1>4, RecoverableAssumption DEF Reply
  <2>2. UNCHANGED <<serviceVars, owed, coreVars, callbacks, device, service, attempt, callback,
                    outcome, answers>>
    BY <1>4 DEF Reply
  <2> QED
    BY <2>1, <2>2 DEF Move, TypeOK, Labels, serviceVars, coreVars
<1>5. CASE Signal(t)
  <2>1. Notified(callback[t], Failed) \in Results
    BY NotifiedIs, ResultTypes DEF TypeOK
  <2> QED
    BY <1>5, <2>1 DEF Signal, Signalled, Move, TypeOK, Labels, serviceVars, coreVars, callVars
<1>6. CASE Wait(t)
  BY <1>6 DEF Wait, Move, TypeOK, Labels, serviceVars, coreVars, callVars
<1>7. CASE Lock(t)
  BY <1>7 DEF Lock, Move, TypeOK, Labels, serviceVars, callVars
<1>8. CASE Ping(t)
  BY <1>8 DEF Ping, Move, TypeOK, Labels, serviceVars, coreVars, callVars
<1>9. CASE GetService(t)
  BY <1>9 DEF GetService, Move, TypeOK, Labels, serviceVars
<1>10. CASE CreateCore(t)
  <2>1. service[t] \in Instances
    BY <1>10 DEF CreateCore, Move, Locked, TypeOK, Instances, None
  <2> QED
    BY <1>10, <2>1 DEF CreateCore, Moved, Move, TypeOK, Labels, serviceVars, callVars
<1>11. CASE CallAgain(t)
  BY <1>11 DEF CallAgain, Move, TypeOK, Labels, serviceVars
<1>12. CASE Return(t)
  BY <1>12, ResultTypes DEF Return, Move, TypeOK, Labels, serviceVars, coreVars, callVars
<1> QED
  BY <1>1, <1>2, <1>3, <1>4, <1>5, <1>6, <1>7, <1>8, <1>9, <1>10, <1>11, <1>12 DEF ThreadStep

----------------------------------------------------------------------------
(* Processes and devices                                                   *)

\* A device is made of the process that runs, which has no death to tell of.
LEMMA ProcessesNext ==
  ASSUME TypeOK, Processes, Locked, [Next]_vars  PROVE Processes'
<1>1. CASE UNCHANGED <<serviceVars, core, link>>
  BY <1>1 DEF Processes, serviceVars
<1>2. CASE Die
  BY <1>2 DEF Die, Processes, TypeOK, coreVars, Instances, None
<1>3. CASE Restart
  BY <1>3 DEF Restart, Processes, TypeOK, coreVars, Instances
<1>4. ASSUME NEW i \in Instances, ServiceDied(i) PROVE Processes'
  BY <1>4 DEF ServiceDied, Processes, TypeOK, serviceVars, Instances
<1>5. ASSUME NEW t \in Threads, CreateCore(t) PROVE Processes'
  <2>1. CASE alive = service[t]
    <3>1. /\ core' = service[t] /\ link' = [link EXCEPT ![service[t]] = "linked"]
          /\ UNCHANGED serviceVars
      BY <1>5, <2>1 DEF CreateCore, Moved
    <3>2. service[t] \in Instances /\ service[t] <= instances
      BY <1>5 DEF CreateCore, Move, Locked, TypeOK, Instances, None
    <3> QED
      BY <3>1, <3>2 DEF Processes, TypeOK, serviceVars, Instances
  <2>2. CASE alive # service[t]
    BY <1>1, <1>5, <2>2 DEF CreateCore
  <2> QED
    BY <2>1, <2>2
<1>6. ASSUME NEW t \in Threads, ThreadStep(t), ~CreateCore(t) PROVE Processes'
  BY <1>1, <1>6 DEF ThreadStep, GetDevice, Protect, Call, Reply, Signal, Wait, Lock, Ping, GetService,
                    CallAgain, Return, coreVars
<1>7. ASSUME NEW i \in Instances, NEW t \in Threads, NEW a \in Answers, Answer(i, t, a)
      PROVE  Processes'
  BY <1>1, <1>7 DEF Answer, coreVars
<1>8. CASE UNCHANGED vars
  BY <1>1, <1>8 DEF vars, coreVars
<1> QED
  BY <1>2, <1>3, <1>4, <1>5, <1>6, <1>7, <1>8 DEF Next

----------------------------------------------------------------------------
(* The callbacks that death handlers have                                  *)

\* No step but a thread's own moves it.
LEMMA StaysPut ==
  ASSUME TypeOK, NEW t \in Threads, NEW to, pc' = [pc EXCEPT ![t] = to]
  PROVE  \A u \in Threads : u # t => pc'[u] = pc[u]
BY DEF TypeOK

\* A device's death handler is linked once and for all.
LEMMA LinksStay ==
  ASSUME TypeOK, [Next]_vars, NEW i \in Instances, link[i] # "none"
  PROVE  link'[i] # "none"
<1>1. CASE UNCHANGED link
  BY <1>1
<1>2. ASSUME NEW j \in Instances, ServiceDied(j) PROVE link'[i] # "none"
  BY <1>2 DEF ServiceDied, TypeOK
<1>3. ASSUME NEW t \in Threads, CreateCore(t) PROVE link'[i] # "none"
  BY <1>3 DEF CreateCore, Moved, TypeOK
<1> QED
  BY <1>1, <1>2, <1>3 DEF Next, vars, ThreadStep, GetDevice, Protect, Call, Reply, Signal, Wait,
        Lock, Ping, GetService, CallAgain, Return, coreVars, Answer, Die, Restart

LEMMA RegisteredNext ==
  ASSUME TypeOK, Processes, Registered, [Next]_vars  PROVE Registered'
<1>1. ASSUME UNCHANGED <<pc, device, callbacks>> PROVE Registered'
  BY <1>1, LinksStay DEF Registered
<1>2. ASSUME NEW t \in Threads, NEW to, pc' = [pc EXCEPT ![t] = to],
             UNCHANGED <<device, callbacks>>,
             to \in Protecting \cup {"protect"} => pc[t] \in Protecting /\ to \in Protecting
      PROVE  Registered'
  BY <1>2, StaysPut, LinksStay DEF Registered, TypeOK
<1>3. ASSUME NEW t \in Threads, GetDevice(t) \/ CallAgain(t) PROVE Registered'
  <2>1. /\ pc' = [pc EXCEPT ![t] = "protect"] /\ device' = [device EXCEPT ![t] = core]
        /\ callbacks' = callbacks
    BY <1>3 DEF GetDevice, CallAgain, Move
  <2>2. core \in Instances /\ link'[core] # "none"
    BY LinksStay DEF Processes, TypeOK
  <2>3. pc'[t] = "protect" /\ device'[t] = core
    BY <2>1 DEF TypeOK
  <2>4. \A u \in Threads : u # t => pc'[u] = pc[u] /\ device'[u] = device[u]
    BY <2>1 DEF TypeOK
  <2> QED
    BY <2>1, <2>2, <2>3, <2>4, LinksStay DEF Registered, Protecting
<1>4. ASSUME NEW t \in Threads, Protect(t) PROVE Registered'
  <2>1. /\ pc[t] = "protect" /\ pc' = [pc EXCEPT ![t] = "call"] /\ device' = device
        /\ callbacks' = [callbacks EXCEPT ![device[t]] = callbacks[device[t]] \cup {t}]
    BY <1>4 DEF Protect, Protected, Move, callVars
  <2>2. device[t] \in Instances /\ link'[device[t]] # "none"
    BY <2>1, LinksStay DEF Registered
  <2>3. t \in callbacks'[device[t]]
    BY <2>1, <2>2 DEF TypeOK
  <2>4. \A i \in Instances : callbacks[i] \subseteq callbacks'[i]
    BY <2>1, <2>2 DEF TypeOK
  <2> QED
    BY <2>1, <2>2, <2>3, <2>4, StaysPut, LinksStay DEF Registered
<1>5. ASSUME NEW t \in Threads, Wait(t) PROVE Registered'
  <2>1. /\ pc' = [pc EXCEPT ![t] = IF ret[t] = "dead" /\ attempt[t] = 1 THEN "lock" ELSE "return"]
        /\ device' = device
        /\ callbacks' = [callbacks EXCEPT ![device[t]] = callbacks[device[t]] \ {t}]
    BY <1>5 DEF Wait, Move, callVars
  <2>2. pc'[t] \notin Protecting \cup {"protect"}
    BY <2>1 DEF Protecting, TypeOK
  <2>3. \A i \in Instances, u \in Threads : u # t /\ u \in callbacks[i] => u \in callbacks'[i]
    BY <2>1 DEF TypeOK
  <2> QED
    BY <2>1, <2>2, <2>3, StaysPut, LinksStay DEF Registered
<1>6. ASSUME NEW t \in Threads, Call(t) \/ Signal(t) PROVE Registered'
  BY <1>2, <1>6 DEF Call, Signal, Move, Protecting, callVars
<1>7. ASSUME NEW t \in Threads, Reply(t) PROVE Registered'
  BY <1>2, <1>7 DEF Reply, Move, Protecting
<1>8. ASSUME NEW t \in Threads, Lock(t) \/ Ping(t) \/ GetService(t) \/ CreateCore(t) \/ Return(t)
      PROVE  Registered'
  BY <1>2, <1>8 DEF Lock, Ping, GetService, CreateCore, Return, Move, Protecting, callVars
<1>9. ASSUME NEW i \in Instances, NEW t \in Threads, NEW a \in Answers, Answer(i, t, a)
      PROVE  Registered'
  BY <1>1, <1>9 DEF Answer, callVars
<1>10. CASE UNCHANGED vars \/ Die \/ Restart
  BY <1>1, <1>10 DEF vars, Die, Restart, callVars
<1>11. ASSUME NEW i \in Instances, ServiceDied(i) PROVE Registered'
  BY <1>1, <1>11 DEF ServiceDied, callVars
<1> QED
  BY <1>3, <1>4, <1>5, <1>6, <1>7, <1>8, <1>9, <1>10, <1>11 DEF Next, ThreadStep

----------------------------------------------------------------------------
(* Who is owed an answer                                                   *)

\* A process that lives after a step has lived before it, or is a new one.
LEMMA NoResurrection ==
  ASSUME TypeOK, Processes, [Next]_vars, NEW i \in Instances, link[i] # "none", alive' = i
  PROVE  alive = i
<1>1. i <= instances
  BY DEF Processes
<1>2. ASSUME UNCHANGED alive PROVE alive = i
  BY <1>2
<1>3. CASE Die
  BY <1>3 DEF Die, Instances, None
<1>4. CASE Restart
  BY <1>1, <1>4 DEF Restart, TypeOK, Instances
<1> QED
  BY <1>2, <1>3, <1>4
     DEF Next, vars, ThreadStep, GetDevice, Protect, Call, Reply, Signal, Wait, Lock, Ping,
         GetService, CreateCore, CallAgain, Return, Answer, ServiceDied, serviceVars

\* A callback that has been notified stays so, and only an answer is no longer
\* owed.
LEMMA AnswersNotify ==
  ASSUME TypeOK, [Next]_vars, NEW t \in Threads, callback'[t] = Unnotified
  PROVE  callback[t] = Unnotified /\ \A i \in Instances : <<i, t>> \in owed => <<i, t>> \in owed'
<1>1. CASE UNCHANGED <<callback, owed>>
  BY <1>1
<1>2. ASSUME NEW i \in Instances, NEW u \in Threads, NEW a \in Answers, Answer(i, u, a)
      PROVE  callback[t] = Unnotified /\ \A j \in Instances : <<j, t>> \in owed => <<j, t>> \in owed'
  <2>1. /\ owed' = owed \ {<<i, u>>}
        /\ callback' = [callback EXCEPT ![u] = Notified(callback[u], [answer |-> a, of |-> i])]
    BY <1>2 DEF Answer
  <2>2. Notified(callback[u], [answer |-> a, of |-> i]) # Unnotified
    BY NotifiedIs, ResultTypes DEF TypeOK
  <2>3. u # t
    BY <2>1, <2>2 DEF TypeOK
  <2> QED
    BY <2>1, <2>3 DEF TypeOK
<1>3. ASSUME NEW i \in Instances, ServiceDied(i)
      PROVE  callback[t] = Unnotified /\ \A j \in Instances : <<j, t>> \in owed => <<j, t>> \in owed'
  BY <1>3, NotifiedIs, ResultTypes DEF ServiceDied, TypeOK
<1>4. ASSUME NEW u \in Threads, Signal(u)
      PROVE  callback[t] = Unnotified /\ \A j \in Instances : <<j, t>> \in owed => <<j, t>> \in owed'
  BY <1>4, NotifiedIs, ResultTypes DEF Signal, Signalled, TypeOK
<1>5. ASSUME NEW u \in Threads, Call(u)
      PROVE  callback[t] = Unnotified /\ \A j \in Instances : <<j, t>> \in owed => <<j, t>> \in owed'
  BY <1>5 DEF Call
<1> QED
  BY <1>1, <1>2, <1>3, <1>4, <1>5
     DEF Next, vars, ThreadStep, GetDevice, Protect, Reply, Wait, Lock, Ping, GetService, CreateCore,
         CallAgain, Return, Die, Restart

\* A thread that is at a label of a protected call, and was there before, has
\* the device that it had.
LEMMA DeviceStays ==
  ASSUME TypeOK, [Next]_vars, NEW t \in Threads, pc'[t] \in Protecting
  PROVE  device'[t] = device[t] /\ (pc[t] \in Protecting \cup {"protect"})
<1>1. CASE UNCHANGED <<pc, device>>
  BY <1>1
<1>2. ASSUME NEW u \in Threads, GetDevice(u) \/ CallAgain(u)
      PROVE  device'[t] = device[t] /\ pc[t] \in Protecting
  <2>1. u # t
    BY <1>2 DEF GetDevice, CallAgain, Move, Protecting, TypeOK
  <2> QED
    BY <1>2, <2>1 DEF GetDevice, CallAgain, Move, TypeOK
<1>3. ASSUME NEW u \in Threads, NEW from, NEW to, Move(u, from, to), device' = device,
             to \in Protecting => from \in Protecting \cup {"protect"}
      PROVE  device'[t] = device[t] /\ pc[t] \in Protecting \cup {"protect"}
  BY <1>3 DEF Move, TypeOK
<1>4. ASSUME NEW u \in Threads, Protect(u) \/ Call(u) \/ Signal(u)
      PROVE  device'[t] = device[t] /\ pc[t] \in Protecting \cup {"protect"}
  BY <1>3, <1>4 DEF Protect, Call, Signal, Protecting, callVars
<1>5. ASSUME NEW u \in Threads, Reply(u)
      PROVE  device'[t] = device[t] /\ pc[t] \in Protecting \cup {"protect"}
  BY <1>3, <1>5 DEF Reply, Protecting
<1>6. ASSUME NEW u \in Threads,
             Wait(u) \/ Lock(u) \/ Ping(u) \/ GetService(u) \/ CreateCore(u) \/ Return(u)
      PROVE  device'[t] = device[t] /\ pc[t] \in Protecting \cup {"protect"}
  BY <1>3, <1>6 DEF Wait, Lock, Ping, GetService, CreateCore, Return, Protecting, callVars
<1> QED
  BY <1>1, <1>2, <1>4, <1>5, <1>6
     DEF Next, vars, ThreadStep, Answer, Die, Restart, ServiceDied, callVars

\* The steps by which a thread gets to where it awaits an answer.
LEMMA Arrivals ==
  ASSUME TypeOK, [Next]_vars, NEW t \in Threads, pc'[t] # pc[t]
  PROVE  /\ pc'[t] = "reply" => Call(t)
         /\ pc'[t] = "wait" => Reply(t) \/ Signal(t)
<1>1. ASSUME NEW u \in Threads, u # t, NEW from, NEW to, Move(u, from, to) PROVE FALSE
  BY <1>1 DEF Move, TypeOK
<1>2. ASSUME NEW u \in Threads, u # t, ThreadStep(u) PROVE FALSE
  BY <1>1, <1>2
     DEF ThreadStep, GetDevice, Protect, Call, Reply, Signal, Wait, Lock, Ping, GetService,
         CreateCore, CallAgain, Return
<1>3. ThreadStep(t)
  BY <1>2 DEF Next, vars, Answer, Die, Restart, ServiceDied
<1>4. ASSUME NEW from, NEW to, to \notin {"reply", "wait"}, Move(t, from, to)
      PROVE  pc'[t] \notin {"reply", "wait"}
  BY <1>4 DEF Move, TypeOK
<1>5. CASE GetDevice(t) \/ Protect(t) \/ Signal(t) \/ Wait(t) \/ Lock(t) \/ Ping(t)
  <2>1. CASE GetDevice(t) \/ Protect(t) \/ Wait(t) \/ Lock(t) \/ Ping(t)
    BY <1>4, <2>1 DEF GetDevice, Protect, Wait, Lock, Ping
  <2>2. CASE Signal(t)
    BY <2>2 DEF Signal, Move, TypeOK
  <2> QED
    BY <1>5, <2>1, <2>2
<1>6. CASE GetService(t) \/ CreateCore(t) \/ CallAgain(t) \/ Return(t)
  BY <1>4, <1>6 DEF GetService, CreateCore, CallAgain, Return
<1>7. CASE Call(t)
  BY <1>7 DEF Call, Move, TypeOK
<1>8. CASE Reply(t)
  BY <1>8 DEF Reply, Move, TypeOK
<1> QED
  BY <1>3, <1>5, <1>6, <1>7, <1>8 DEF ThreadStep

\* The process that has the request owes an answer until it dies or answers.
LEMMA OwingNext ==
  ASSUME TypeOK, Processes, Registered, Owing, [Next]_vars  PROVE Owing'
<1> SUFFICES ASSUME NEW t \in Threads, pc'[t] = "reply", callback'[t] = Unnotified,
                    alive' = device'[t]
             PROVE  <<device'[t], t>> \in owed'
  BY DEF Owing
<1>1. device'[t] = device[t] /\ device[t] \in Instances /\ link[device[t]] # "none"
  BY DeviceStays DEF Registered, Protecting
<1>2. alive = device[t]
  BY <1>1, NoResurrection
<1>3. callback[t] = Unnotified /\ \A i \in Instances : <<i, t>> \in owed => <<i, t>> \in owed'
  BY AnswersNotify
<1>4. CASE pc[t] = "reply"
  BY <1>1, <1>2, <1>3, <1>4 DEF Owing
<1>5. CASE pc[t] # "reply"
  <2>1. Call(t)
    BY <1>5, Arrivals
  <2> QED
    BY <1>1, <1>2, <2>1 DEF Call
<1> QED
  BY <1>4, <1>5

\* A thread begins to wait with a callback that will be notified, and as long as
\* it has not been, nothing takes that promise back.
LEMMA WaitNext ==
  ASSUME TypeOK, Processes, Registered, Owing, NoOrphanedWait, [Next]_vars, Processes', Registered'
  PROVE  NoOrphanedWait'
<1> SUFFICES ASSUME NEW t \in Threads, pc'[t] = "wait", callback'[t] = Unnotified
             PROVE  /\ link'[device'[t]] = "linked" /\ t \in callbacks'[device'[t]]
                    /\ alive' = device'[t] => <<device'[t], t>> \in owed'
  BY DEF NoOrphanedWait
<1>1. /\ device'[t] = device[t] /\ device[t] \in Instances /\ link[device[t]] # "none"
      /\ t \in callbacks'[device'[t]]
  BY DeviceStays DEF Registered, Protecting
<1>2. callback[t] = Unnotified /\ \A i \in Instances : <<i, t>> \in owed => <<i, t>> \in owed'
  BY AnswersNotify
<1>3. alive' = device[t] => alive = device[t]
  BY <1>1, NoResurrection
<1>4. CASE pc[t] = "wait"
  <2>1. /\ link[device[t]] = "linked" /\ t \in callbacks[device[t]]
        /\ alive = device[t] => <<device[t], t>> \in owed
    BY <1>2, <1>4 DEF NoOrphanedWait
  <2>2. ASSUME link'[device[t]] # "linked" PROVE FALSE
    <3>1. ServiceDied(device[t])
      <4>1. ASSUME link' = link PROVE FALSE
        BY <2>1, <2>2, <4>1
      <4>2. ASSUME NEW u \in Threads, CreateCore(u) PROVE link'[device[t]] = "linked"
        BY <1>1, <2>1, <4>2 DEF CreateCore, Moved, TypeOK
      <4>3. ASSUME NEW u \in Threads, ThreadStep(u), ~CreateCore(u) PROVE link' = link
        BY <4>3 DEF ThreadStep, GetDevice, Protect, Call, Reply, Signal, Wait, Lock, Ping,
                    GetService, CallAgain, Return, coreVars
      <4>4. ASSUME NEW i \in Instances, ServiceDied(i), i # device[t]
            PROVE  link'[device[t]] = "linked"
        BY <1>1, <2>1, <4>4 DEF ServiceDied, TypeOK
      <4>5. ASSUME \/ \E i \in Instances, u \in Threads, a \in Answers : Answer(i, u, a)
                   \/ Die \/ Restart \/ UNCHANGED vars
            PROVE  link' = link
        BY <4>5 DEF Answer, Die, Restart, vars, coreVars
      <4> QED
        BY <2>2, <4>1, <4>2, <4>3, <4>4, <4>5 DEF Next
    <3>2. callback'[t] = Notified(callback[t], Failed)
      BY <2>1, <3>1 DEF ServiceDied
    <3> QED
      BY <3>2, NotifiedIs, ResultTypes DEF TypeOK
  <2> QED
    BY <1>1, <1>2, <1>3, <2>1, <2>2
<1>5. CASE pc[t] # "wait"
  <2>1. Reply(t) \/ Signal(t)
    BY <1>5, Arrivals
  <2>2. ~Signal(t)
    BY NotifiedIs, ResultTypes DEF Signal, Signalled, TypeOK
  <2>3. /\ pc[t] = "reply" /\ alive = device[t] /\ UNCHANGED <<link, owed>>
    <3>1. PICK r \in IF alive = device[t] THEN Statuses ELSE {"dead"} :
            Move(t, "reply", IF r = "ok" THEN "wait" ELSE "signal")
      BY <2>1, <2>2 DEF Reply
    <3>2. r = "ok"
      BY <3>1 DEF Move, TypeOK
    <3> QED
      BY <2>1, <2>2, <3>1, <3>2 DEF Reply, Move, coreVars
  <2>4. <<device[t], t>> \in owed
    BY <1>2, <2>3 DEF Owing
  <2>5. link[device[t]] = "linked"
    BY <1>1, <2>3 DEF Processes, TypeOK
  <2> QED
    BY <1>1, <2>3, <2>4, <2>5
<1> QED
  BY <1>4, <1>5

----------------------------------------------------------------------------
(* The lock                                                                *)

\* A step that neither gets the lock nor gives it up.
LEMMA StaysLocked ==
  ASSUME TypeOK, Locked, NEW t \in Threads, NEW from, NEW to, Move(t, from, to),
         UNCHANGED <<serviceVars, mMutex, core, service>>,
         from \in Recovering <=> to \in Recovering, to \notin {"getService", "create"}
  PROVE  Locked'
<1>1. \A u \in Threads : pc'[u] = IF u = t THEN to ELSE pc[u]
  BY DEF Move, TypeOK
<1>2. pc[t] = from
  BY DEF Move
<1> QED
  BY <1>1, <1>2 DEF Locked, serviceVars

\* A step that gives it up.
LEMMA Unlocks ==
  ASSUME TypeOK, Locked, NEW t \in Threads, NEW from \in Recovering, NEW to, Move(t, from, to),
         UNCHANGED <<serviceVars, core>>, mMutex' = {}, to \notin Recovering
  PROVE  Locked'
<1>1. pc[t] = from /\ \A u \in Threads : pc'[u] = IF u = t THEN to ELSE pc[u]
  BY DEF Move, TypeOK
<1>2. \A u \in Threads : pc[u] \in Recovering => u = t
  BY <1>1 DEF Locked
<1>3. \A u \in Threads : pc'[u] \notin Recovering
  BY <1>1, <1>2
<1> QED
  BY <1>3 DEF Locked, Recovering

LEMMA LockedNext ==
  ASSUME TypeOK, Processes, Locked, [Next]_vars  PROVE Locked'
<1>1. ASSUME UNCHANGED <<pc, mMutex, core, service, serviceVars>> PROVE Locked'
  BY <1>1 DEF Locked, serviceVars
<1>2. CASE Die
  BY <1>2 DEF Die, Locked, Processes, TypeOK, coreVars, callVars, Instances, None
<1>3. CASE Restart
  BY <1>3 DEF Restart, Locked, Processes, TypeOK, coreVars, callVars, Instances
<1>4. ASSUME NEW t \in Threads, Lock(t) PROVE Locked'
  <2>1. /\ mMutex = {} /\ mMutex' = {t} /\ UNCHANGED <<serviceVars, core, service>>
        /\ \A u \in Threads : pc'[u] = IF u = t THEN "ping" ELSE pc[u]
    BY <1>4 DEF Lock, Move, TypeOK, callVars
  <2>2. \A u \in Threads : pc[u] \notin Recovering
    BY <2>1 DEF Locked
  <2> QED
    BY <2>1, <2>2 DEF Locked, Recovering
<1>5. ASSUME NEW t \in Threads, Ping(t) PROVE Locked'
  <2>1. CASE alive # core
    <3>1. /\ pc[t] = "ping" /\ UNCHANGED <<serviceVars, mMutex, core, service>>
          /\ \A u \in Threads : pc'[u] = IF u = t THEN "getService" ELSE pc[u]
      BY <1>5, <2>1 DEF Ping, PingIsDead, Move, TypeOK, coreVars, callVars
    <3> QED
      BY <2>1, <3>1 DEF Locked, Recovering, serviceVars
  <2>2. CASE alive = core
    BY <1>5, <2>2, StaysLocked DEF Ping, PingIsDead, Recovering, coreVars, callVars
  <2> QED
    BY <2>1, <2>2
<1>6. ASSUME NEW t \in Threads, GetService(t) PROVE Locked'
  <2>1. CASE alive = None
    BY <1>6, <2>1, Unlocks DEF GetService, Recovering
  <2>2. CASE alive # None
    <3>1. /\ pc[t] = "getService" /\ UNCHANGED <<serviceVars, mMutex, core>>
          /\ service' = [service EXCEPT ![t] = alive]
          /\ \A u \in Threads : pc'[u] = IF u = t THEN "create" ELSE pc[u]
      BY <1>6, <2>2 DEF GetService, Move, TypeOK
    <3>2. alive > core /\ alive <= instances
      BY <2>2, <3>1 DEF Locked, Processes, TypeOK, Instances
    <3>3. \A u \in Threads : service'[u] = IF u = t THEN alive ELSE service[u]
      BY <3>1 DEF TypeOK
    <3> QED
      BY <3>1, <3>2, <3>3 DEF Locked, Recovering, serviceVars
  <2> QED
    BY <2>1, <2>2
<1>7. ASSUME NEW t \in Threads, CreateCore(t) PROVE Locked'
  <2>1. CASE alive = service[t]
    <3>1. /\ pc[t] = "create" /\ UNCHANGED <<serviceVars, mMutex, service>>
          /\ \A u \in Threads : pc'[u] = IF u = t THEN "again" ELSE pc[u]
      BY <1>7, <2>1 DEF CreateCore, Move, TypeOK, callVars
    <3>2. \A u \in Threads : pc[u] \in Recovering => u = t
      BY <3>1 DEF Locked, Recovering
    <3> QED
      BY <3>1, <3>2 DEF Locked, Recovering
  <2>2. CASE alive # service[t]
    BY <1>7, <2>2, Unlocks DEF CreateCore, Recovering
  <2> QED
    BY <2>1, <2>2
<1>8. ASSUME NEW t \in Threads, CallAgain(t) PROVE Locked'
  BY <1>8, Unlocks DEF CallAgain, Recovering
<1>9. ASSUME NEW t \in Threads, GetDevice(t) \/ Protect(t) \/ Call(t) \/ Signal(t) \/ Return(t)
      PROVE  Locked'
  BY <1>9, StaysLocked DEF GetDevice, Protect, Call, Signal, Return, Recovering, coreVars, callVars
<1>10. ASSUME NEW t \in Threads, Reply(t) PROVE Locked'
  BY <1>10, StaysLocked DEF Reply, Recovering, coreVars
<1>11. ASSUME NEW t \in Threads, Wait(t) PROVE Locked'
  BY <1>11, StaysLocked DEF Wait, Recovering, coreVars, callVars
<1>12. ASSUME NEW i \in Instances, NEW t \in Threads, NEW a \in Answers, Answer(i, t, a)
       PROVE  Locked'
  BY <1>1, <1>12 DEF Answer, coreVars, callVars
<1>13. ASSUME UNCHANGED vars \/ \E i \in Instances : ServiceDied(i) PROVE Locked'
  BY <1>1, <1>13 DEF vars, ServiceDied, coreVars, callVars
<1> QED
  BY <1>2, <1>3, <1>4, <1>5, <1>6, <1>7, <1>8, <1>9, <1>10, <1>11, <1>12, <1>13
     DEF Next, ThreadStep

----------------------------------------------------------------------------
LEMMA RecoverInit == Init => RecoverInv
<1> SUFFICES ASSUME Init PROVE RecoverInv
  OBVIOUS
<1>1. 1 \in Instances /\ None \notin Instances
  BY RecoverableAssumption DEF Instances, None
<1>2. TypeOK
  BY <1>1, ResultTypes DEF Init, TypeOK, Labels
<1>3. Processes
  BY <1>1 DEF Init, Processes, Instances
<1>4. Registered /\ Owing /\ Locked /\ NoOrphanedWait
  BY DEF Init, Registered, Owing, Locked, NoOrphanedWait, Protecting, Recovering
<1> QED
  BY <1>2, <1>3, <1>4 DEF RecoverInv

LEMMA RecoverNext == RecoverInv /\ [Next]_vars => RecoverInv'
<1> SUFFICES ASSUME RecoverInv, [Next]_vars PROVE RecoverInv'
  OBVIOUS
<1>1. TypeOK /\ Processes /\ Registered /\ Owing /\ Locked /\ NoOrphanedWait
  BY DEF RecoverInv
<1>2. TypeOK'
  <2>1. CASE UNCHANGED vars
    BY <1>1, <2>1 DEF vars, serviceVars, coreVars, callVars, TypeOK
  <2> QED
    BY <1>1, <2>1, DriverKeepsTypes, ThreadKeepsTypes DEF Next
<1>3. Processes' /\ Registered'
  BY <1>1, ProcessesNext, RegisteredNext
<1>4. Owing' /\ Locked' /\ NoOrphanedWait'
  BY <1>1, <1>3, OwingNext, LockedNext, WaitNext
<1> QED
  BY <1>2, <1>3, <1>4 DEF RecoverInv

LEMMA RecoverAlways == Spec => []RecoverInv
BY RecoverInit, RecoverNext, PTL DEF Spec

\* Whoever waits for its PreparedModelCallback has an answer coming or a death
\* handler that knows the callback, for any number of threads and of restarts:
\* callProtected registers the callback before the call, and recoverable links
\* a new handler to every new device.
THEOREM NobodyOrphaned == Spec => []NoOrphanedWait
<1>1. RecoverInv => NoOrphanedWait
  BY DEF RecoverInv
<1> QED
  BY <1>1, RecoverAlways, PTL

\* recoverable replaces mCore only by the device of a process that started
\* later, however many threads find the driver dead at once; none undoes the
\* recovery of another.
Renewed == [][core' # core => core' > core]_vars

THEOREM Renews == Spec => Renewed
<1>1. RecoverInv /\ [Next]_vars => [core' # core => core' > core]_vars
  <2> SUFFICES ASSUME TypeOK, Locked, [Next]_vars, core' # core PROVE core' > core
    BY DEF RecoverInv
  <2>1. PICK t \in Threads : CreateCore(t)
    BY DEF Next, vars, ThreadStep, GetDevice, Protect, Call, Reply, Signal, Wait, Lock, Ping,
           GetService, CallAgain, Return, Answer, Die, Restart, ServiceDied, coreVars
  <2> QED
    BY <2>1 DEF CreateCore, Move, Locked
<1> QED
  BY <1>1, RecoverAlways, PTL DEF Spec, Renewed
=============================================================================
