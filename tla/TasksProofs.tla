----------------------------- MODULE TasksProofs -----------------------------
(***************************************************************************)
(* Theorems about Tasks, for any clients, renderers and number of calls.   *)
(*                                                                         *)
(* The invariant, AnswersInv, says of each call where it stands: not made, *)
(* waiting with its invocation open, or answered.  What a task may be      *)
(* doing, and the order of the tasks, are in ClientCallsProofs.            *)
(***************************************************************************)
EXTENDS Tasks, TLAPS

CallOK(c) ==
    /\ c <= sent => queue_of[c] \in Queue
    /\ task[c] # NoTask => c <= sent
    /\ IF task[c] = NoTask
       THEN replies[c] = IF c <= sent THEN 1 ELSE 0
       ELSE replies[c] = IF task[c].invocation THEN 0 ELSE 1

AnswersInv == TypeOK /\ \A c \in Call : CallOK(c)

\* A step that answers the calls C and makes none: those tasks end or close
\* their invocation, the others keep theirs as it is.
StepAnswers(C) ==
    /\ UNCHANGED callVars
    /\ C \subseteq Live
    /\ Answer(C)
    /\ task' \in [Call -> Task \cup {NoTask}]
    /\ \A c \in C : task'[c] = NoTask \/ ~task'[c].invocation
    /\ \A c \in Call \ C :
          \/ task'[c] = task[c]
          \/ /\ task[c] \in Task /\ task'[c] \in Task
             /\ task'[c].invocation = task[c].invocation

-----------------------------------------------------------------------------
\* A task is never mistaken for none.
LEMMA TaskIsSome == \A t \in Task : t # NoTask
<1> SUFFICES ASSUME NEW t \in Task, t = NoTask PROVE FALSE
    OBVIOUS
<1>1. t.type \in Types
    BY DEF Task
<1>2. t.type = "none"
    BY DEF NoTask
<1> QED
    BY <1>1, <1>2, TasksAssumption DEF SyncTypes, SettingsTypes, DeviceTypes

LEMMA LiveIsTask ==
    ASSUME TypeOK, NEW c \in Call
    PROVE  /\ c \in Live <=> task[c] \in Task
           /\ c \in Running <=> (task[c] \in Task /\ task[c].current)
    BY TaskIsSome DEF TypeOK, Live, Running

\* The operators on one record return a task, and change the invocation only
\* to close it.
LEMMA NewTaskType ==
    ASSUME NEW type \in Types
    PROVE  NewTask(type) \in Task
    BY DEF NewTask, Task, Doing

LEMMA AddIdleType ==
    ASSUME NEW t \in Task
    PROVE  AddIdle(t) \in Task /\ AddIdle(t).invocation = t.invocation
    BY DEF AddIdle, Task

LEMMA CompleteType ==
    ASSUME NEW t \in Task
    PROVE  /\ CompleteLocally(t) \in Task
           /\ CompleteAction(t) \in Task
           /\ CompleteLocally(t).invocation = t.invocation
           /\ CompleteAction(t).invocation = t.invocation
<1> DEFINE u == [t EXCEPT !.doing = "nothing"]
<1>1. u \in Task /\ u.invocation = t.invocation
    BY DEF Task, Doing
<1> HIDE DEF u
<1>2. CompleteLocally(t) \in Task /\ CompleteLocally(t).invocation = t.invocation
    BY <1>1, AddIdleType DEF CompleteLocally, u
<1> QED
    BY <1>2 DEF CompleteAction, Task

LEMMA BeginType ==
    ASSUME NEW t \in Task, NEW n \in 0 .. 1
    PROVE  BeginAction(t, n) \in Task /\ BeginAction(t, n).invocation = t.invocation
<1> DEFINE b == [t EXCEPT !.doing = "action", !.left = n]
<1>1. b \in Task /\ b.invocation = t.invocation
    BY DEF Task, Doing
<1> HIDE DEF b
<1>2. /\ [b EXCEPT !.connected = TRUE] \in Task
      /\ [b EXCEPT !.connected = TRUE].invocation = b.invocation
    BY <1>1 DEF Task
<1> QED
    BY <1>1, <1>2, AddIdleType DEF BeginAction, b

LEMMA ActionsRange == \A type : Actions(type) \subseteq 0 .. 2
    BY DEF Actions

LEMMA OperateType ==
    ASSUME NEW t \in Task, NEW n \in 0 .. 2
    PROVE  Operate(t, n) \in Task /\ Operate(t, n).invocation = t.invocation
<1>1. CASE n = 0
    BY <1>1, CompleteType DEF Operate
<1>2. CASE n # 0
  <2>1. n - 1 \in 0 .. 1
      BY <1>2
  <2> QED
      BY <1>2, <2>1, BeginType DEF Operate
<1> QED
    BY <1>1, <1>2

LEMMA CancelType ==
    ASSUME NEW t \in Task
    PROVE  CancelTask(t) \in Task /\ ~CancelTask(t).invocation
<1> DEFINE c == [t EXCEPT !.invocation = FALSE, !.cancelled = TRUE]
<1>1. c \in Task /\ c.invocation = FALSE
    BY DEF Task
<1> HIDE DEF c
<1> QED
    BY <1>1, CompleteType DEF CancelTask, c

LEMMA LoseProxyType ==
    ASSUME NEW t \in Task
    PROVE  LoseProxy(t) \in Task /\ LoseProxy(t).invocation = t.invocation
<1>1. /\ [t EXCEPT !.doing = "introspection_lost"] \in Task
      /\ [t EXCEPT !.doing = "dropped"] \in Task
      /\ [t EXCEPT !.doing = "introspection_lost"].invocation = t.invocation
      /\ [t EXCEPT !.doing = "dropped"].invocation = t.invocation
    BY DEF Task, Doing
<1> QED
    BY <1>1 DEF LoseProxy

-----------------------------------------------------------------------------
\* A step that answers tasks keeps the account of the calls.
LEMMA AnswersKept ==
    ASSUME AnswersInv, NEW C, StepAnswers(C)
    PROVE  /\ replies' \in [Call -> Nat]
           /\ \A c \in Call : CallOK(c)'
<1>1. TypeOK /\ UNCHANGED <<sent, queue_of>>
    BY DEF AnswersInv, StepAnswers, callVars
<1>2. replies' \in [Call -> Nat]
    BY <1>1 DEF StepAnswers, Answer, TypeOK
<1>3. ASSUME NEW c \in Call PROVE CallOK(c)'
  <2>1. CallOK(c) /\ task[c] \in Task \cup {NoTask} /\ task'[c] \in Task \cup {NoTask}
      BY <1>1 DEF AnswersInv, TypeOK, StepAnswers
  <2>2. CASE c \in C
    <3>1. task[c] # NoTask
        BY <2>2 DEF StepAnswers, Live
    <3>2. replies'[c] = 1
        BY <1>1, <2>1, <2>2, <3>1 DEF CallOK, StepAnswers, Answer, TypeOK
    <3> QED
        BY <1>1, <2>1, <2>2, <3>1, <3>2 DEF CallOK, StepAnswers
  <2>3. CASE c \notin C
    <3>1. replies'[c] = replies[c]
        BY <2>3 DEF StepAnswers, Answer
    <3>2. CASE task'[c] = task[c]
        BY <1>1, <2>1, <3>1, <3>2 DEF CallOK
    <3>3. CASE /\ task[c] \in Task /\ task'[c] \in Task
               /\ task'[c].invocation = task[c].invocation
      <4>1. task[c] # NoTask /\ task'[c] # NoTask
          BY <3>3, TaskIsSome
      <4> QED
          BY <1>1, <2>1, <3>1, <3>3, <4>1 DEF CallOK
    <3> QED
        BY <2>3, <3>2, <3>3 DEF StepAnswers
  <2> QED
      BY <2>2, <2>3
<1> QED
    BY <1>2, <1>3

\* Cancelling queues answers the tasks they hold.
LEMMA QueuesCancelled ==
    ASSUME TypeOK, UNCHANGED callVars, NEW Q, CancelQueues(Q)
    PROVE  StepAnswers({c \in Live : queue_of[c] \in Q})
<1> DEFINE C == {c \in Live : queue_of[c] \in Q}
<1>1. \A c \in C : c \in Call /\ task[c] \in Task
    BY LiveIsTask DEF Live
<1>2. \A c \in C : CancelTask(task[c]) \in Task /\ ~CancelTask(task[c]).invocation
    BY <1>1, CancelType
<1>3. task' \in [Call -> Task \cup {NoTask}]
    BY <1>2 DEF TypeOK, CancelQueues
<1> QED
    BY <1>1, <1>2, <1>3 DEF StepAnswers, CancelQueues

\* So does the loss of a renderer.
LEMMA DeviceLostAnswers ==
    ASSUME TypeOK, NEW s \in Device, DeviceLost(s)
    PROVE  StepAnswers({c \in Live : queue_of[c][2] = s})
<1> DEFINE C == {c \in Live : queue_of[c][2] = s}
<1>1. \A c \in C : c \in Call /\ LoseProxy(task[c]) \in Task
    BY LiveIsTask, LoseProxyType DEF Live
<1>2. \A c \in C : /\ CancelTask(LoseProxy(task[c])) \in Task
                   /\ ~CancelTask(LoseProxy(task[c])).invocation
    BY <1>1, CancelType
<1>3. task' \in [Call -> Task \cup {NoTask}]
    BY <1>2 DEF TypeOK, DeviceLost
<1> QED
    BY <1>1, <1>2, <1>3 DEF StepAnswers, DeviceLost

\* And the end of a task, which takes the pending ones of a removed queue.
LEMMA EndAnswers ==
    ASSUME TypeOK, UNCHANGED callVars, NEW c \in Live, TaskEnds(c)
    PROVE  /\ \E C \in SUBSET Live : StepAnswers(C)
           /\ deferred' \subseteq deferred
           /\ quit_idle' \in BOOLEAN
           /\ UNCHANGED <<quitting, stopped>>
<1> DEFINE quits   == quitting /\ Running \subseteq {c}
           removed == queue_of[c] \in deferred /\ ~quits
           C == {c} \cup IF removed THEN Pending(queue_of[c]) ELSE {}
<1>1. C \subseteq Live
    BY DEF Pending, TasksOf
<1>2. task' \in [Call -> Task \cup {NoTask}]
    BY DEF TypeOK, TaskEnds
<1>3. StepAnswers(C)
    BY <1>1, <1>2 DEF StepAnswers, TaskEnds, Live
<1> QED
    BY <1>1, <1>3 DEF TaskEnds, TypeOK

\* A step of one task that answers nobody.
LEMMA TaskSteps ==
    ASSUME TypeOK, UNCHANGED <<callVars, replies>>, NEW c \in Live,
           NEW t \in Task, t.invocation = task[c].invocation,
           task' = [task EXCEPT ![c] = t]
    PROVE  StepAnswers({})
<1>1. c \in Call /\ task[c] \in Task
    BY LiveIsTask DEF Live
<1>2. task' \in [Call -> Task \cup {NoTask}]
    BY DEF TypeOK
<1>3. Answer({})
    BY DEF Answer, TypeOK
<1> QED
    BY <1>1, <1>2, <1>3 DEF StepAnswers, TypeOK

-----------------------------------------------------------------------------
LEMMA InitAnswers == Init => AnswersInv
<1> SUFFICES ASSUME Init PROVE AnswersInv
    OBVIOUS
<1>1. TypeOK
  <2>1. sent \in 0 .. MaxCalls
      BY TasksAssumption DEF Init
  <2>2. queue_of \in [Call -> Queue \cup {NoQueue}]
      BY DEF Init
  <2>3. task \in [Call -> Task \cup {NoTask}]
      BY DEF Init
  <2>4. replies \in [Call -> Nat]
      BY DEF Init
  <2>5. never_quit \in BOOLEAN /\ quitting \in BOOLEAN
      BY DEF Init
  <2>6. quit_idle \in BOOLEAN /\ stopped \in BOOLEAN
      BY DEF Init
  <2> QED
      BY <2>1, <2>2, <2>3, <2>4, <2>5, <2>6 DEF Init, TypeOK
<1>2. \A c \in Call : CallOK(c)
    BY DEF Init, CallOK, Call
<1> QED
    BY <1>1, <1>2 DEF AnswersInv

\* The types of the variables that the account of the calls does not use.
RestOK ==
    /\ deferred \subseteq Queue
    /\ listed \subseteq Device /\ lost \subseteq Device
    /\ connected \subseteq Client /\ watched \subseteq connected
    /\ watchers \in Nat
    /\ never_quit \in BOOLEAN /\ quitting \in BOOLEAN
    /\ quit_idle \in BOOLEAN /\ stopped \in BOOLEAN

LEMMA StepKeeps ==
    ASSUME AnswersInv, NEW C, StepAnswers(C), RestOK'
    PROVE  AnswersInv'
<1>1. replies' \in [Call -> Nat] /\ \A c \in Call : CallOK(c)'
    BY AnswersKept
<1>2. /\ sent' \in 0 .. MaxCalls
      /\ queue_of' \in [Call -> Queue \cup {NoQueue}]
      /\ task' \in [Call -> Task \cup {NoTask}]
    BY DEF AnswersInv, TypeOK, StepAnswers, callVars
<1>3. TypeOK'
    BY <1>1, <1>2 DEF TypeOK, RestOK
<1> QED
    BY <1>1, <1>3 DEF AnswersInv

\* A step that touches no task.
LEMMA IdleStep ==
    ASSUME TypeOK, UNCHANGED <<callVars, taskVars>>
    PROVE  StepAnswers({})
    BY DEF TypeOK, taskVars, StepAnswers, Answer

\* Setting current does not change what the call waits for.
LEMMA CurrentType ==
    ASSUME NEW t \in Task
    PROVE  /\ [t EXCEPT !.current = TRUE] \in Task
           /\ [t EXCEPT !.current = TRUE].invocation = t.invocation
    BY DEF Task

\* A new call is answered at once or has an open invocation.
LEMMA MethodCallAnswers ==
    ASSUME AnswersInv, NEW k \in Client, NEW s \in Sink, NEW type \in Types,
           MethodCall(k, s, type)
    PROVE  AnswersInv'
<1> DEFINE c == sent + 1
<1>1. c \in Call /\ TypeOK /\ sent \in Nat
    BY TasksAssumption DEF MethodCall, AnswersInv, TypeOK, Call
<1>2. task[c] = NoTask /\ replies[c] = 0
  <2>1. CallOK(c) /\ ~(c <= sent)
      BY <1>1 DEF AnswersInv
  <2> QED
      BY <2>1 DEF CallOK
<1>3. /\ sent' = c
      /\ queue_of' = [queue_of EXCEPT ![c] = <<k, s>>]
      /\ UNCHANGED <<deferred, listed, lost, never_quit, quitting, quit_idle,
                     stopped>>
      /\ Refuse(c) \/ AddTask(c, k, type)
    BY DEF MethodCall, deviceVars, quitVars
<1>4. /\ task' \in [Call -> Task \cup {NoTask}]
      /\ replies' \in [Call -> Nat]
      /\ \A d \in Call \ {c} : task'[d] = task[d] /\ replies'[d] = replies[d]
      /\ \/ task'[c] = NoTask /\ replies'[c] = 1
         \/ /\ task'[c] \in Task /\ task'[c].invocation
            /\ replies'[c] = 0
  <2>1. CASE Refuse(c)
      BY <1>1, <1>2, <2>1 DEF Refuse, TypeOK
  <2>2. CASE AddTask(c, k, type)
    <3>1. NewTask(type) \in Task /\ NewTask(type).invocation
        BY NewTaskType DEF NewTask
    <3> QED
        BY <1>1, <1>2, <2>2, <3>1 DEF AddTask, TypeOK
  <2> QED
      BY <1>3, <2>1, <2>2
<1>5. /\ connected' \subseteq Client /\ watched' \subseteq connected'
      /\ watchers' \in Nat
    BY <1>1, <1>3 DEF Refuse, AddTask, clientVars, TypeOK, MethodCall
<1>6. sent' \in 0 .. MaxCalls /\ queue_of' \in [Call -> Queue \cup {NoQueue}]
    BY <1>1, <1>3 DEF TypeOK, Queue, Call
<1>7. TypeOK'
    BY <1>1, <1>3, <1>4, <1>5, <1>6 DEF TypeOK
<1>8. ASSUME NEW d \in Call PROVE CallOK(d)'
  <2>1. CASE d = c
    <3>1. queue_of'[d] \in Queue /\ d <= sent'
        BY <1>1, <1>3, <2>1 DEF TypeOK, Queue
    <3>2. CASE task'[c] = NoTask /\ replies'[c] = 1
        BY <2>1, <3>1, <3>2 DEF CallOK
    <3>3. CASE task'[c] \in Task /\ task'[c].invocation /\ replies'[c] = 0
        BY <2>1, <3>1, <3>3, TaskIsSome DEF CallOK
    <3> QED
        BY <1>4, <3>2, <3>3
  <2>2. CASE d # c
    <3>1. task'[d] = task[d] /\ replies'[d] = replies[d] /\ CallOK(d)
        BY <1>4, <2>2 DEF AnswersInv
    <3>2. queue_of'[d] = queue_of[d] /\ (d <= sent' <=> d <= sent)
        BY <1>1, <1>3, <2>2 DEF TypeOK, Call
    <3> QED
        BY <3>1, <3>2 DEF CallOK
  <2> QED
      BY <2>1, <2>2
<1> QED
    BY <1>7, <1>8 DEF AnswersInv

\* Removing a client answers its calls, or every call when the service quits.
LEMMA RemoveClientAnswers ==
    ASSUME TypeOK, UNCHANGED callVars, NEW k \in Client, RemoveClient(k)
    PROVE  /\ \E C \in SUBSET Live : StepAnswers(C)
           /\ deferred' \subseteq Queue
           /\ watchers' \in Nat
           /\ quitting' \in BOOLEAN /\ quit_idle' \in BOOLEAN
<1> DEFINE n == IF watchers > 0 THEN watchers - 1 ELSE 0
           quits == n = 0 /\ ~never_quit
           Q == IF quits /\ Running # {} THEN Queue ELSE {k} \X Sink
<1>1. CancelQueues(Q) /\ DeferRemoval({k} \X Sink)
    BY DEF RemoveClient
<1>2. StepAnswers({c \in Live : queue_of[c] \in Q})
    BY <1>1, QueuesCancelled
<1>3. deferred' \subseteq Queue
    BY <1>1 DEF DeferRemoval, TypeOK, Queue
<1>4. watchers' = n /\ n \in Nat
    BY DEF RemoveClient, TypeOK
<1>5. quitting' \in BOOLEAN /\ quit_idle' \in BOOLEAN
    BY DEF RemoveClient, TypeOK
<1> QED
    BY <1>2, <1>3, <1>4, <1>5

\* A task of the queue is started.
LEMMA ProcessAnswers ==
    ASSUME AnswersInv, NEW c \in Call, Process(c)
    PROVE  AnswersInv'
<1>1. /\ TypeOK /\ c \in Live /\ task[c] \in Task
      /\ UNCHANGED <<callVars, deviceVars, clientVars>>
    BY LiveIsTask DEF AnswersInv, Process
<1>2. \/ ProcessSync(c)
      \/ ProcessSetting(c)
      \/ ProcessDevice(c)
    BY DEF Process
<1> DEFINE t == [task[c] EXCEPT !.current = TRUE]
<1>3. t \in Task /\ t.invocation = task[c].invocation
    BY <1>1, CurrentType
<1>4. CASE ProcessSync(c)
  <2>1. TaskEnds(c) /\ UNCHANGED never_quit
      BY <1>4 DEF ProcessSync
  <2>2. /\ \E C \in SUBSET Live : StepAnswers(C)
        /\ deferred' \subseteq deferred
        /\ quit_idle' \in BOOLEAN
        /\ UNCHANGED <<quitting, stopped>>
      BY <1>1, <2>1, EndAnswers
  <2>3. RestOK'
      BY <1>1, <2>1, <2>2 DEF RestOK, TypeOK, deviceVars, clientVars
  <2> QED
      BY <2>2, <2>3, StepKeeps
<1>5. CASE ProcessSetting(c)
  <2>1. /\ task' = [task EXCEPT ![c] = CompleteLocally(t)]
        /\ UNCHANGED <<replies, deferred, quitting, quit_idle, stopped>>
        /\ never_quit' \in BOOLEAN
      BY <1>1, <1>5 DEF ProcessSetting, TypeOK
  <2>2. StepAnswers({})
      BY <1>1, <1>3, <2>1, CompleteType, TaskSteps
  <2>3. RestOK'
      BY <1>1, <2>1 DEF RestOK, TypeOK, deviceVars, clientVars
  <2> QED
      BY <2>2, <2>3, StepKeeps
<1>6. CASE ProcessDevice(c)
  <2> DEFINE introspect == [t EXCEPT !.doing = "introspection"]
  <2>1. introspect \in Task /\ introspect.invocation = t.invocation
    <3> HIDE DEF t
    <3> QED
        BY <1>3 DEF Task, Doing
  <2>2. /\ UNCHANGED <<replies, deferred, quitVars>>
        /\ \E r \in {CompleteLocally(t), introspect}
                    \cup {Operate(t, n) : n \in Actions(t.type)} :
              task' = [task EXCEPT ![c] = r]
      BY <1>6 DEF ProcessDevice
  <2>3. \A n \in Actions(t.type) :
           Operate(t, n) \in Task /\ Operate(t, n).invocation = t.invocation
      BY <1>3, ActionsRange, OperateType
  <2>4. PICK r \in Task : /\ r.invocation = task[c].invocation
                          /\ task' = [task EXCEPT ![c] = r]
    <3> HIDE DEF t, introspect
    <3> QED
        BY <1>3, <2>1, <2>2, <2>3, CompleteType
  <2>5. StepAnswers({})
      BY <1>1, <2>2, <2>4, TaskSteps
  <2>6. RestOK'
      BY <1>1, <2>2 DEF RestOK, TypeOK, deviceVars, clientVars, quitVars
  <2> QED
      BY <2>5, <2>6, StepKeeps
<1> QED
    BY <1>2, <1>4, <1>5, <1>6

\* The introspection or an action of a running task is answered.
LEMMA AnswerArrives ==
    ASSUME AnswersInv, NEW c \in Call,
           Introspected(c) \/ LastAnswer(c) \/ NextAnswer(c)
    PROVE  AnswersInv'
<1>1. /\ TypeOK /\ c \in Live /\ task[c] \in Task
      /\ UNCHANGED <<callVars, replies, deferred, deviceVars, clientVars,
                     quitVars>>
    BY LiveIsTask DEF AnswersInv, Introspected, LastAnswer, NextAnswer, Running
<1>2. PICK r \in Task : /\ r.invocation = task[c].invocation
                        /\ task' = [task EXCEPT ![c] = r]
  <2>1. CASE Introspected(c)
    <3>1. \/ task' = [task EXCEPT ![c] = CompleteLocally(task[c])]
          \/ \E n \in Actions(task[c].type) :
                task' = [task EXCEPT ![c] = Operate(task[c], n)]
        BY <1>1, <2>1 DEF Introspected, TypeOK
    <3>2. \A n \in Actions(task[c].type) :
             /\ Operate(task[c], n) \in Task
             /\ Operate(task[c], n).invocation = task[c].invocation
        BY <1>1, ActionsRange, OperateType
    <3> QED
        BY <1>1, <3>1, <3>2, CompleteType
  <2>2. CASE LastAnswer(c)
      BY <1>1, <2>2, CompleteType DEF LastAnswer, TypeOK
  <2>3. CASE NextAnswer(c)
    <3>1. /\ [task[c] EXCEPT !.left = 0] \in Task
          /\ [task[c] EXCEPT !.left = 0].invocation = task[c].invocation
        BY <1>1 DEF Task
    <3>2. task' = [task EXCEPT ![c] = [task[c] EXCEPT !.left = 0]]
        BY <1>1, <2>3 DEF NextAnswer, TypeOK
    <3> QED
        BY <3>1, <3>2
  <2> QED
      BY <2>1, <2>2, <2>3
<1>3. StepAnswers({})
    BY <1>1, <1>2, TaskSteps
<1>4. RestOK'
    BY <1>1 DEF RestOK, TypeOK, deviceVars, clientVars, quitVars
<1> QED
    BY <1>3, <1>4, StepKeeps

\* The proxies of a context are destroyed under some of the running tasks.
LEMMA ContextLostAnswers ==
    ASSUME AnswersInv, NEW s \in Device, ContextLost(s)
    PROVE  AnswersInv'
<1>1. /\ TypeOK
      /\ UNCHANGED <<callVars, replies, deferred, deviceVars, clientVars,
                     quitVars>>
    BY DEF AnswersInv, ContextLost
<1>2. PICK C \in SUBSET {c \in Running : queue_of[c][2] = s} :
          task' = [c \in Call |-> IF c \in C THEN LoseProxy(task[c])
                                            ELSE task[c]]
    BY DEF ContextLost
<1>3. \A c \in C : /\ c \in Call /\ task[c] \in Task
                   /\ LoseProxy(task[c]) \in Task
                   /\ LoseProxy(task[c]).invocation = task[c].invocation
    BY <1>1, LiveIsTask, LoseProxyType DEF Running, Live
<1>4. task' \in [Call -> Task \cup {NoTask}]
    BY <1>1, <1>2, <1>3 DEF TypeOK
<1>5. StepAnswers({})
    BY <1>1, <1>2, <1>3, <1>4 DEF StepAnswers, Answer, TypeOK
<1>6. RestOK'
    BY <1>1 DEF RestOK, TypeOK, deviceVars, clientVars, quitVars
<1> QED
    BY <1>5, <1>6, StepKeeps

\* What a client does besides calling: Cancel, Release, leaving the bus.
LEMMA ClientAnswers ==
    ASSUME AnswersInv, NEW k \in Client,
           \/ \E s \in Device : CancelCall(k, s)
           \/ Release(k)
           \/ ClientLost(k)
    PROVE  AnswersInv'
<1>1. TypeOK
    BY DEF AnswersInv
<1>2. ASSUME NEW s \in Device, CancelCall(k, s) PROVE AnswersInv'
  <2>1. /\ UNCHANGED <<callVars, deferred, deviceVars, clientVars, quitVars>>
        /\ CancelQueues({<<k, s>>})
      BY <1>2 DEF CancelCall
  <2>2. StepAnswers({c \in Live : queue_of[c] \in {<<k, s>>}})
      BY <1>1, <2>1, QueuesCancelled
  <2>3. RestOK'
      BY <1>1, <2>1 DEF RestOK, TypeOK, deviceVars, clientVars, quitVars
  <2> QED
      BY <2>2, <2>3, StepKeeps
<1>3. ASSUME RemoveClient(k), connected' \subseteq Client,
             watched' \subseteq connected',
             UNCHANGED <<callVars, deviceVars, never_quit, stopped>>
      PROVE  AnswersInv'
  <2>1. /\ \E C \in SUBSET Live : StepAnswers(C)
        /\ deferred' \subseteq Queue
        /\ watchers' \in Nat
        /\ quitting' \in BOOLEAN /\ quit_idle' \in BOOLEAN
      BY <1>1, <1>3, RemoveClientAnswers
  <2>2. RestOK'
      BY <1>1, <1>3, <2>1 DEF RestOK, TypeOK, deviceVars
  <2> QED
      BY <2>1, <2>2, StepKeeps
<1>4. CASE Release(k)
    BY <1>1, <1>3, <1>4 DEF Release, TypeOK
<1>5. CASE ClientLost(k)
  <2>1. /\ connected' \subseteq Client /\ watched' \subseteq connected'
        /\ UNCHANGED <<callVars, deviceVars, never_quit, stopped>>
      BY <1>1, <1>5 DEF ClientLost, TypeOK
  <2>2. CASE k \in watched
      BY <1>3, <1>5, <2>1, <2>2 DEF ClientLost
  <2>3. CASE k \notin watched
    <3>1. UNCHANGED <<taskVars, deferred, watchers, quitting, quit_idle>>
        BY <1>5, <2>3 DEF ClientLost
    <3>2. StepAnswers({})
        BY <1>1, <2>1, <3>1, IdleStep
    <3>3. RestOK'
        BY <1>1, <2>1, <3>1 DEF RestOK, TypeOK, deviceVars
    <3> QED
        BY <3>2, <3>3, StepKeeps
  <2> QED
      BY <2>2, <2>3
<1> QED
    BY <1>2, <1>4, <1>5

LEMMA NextAnswers == AnswersInv /\ [Next]_vars => AnswersInv'
<1> SUFFICES ASSUME AnswersInv, [Next]_vars PROVE AnswersInv'
    OBVIOUS
<1>1. TypeOK
    BY DEF AnswersInv
<1>2. ASSUME NEW k \in Client, NEW s \in Sink, NEW type \in Types,
             MethodCall(k, s, type)
      PROVE  AnswersInv'
    BY <1>2, MethodCallAnswers
<1>3. ASSUME NEW k \in Client,
             \/ \E s \in Device : CancelCall(k, s)
             \/ Release(k)
             \/ ClientLost(k)
      PROVE  AnswersInv'
    BY <1>3, ClientAnswers
<1>4. ASSUME NEW c \in Call, Process(c) PROVE AnswersInv'
    BY <1>4, ProcessAnswers
<1>5. ASSUME NEW c \in Call,
             Introspected(c) \/ LastAnswer(c) \/ NextAnswer(c)
      PROVE  AnswersInv'
    BY <1>5, AnswerArrives
<1>6. ASSUME NEW c \in Call, Completed(c) PROVE AnswersInv'
  <2>1. /\ c \in Live /\ TaskEnds(c)
        /\ UNCHANGED <<callVars, deviceVars, clientVars, never_quit>>
      BY <1>6 DEF Completed, Running
  <2>2. /\ \E C \in SUBSET Live : StepAnswers(C)
        /\ deferred' \subseteq deferred
        /\ quit_idle' \in BOOLEAN
        /\ UNCHANGED <<quitting, stopped>>
      BY <1>1, <2>1, EndAnswers
  <2>3. RestOK'
      BY <1>1, <2>1, <2>2 DEF RestOK, TypeOK, deviceVars, clientVars
  <2> QED
      BY <2>2, <2>3, StepKeeps
<1>7. ASSUME NEW s \in Device, DeviceFound(s) PROVE AnswersInv'
  <2>1. StepAnswers({})
      BY <1>1, <1>7, IdleStep DEF DeviceFound
  <2>2. RestOK'
      BY <1>1, <1>7 DEF DeviceFound, RestOK, TypeOK, clientVars, quitVars
  <2> QED
      BY <2>1, <2>2, StepKeeps
<1>8. ASSUME NEW s \in Device, DeviceLost(s) PROVE AnswersInv'
  <2>1. StepAnswers({c \in Live : queue_of[c][2] = s})
      BY <1>1, <1>8, DeviceLostAnswers
  <2>2. RestOK'
      BY <1>1, <1>8 DEF DeviceLost, DeferRemoval, RestOK, TypeOK, Queue, Sink,
                        clientVars, quitVars
  <2> QED
      BY <2>1, <2>2, StepKeeps
<1>9. ASSUME NEW s \in Device, ContextLost(s) PROVE AnswersInv'
    BY <1>9, ContextLostAnswers
<1>10. CASE Quit
  <2>1. StepAnswers({})
      BY <1>1, <1>10, IdleStep DEF Quit
  <2>2. RestOK'
      BY <1>1, <1>10 DEF Quit, RestOK, TypeOK, deviceVars, clientVars
  <2> QED
      BY <2>1, <2>2, StepKeeps
<1>11. CASE UNCHANGED vars
  <2>1. StepAnswers({})
      BY <1>1, <1>11, IdleStep DEF vars
  <2>2. RestOK'
      BY <1>1, <1>11 DEF vars, RestOK, TypeOK, deviceVars, clientVars, quitVars
  <2> QED
      BY <2>1, <2>2, StepKeeps
<1> QED
    BY <1>2, <1>3, <1>4, <1>5, <1>6, <1>7, <1>8, <1>9, <1>10, <1>11 DEF Next

-----------------------------------------------------------------------------
\* The account of the calls is an inductive invariant: a call not yet made has
\* no task and no answer, one that waits has an open invocation and no answer,
\* one that is cancelled or over has exactly one.
THEOREM AnswersInvariant == Spec => []AnswersInv
<1> QED
    BY InitAnswers, NextAnswers, PTL DEF Spec

\* Every variable of server.c's task processing keeps its type, for any number
\* of clients, renderers and calls.
THEOREM TypeCorrect == Spec => []TypeOK
<1>1. AnswersInv => TypeOK
    BY DEF AnswersInv
<1> QED
    BY <1>1, AnswersInvariant, PTL

\* Every method call is answered exactly once, however its completion, Cancel,
\* Release, the loss of its client or of its renderer, and the end of the
\* service interleave.
THEOREM CallsAnsweredOnce == Spec => []AnsweredOnce
<1>1. AnswersInv => AnsweredOnce
    BY DEF AnswersInv, CallOK, AnsweredOnce
<1> QED
    BY <1>1, AnswersInvariant, PTL
=============================================================================
