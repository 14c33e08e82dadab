-------------------------- MODULE ClientCallsProofs --------------------------
(***************************************************************************)
(* What a task may be doing, and in which order, in Tasks: the invariant   *)
(* TasksInv, the properties that follow from it, and that Tasks implements *)
(* ClientCalls, for any clients, renderers and number of calls.            *)
(***************************************************************************)
EXTENDS TasksProofs, FiniteSetTheorems

\* A cancelled GetAll may begin its action, with a cancellable that calls its
\* handler at once, and so wait for two callbacks.  All other tasks are plain.
Plain(t) == ~Overtaken(t)

\* What a running task waits for.
WaitsOK(t) ==
    /\ t.type \notin SyncTypes
    /\ t.doing = "nothing" => t.idles > 0
    /\ Plain(t) =>
          /\ t.idles = IF t.doing = "nothing" THEN 1 ELSE 0
          /\ t.doing \in {"action", "dropped"} <=> t.connected /\ ~t.cancelled
          /\ t.doing \in {"introspection", "introspection_lost"} =>
                t.type \in {"get_prop", "get_all_props"}

\* A task that outlived its renderer: answered, and away from its proxies.
Gone(t) ==
    /\ ~t.invocation
    /\ t.doing \in {"nothing", "introspection_lost"}
          \cup IF Plain(t) THEN {} ELSE {"dropped"}

\* A task t of sink s is pending and untouched, or running.
Placed(t, s) ==
    /\ s \in Device => s \in listed \cup lost
    /\ IF t.current THEN WaitsOK(t) /\ (s \in lost => Gone(t))
                    ELSE t = NewTask(t.type) /\ s \notin lost

\* The running task of a queue is the first of it, so there is only one.
RunsFirst == \A c \in Running : \A d \in TasksOf(queue_of[c]) : c <= d

TasksInv ==
    /\ AnswersInv
    /\ listed \cap lost = {}
    /\ \A c \in Live : Placed(task[c], queue_of[c][2])
    /\ RunsFirst

\* A running task t goes on as u.
Advances(t, u) ==
    /\ u \in Task /\ u.current
    /\ WaitsOK(u)
    /\ Gone(t) => Gone(u)

-----------------------------------------------------------------------------
(***************************************************************************)
(* The operators on one record, field by field.                            *)
(***************************************************************************)
LEMMA CompleteFields ==
    ASSUME NEW t \in Task
    PROVE  LET u == CompleteLocally(t)
           IN  /\ u.type = t.type /\ u.current = t.current
               /\ u.invocation = t.invocation /\ u.cancelled = t.cancelled
               /\ u.connected = t.connected /\ u.doing = "nothing"
               /\ u.idles = t.idles + 1
    BY DEF CompleteLocally, AddIdle, Task

LEMMA ActionFields ==
    ASSUME NEW t \in Task
    PROVE  LET u == CompleteAction(t)
           IN  /\ u.type = t.type /\ u.current = t.current
               /\ u.invocation = t.invocation /\ u.cancelled = t.cancelled
               /\ u.connected = FALSE /\ u.doing = "nothing"
               /\ u.idles = t.idles + 1
<1> DEFINE v == CompleteLocally(t)
<1>1. v \in Task
    BY CompleteType
<1>2. /\ v.type = t.type /\ v.current = t.current
      /\ v.invocation = t.invocation /\ v.cancelled = t.cancelled
      /\ v.doing = "nothing" /\ v.idles = t.idles + 1
    BY CompleteFields
<1> HIDE DEF v
<1>3. [v EXCEPT !.connected = FALSE] = CompleteAction(t)
    BY DEF CompleteAction, v
<1> QED
    BY <1>1, <1>2, <1>3 DEF Task

LEMMA BeginFields ==
    ASSUME NEW t \in Task, NEW n \in 0 .. 1
    PROVE  LET u == BeginAction(t, n)
           IN  /\ u.type = t.type /\ u.current = t.current
               /\ u.invocation = t.invocation /\ u.cancelled = t.cancelled
               /\ u.connected = IF t.cancelled THEN t.connected ELSE TRUE
               /\ u.doing = "action"
               /\ u.idles = t.idles + IF t.cancelled THEN 1 ELSE 0
<1> DEFINE b == [t EXCEPT !.doing = "action", !.left = n]
<1>1. /\ b \in Task
      /\ b.type = t.type /\ b.current = t.current
      /\ b.invocation = t.invocation /\ b.cancelled = t.cancelled
      /\ b.connected = t.connected /\ b.doing = "action"
      /\ b.idles = t.idles
    BY DEF Task, Doing
<1>2. BeginAction(t, n) = IF t.cancelled THEN AddIdle(b)
                          ELSE [b EXCEPT !.connected = TRUE]
    BY DEF BeginAction
<1> HIDE DEF b
<1>3. CASE t.cancelled
    BY <1>1, <1>2, <1>3 DEF AddIdle, Task
<1>4. CASE ~t.cancelled
    BY <1>1, <1>2, <1>4 DEF Task
<1> QED
    BY <1>3, <1>4

-----------------------------------------------------------------------------
(***************************************************************************)
(* Each of them keeps what a running task may wait for.                    *)
(***************************************************************************)
LEMMA CancelAdvances ==
    ASSUME NEW t \in Task, t.current, WaitsOK(t)
    PROVE  Advances(t, CancelTask(t)) /\ ~CancelTask(t).invocation
<1> DEFINE c == [t EXCEPT !.invocation = FALSE, !.cancelled = TRUE]
<1>1. /\ c \in Task /\ c.type = t.type /\ c.current
      /\ ~c.invocation /\ c.cancelled
      /\ c.connected = t.connected /\ c.doing = t.doing /\ c.idles = t.idles
    BY DEF Task
<1>2. CancelTask(t) = IF t.connected /\ ~t.cancelled
                      THEN CompleteLocally(c) ELSE c
    BY DEF CancelTask
<1> HIDE DEF c
<1>3. CASE t.connected /\ ~t.cancelled
  <2>1. CompleteLocally(c) \in Task
      BY <1>1, CompleteType
  <2>2. t.idles \in Nat /\ (Plain(t) => t.idles = 0)
      BY <1>3 DEF WaitsOK, Task
  <2> QED
      BY <1>1, <1>2, <1>3, <2>1, <2>2, CompleteFields
         DEF Advances, WaitsOK, Gone, Plain, Overtaken
<1>4. CASE ~(t.connected /\ ~t.cancelled)
    BY <1>1, <1>2, <1>4 DEF Advances, WaitsOK, Gone, Plain, Overtaken
<1> QED
    BY <1>3, <1>4

LEMMA LoseProxyAdvances ==
    ASSUME NEW t \in Task, t.current, WaitsOK(t)
    PROVE  Advances(t, LoseProxy(t))
<1>1. CASE t.doing = "introspection"
  <2>1. LoseProxy(t) = [t EXCEPT !.doing = "introspection_lost"]
      BY <1>1 DEF LoseProxy
  <2> QED
      BY <1>1, <2>1 DEF Advances, WaitsOK, Gone, Plain, Overtaken, Task, Doing
<1>2. CASE t.doing = "action" /\ t.type # "get_icon"
  <2>1. LoseProxy(t) = [t EXCEPT !.doing = "dropped"]
      BY <1>2 DEF LoseProxy
  <2> QED
      BY <1>2, <2>1 DEF Advances, WaitsOK, Gone, Plain, Overtaken, Task, Doing
<1>3. CASE ~(t.doing = "introspection")
           /\ ~(t.doing = "action" /\ t.type # "get_icon")
  <2>1. LoseProxy(t) = t
      BY <1>3 DEF LoseProxy
  <2> QED
      BY <2>1 DEF Advances
<1> QED
    BY <1>1, <1>2, <1>3

\* A task that loses its renderer is answered and leaves its proxies.
LEMMA LostIsGone ==
    ASSUME NEW t \in Task, t.current, WaitsOK(t)
    PROVE  /\ Advances(t, CancelTask(LoseProxy(t)))
           /\ Gone(CancelTask(LoseProxy(t)))
<1> DEFINE p == LoseProxy(t)
<1>1. Advances(t, p)
    BY LoseProxyAdvances
<1>2. \/ p.doing \in {"nothing", "introspection_lost"}
      \/ p.connected /\ ~p.cancelled
      \/ ~Plain(p) /\ p.doing = "dropped"
  <2>1. p.type \in Types /\ p.doing \in Doing
      BY <1>1 DEF Advances, Task
  <2>2. p.doing # "introspection" /\ (p.doing = "action" => p.type = "get_icon")
      BY DEF LoseProxy, Task
  <2> HIDE DEF p
  <2>3. CASE Plain(p)
      BY <1>1, <2>1, <2>2, <2>3 DEF Advances, WaitsOK, Doing
  <2>4. CASE ~Plain(p)
      BY <2>1, <2>2, <2>4 DEF Plain, Overtaken, Doing
  <2> QED
      BY <2>3, <2>4
<1> HIDE DEF p
<1>3. p \in Task /\ p.current /\ WaitsOK(p)
    BY <1>1 DEF Advances
<1>4. Advances(p, CancelTask(p)) /\ ~CancelTask(p).invocation
    BY <1>3, CancelAdvances
<1>5. \/ CancelTask(p).doing \in {"nothing", "introspection_lost"}
      \/ ~Plain(CancelTask(p)) /\ CancelTask(p).doing = "dropped"
  <2> DEFINE c == [p EXCEPT !.invocation = FALSE, !.cancelled = TRUE]
  <2>1. c \in Task /\ c.type = p.type /\ c.doing = p.doing /\ c.cancelled
      BY <1>3 DEF Task
  <2>2. CancelTask(p) = IF p.connected /\ ~p.cancelled
                        THEN CompleteLocally(c) ELSE c
      BY DEF CancelTask
  <2> HIDE DEF c
  <2> QED
      BY <1>2, <2>1, <2>2, CompleteFields DEF Plain, Overtaken
<1>6. Gone(CancelTask(p))
    BY <1>4, <1>5 DEF Gone
<1> QED
    BY <1>1, <1>4, <1>6 DEF Advances, p

\* The first steps of a task.
LEMMA StartWaits ==
    ASSUME NEW t \in Task, t = NewTask(t.type), t.type \notin SyncTypes
    PROVE  LET s == [t EXCEPT !.current = TRUE]
           IN  /\ CompleteLocally(s) \in Task /\ CompleteLocally(s).current
               /\ WaitsOK(CompleteLocally(s))
               /\ \A n \in Actions(t.type) :
                     /\ Operate(s, n) \in Task /\ Operate(s, n).current
                     /\ WaitsOK(Operate(s, n))
               /\ t.type \in {"get_prop", "get_all_props"} =>
                     LET i == [s EXCEPT !.doing = "introspection"]
                     IN  i \in Task /\ i.current /\ WaitsOK(i)
<1> DEFINE s == [t EXCEPT !.current = TRUE]
<1>1. /\ s \in Task /\ s.type = t.type /\ s.current
      /\ ~s.cancelled /\ ~s.connected /\ s.idles = 0 /\ s.doing = "nothing"
  <2>1. /\ NewTask(t.type).cancelled = FALSE
        /\ NewTask(t.type).connected = FALSE
        /\ NewTask(t.type).idles = 0 /\ NewTask(t.type).doing = "nothing"
      BY DEF NewTask
  <2>2. /\ t.cancelled = FALSE /\ t.connected = FALSE
        /\ t.idles = 0 /\ t.doing = "nothing"
      BY <2>1
  <2> HIDE <2>1
  <2> QED
      BY <2>2 DEF Task
<1> HIDE DEF s
<1>2. /\ CompleteLocally(s) \in Task /\ CompleteLocally(s).current
      /\ WaitsOK(CompleteLocally(s))
    BY <1>1, CompleteType, CompleteFields DEF WaitsOK
<1>3. ASSUME NEW n \in Actions(t.type)
      PROVE  /\ Operate(s, n) \in Task /\ Operate(s, n).current
             /\ WaitsOK(Operate(s, n))
  <2>1. CASE n = 0
      BY <1>2, <2>1 DEF Operate
  <2>2. CASE n # 0
    <3>1. n - 1 \in 0 .. 1
        BY <2>2, ActionsRange
    <3>2. Operate(s, n) = BeginAction(s, n - 1)
        BY <2>2 DEF Operate
    <3>3. PICK u : u = Operate(s, n)
        OBVIOUS
    <3>4. /\ u \in Task /\ u.current /\ u.type = t.type /\ ~u.cancelled
          /\ u.connected /\ u.doing = "action" /\ u.idles = 0
      <4>1. PICK m \in 0 .. 1 : u = BeginAction(s, m)
          BY <3>1, <3>2, <3>3
      <4>2. /\ u \in Task /\ u.type = s.type /\ u.current = s.current
            /\ u.cancelled = s.cancelled /\ u.doing = "action"
            /\ u.connected = IF s.cancelled THEN s.connected ELSE TRUE
            /\ u.idles = s.idles + IF s.cancelled THEN 1 ELSE 0
          BY <1>1, <4>1, BeginType, BeginFields
      <4> QED
          BY <1>1, <4>2
    <3> QED
        BY <3>3, <3>4 DEF WaitsOK
  <2> QED
      BY <2>1, <2>2
<1>4. ASSUME t.type \in {"get_prop", "get_all_props"}
      PROVE  LET i == [s EXCEPT !.doing = "introspection"]
             IN  i \in Task /\ i.current /\ WaitsOK(i)
    BY <1>1, <1>4 DEF WaitsOK, Plain, Overtaken, Task, Doing
<1> QED
    BY <1>2, <1>3, <1>4 DEF s

\* The answers it gets.
LEMMA IntrospectedAdvances ==
    ASSUME NEW t \in Task, t.current, WaitsOK(t)
    PROVE  /\ t.doing = "introspection_lost" =>
                  Advances(t, CompleteLocally(t))
           /\ t.doing = "introspection" =>
                  \A n \in Actions(t.type) : Advances(t, Operate(t, n))
<1>1. t.idles \in Nat
    BY DEF Task
<1>2. CASE t.doing = "introspection_lost"
    BY <1>1, <1>2, CompleteType, CompleteFields
       DEF Advances, WaitsOK, Gone, Plain, Overtaken
<1>3. ASSUME t.doing = "introspection", NEW n \in Actions(t.type)
      PROVE  Advances(t, Operate(t, n))
  <2>1. CASE n = 0
    <3>1. Operate(t, n) = CompleteLocally(t)
        BY <2>1 DEF Operate
    <3> QED
        BY <1>1, <1>3, <3>1, CompleteType, CompleteFields
           DEF Advances, WaitsOK, Gone, Plain, Overtaken
  <2>2. CASE n # 0
    <3>1. n - 1 \in 0 .. 1
        BY <2>2, ActionsRange
    <3>2. Operate(t, n) = BeginAction(t, n - 1)
        BY <2>2 DEF Operate
    <3>3. t.type = "get_all_props"
      <4>1. t.type \in {"get_prop", "get_all_props"}
          BY <1>3 DEF WaitsOK, Plain, Overtaken
      <4> QED
          BY <1>3, <2>2, <4>1 DEF Actions
    <3>4. PICK u : u = Operate(t, n)
        OBVIOUS
    <3>5. /\ u \in Task /\ u.type = t.type /\ u.current = t.current
          /\ u.cancelled = t.cancelled /\ u.doing = "action"
          /\ u.connected = IF t.cancelled THEN t.connected ELSE TRUE
          /\ u.idles = t.idles + IF t.cancelled THEN 1 ELSE 0
      <4>1. PICK m \in 0 .. 1 : u = BeginAction(t, m)
          BY <3>1, <3>2, <3>4
      <4> QED
          BY <4>1, BeginType, BeginFields
    <3>6. ~Gone(t)
        BY <1>3 DEF Gone
    <3>7. Plain(t) => t.idles = 0
        BY <1>3 DEF WaitsOK
    <3>8. WaitsOK(u)
      <4>1. CASE t.cancelled
          BY <3>3, <3>5, <4>1 DEF WaitsOK, Plain, Overtaken
      <4>2. CASE ~t.cancelled
          BY <3>3, <3>5, <3>7, <4>2 DEF WaitsOK, Plain, Overtaken
      <4> QED
          BY <4>1, <4>2
    <3> QED
        BY <3>4, <3>5, <3>6, <3>8 DEF Advances
  <2> QED
      BY <2>1, <2>2
<1> QED
    BY <1>2, <1>3

LEMMA ActionAdvances ==
    ASSUME NEW t \in Task, t.current, WaitsOK(t), t.doing = "action"
    PROVE  /\ Advances(t, CompleteAction(t))
           /\ Advances(t, [t EXCEPT !.left = 0])
<1>1. t.idles \in Nat
    BY DEF Task
<1>2. Advances(t, CompleteAction(t))
  <2>1. PICK u : u = CompleteAction(t)
      OBVIOUS
  <2>2. /\ u \in Task /\ u.type = t.type /\ u.current = t.current
        /\ u.cancelled = t.cancelled /\ u.connected = FALSE
        /\ u.doing = "nothing" /\ u.idles = t.idles + 1
      BY <2>1, CompleteType, ActionFields
  <2>3. ~Gone(t)
      BY DEF Gone
  <2>4. WaitsOK(u)
      BY <1>1, <2>2 DEF WaitsOK, Plain, Overtaken
  <2> QED
      BY <2>1, <2>2, <2>3, <2>4 DEF Advances
<1>3. Advances(t, [t EXCEPT !.left = 0])
    BY DEF Advances, WaitsOK, Gone, Plain, Overtaken, Task
<1> QED
    BY <1>2, <1>3

-----------------------------------------------------------------------------
(***************************************************************************)
(* The invariant.                                                          *)
(***************************************************************************)
LEMMA InitTasks == Init => TasksInv
<1>1. Init => AnswersInv
    BY InitAnswers
<1>2. ASSUME Init PROVE Live = {}
    BY <1>2 DEF Init, Live
<1> QED
    BY <1>1, <1>2 DEF TasksInv, RunsFirst, Running, Init

\* A step that makes no call, and starts no task but the first of its queue.
LEMMA OrderKept ==
    ASSUME RunsFirst, UNCHANGED queue_of, Live' \subseteq Live,
           \A c \in Running' : \/ c \in Running
                               \/ \A d \in TasksOf(queue_of[c]) : c <= d
    PROVE  RunsFirst'
    BY DEF RunsFirst, TasksOf

\* A step in which the running tasks go on, and others only end.
LEMMA TasksGoOn ==
    ASSUME TasksInv, AnswersInv',
           UNCHANGED <<queue_of, listed, lost>>,
           \A c \in Call : \/ task'[c] = NoTask
                           \/ task'[c] = task[c]
                           \/ c \in Running /\ Advances(task[c], task'[c])
    PROVE  TasksInv'
<1>1. TypeOK /\ TypeOK'
    BY DEF TasksInv, AnswersInv
<1>2. ASSUME NEW c \in Live'
      PROVE  /\ c \in Live
             /\ c \in Running' => c \in Running
             /\ Placed(task[c], queue_of[c][2])'
  <2>1. c \in Call /\ task'[c] # NoTask
      BY DEF Live
  <2>2. CASE task'[c] = task[c]
    <3>1. c \in Live /\ (c \in Running' => c \in Running)
        BY <2>1, <2>2 DEF Live, Running
    <3> QED
        BY <2>2, <3>1 DEF TasksInv, Placed
  <2>3. CASE c \in Running /\ Advances(task[c], task'[c])
    <3>1. c \in Live /\ task[c].current
        BY <2>3 DEF Running
    <3>2. Placed(task[c], queue_of[c][2])
        BY <3>1 DEF TasksInv
    <3> QED
        BY <2>3, <3>1, <3>2 DEF Placed, Advances
  <2> QED
      BY <2>1, <2>2, <2>3
<1>3. \A c \in Running' : c \in Live'
    BY DEF Running
<1>4. RunsFirst'
    BY <1>2, <1>3, OrderKept DEF TasksInv
<1> QED
    BY <1>2, <1>4 DEF TasksInv

\* The task of a live call, and where it stands.
LEMMA LivePlaced ==
    ASSUME TasksInv, NEW c \in Live
    PROVE  /\ c \in Call /\ task[c] \in Task
           /\ Placed(task[c], queue_of[c][2])
           /\ task[c].current => WaitsOK(task[c])
           /\ c \in Running <=> task[c].current
    BY LiveIsTask DEF TasksInv, AnswersInv, Live, Running, Placed

LEMMA EndGoesOn ==
    ASSUME NEW c \in Call, TaskEnds(c)
    PROVE  \A d \in Call : task'[d] = NoTask \/ task'[d] = task[d]
    BY DEF TaskEnds

LEMMA CancelGoesOn ==
    ASSUME TasksInv, NEW Q, CancelQueues(Q)
    PROVE  \A c \in Call : \/ task'[c] = NoTask
                           \/ task'[c] = task[c]
                           \/ c \in Running /\ Advances(task[c], task'[c])
<1> TAKE c \in Call
<1>1. CASE c \in Live /\ queue_of[c] \in Q /\ task[c].current
    BY <1>1, LivePlaced, CancelAdvances DEF CancelQueues
<1>2. CASE ~(c \in Live /\ queue_of[c] \in Q /\ task[c].current)
    BY <1>2 DEF CancelQueues
<1> QED
    BY <1>1, <1>2

LEMMA MethodCallTasks ==
    ASSUME TasksInv, NEW k \in Client, NEW s \in Sink, NEW type \in Types,
           MethodCall(k, s, type)
    PROVE  TasksInv'
<1> DEFINE c == sent + 1
<1>1. AnswersInv'
    BY MethodCallAnswers DEF TasksInv
<1>2. TypeOK /\ c \in Call /\ sent \in Nat
    BY TasksAssumption DEF MethodCall, TasksInv, AnswersInv, TypeOK, Call
<1>3. \A d \in Live : d \in Call /\ d <= sent
    BY DEF TasksInv, AnswersInv, CallOK, Live
<1>4. /\ queue_of' = [queue_of EXCEPT ![c] = <<k, s>>]
      /\ UNCHANGED <<listed, lost>>
      /\ \A d \in Call \ {c} : task'[d] = task[d]
      /\ s \in lost => task'[c] = task[c]
      /\ s \notin lost => task'[c] = NewTask(type)
      /\ s \in Device => s \in listed \cup lost
    BY <1>2 DEF MethodCall, Refuse, AddTask, deviceVars, TypeOK
<1>5. task[c] = NoTask
    BY <1>2, <1>3 DEF Live
<1>6. queue_of'[c][2] = s
    BY <1>2, <1>4 DEF TypeOK
<1>7. ASSUME NEW d \in Live' PROVE Placed(task[d], queue_of[d][2])'
  <2>1. d \in Call /\ task'[d] # NoTask
      BY DEF Live
  <2>2. CASE d # c
    <3>1. d \in Live /\ queue_of'[d] = queue_of[d] /\ task'[d] = task[d]
        BY <1>2, <1>4, <2>1, <2>2 DEF Live, TypeOK
    <3> QED
        BY <1>4, <3>1 DEF TasksInv, Placed
  <2>3. CASE d = c
    <3>1. task'[d] = NewTask(type) /\ s \notin lost
        BY <1>4, <1>5, <2>1, <2>3
    <3>2. NewTask(type).type = type /\ NewTask(type).current = FALSE
        BY DEF NewTask
    <3> QED
        BY <1>4, <1>6, <2>3, <3>1, <3>2 DEF Placed
  <2> QED
      BY <2>2, <2>3
<1>8. RunsFirst'
  <2> SUFFICES ASSUME NEW d \in Running', NEW e \in TasksOf(queue_of[d])'
               PROVE  d <= e
      BY DEF RunsFirst
  <2>1. d \in Call /\ task'[d] # NoTask /\ task'[d].current
        /\ e \in Call /\ task'[e] # NoTask /\ queue_of'[e] = queue_of'[d]
      BY DEF Running, Live, TasksOf
  <2>2. d # c
    <3>1. NewTask(type).current = FALSE
        BY DEF NewTask
    <3> QED
        BY <1>4, <1>5, <2>1, <3>1
  <2>3. d \in Running /\ queue_of'[d] = queue_of[d]
      BY <1>2, <1>4, <2>1, <2>2 DEF Running, Live, TypeOK
  <2>4. CASE e = c
      BY <1>2, <1>3, <2>3, <2>4 DEF Running, Call
  <2>5. CASE e # c
    <3>1. e \in TasksOf(queue_of[d])
        BY <1>2, <1>4, <2>1, <2>3, <2>5 DEF TasksOf, Live, TypeOK
    <3> QED
        BY <2>3, <3>1 DEF TasksInv, RunsFirst
  <2> QED
      BY <2>4, <2>5
<1> QED
    BY <1>1, <1>4, <1>7, <1>8 DEF TasksInv

LEMMA ProcessTasks ==
    ASSUME TasksInv, NEW c \in Call, Process(c)
    PROVE  TasksInv'
<1>1. /\ TypeOK /\ c \in Live \ Running
      /\ UNCHANGED <<queue_of, listed, lost>>
      /\ \A d \in Pending(queue_of[c]) : c <= d
      /\ TasksOf(queue_of[c]) \cap Running = {}
      /\ \A d \in TasksOf(queue_of[c]) : c <= d
    BY DEF Process, IsHead, TasksInv, AnswersInv, callVars, deviceVars, Pending
<1>2. AnswersInv'
    BY ProcessAnswers DEF TasksInv
<1>3. /\ task[c] \in Task /\ task[c] = NewTask(task[c].type)
      /\ queue_of[c][2] \notin lost
      /\ queue_of[c][2] \in Device => queue_of[c][2] \in listed
    BY <1>1, LivePlaced DEF Placed
<1> DEFINE t == [task[c] EXCEPT !.current = TRUE]
<1>4. CASE task[c].type \in SyncTypes
  <2>1. TaskEnds(c)
      BY <1>4 DEF Process, ProcessSync, SyncTypes, SettingsTypes
  <2> QED
      BY <1>1, <1>2, <2>1, EndGoesOn, TasksGoOn
<1>5. CASE task[c].type \notin SyncTypes
  <2>1. PICK r \in Task : /\ r.current /\ WaitsOK(r)
                          /\ task' = [task EXCEPT ![c] = r]
    <3>1. /\ CompleteLocally(t) \in Task /\ CompleteLocally(t).current
          /\ WaitsOK(CompleteLocally(t))
          /\ \A n \in Actions(task[c].type) :
                /\ Operate(t, n) \in Task /\ Operate(t, n).current
                /\ WaitsOK(Operate(t, n))
          /\ task[c].type \in {"get_prop", "get_all_props"} =>
                LET i == [t EXCEPT !.doing = "introspection"]
                IN  i \in Task /\ i.current /\ WaitsOK(i)
        BY <1>3, <1>5, StartWaits
    <3>2. t.type = task[c].type
        BY <1>3 DEF Task
    <3>3. CASE ProcessSetting(c)
      <4>1. task' = [task EXCEPT ![c] = CompleteLocally(t)]
          BY <1>1, <3>3 DEF ProcessSetting, TypeOK, Live
      <4> QED
          BY <3>1, <4>1
    <3>4. CASE ProcessDevice(c)
      <4> DEFINE i == [t EXCEPT !.doing = "introspection"]
      <4>1. \/ task' = [task EXCEPT ![c] = CompleteLocally(t)]
            \/ \E n \in Actions(t.type) :
                  task' = [task EXCEPT ![c] = Operate(t, n)]
            \/ /\ t.type \in {"get_prop", "get_all_props"}
               /\ task' = [task EXCEPT ![c] = i]
        <5>1. PICK r : /\ task' = [task EXCEPT ![c] = r]
                       /\ \/ r = CompleteLocally(t)
                          \/ \E n \in Actions(t.type) : r = Operate(t, n)
                          \/ /\ t.type \in {"get_prop", "get_all_props"}
                             /\ r = i
            BY <3>4, Zenon DEF ProcessDevice
        <5> HIDE DEF t, i
        <5> QED
            BY <5>1
      <4> HIDE DEF t, i
      <4> QED
          BY <3>1, <3>2, <4>1 DEF i
    <3> QED
        BY <1>5, <3>3, <3>4 DEF Process
  <2>2. /\ Live' = Live
        /\ Running' = Running \cup {c}
        /\ task'[c] = r
        /\ \A d \in Call \ {c} : task'[d] = task[d]
      BY <1>1, <2>1, TaskIsSome DEF Live, Running, TypeOK
  <2>3. RunsFirst'
      BY <1>1, <2>2, OrderKept DEF TasksInv
  <2>4. ASSUME NEW d \in Live' PROVE Placed(task[d], queue_of[d][2])'
    <3>1. CASE d = c
        BY <1>1, <1>3, <2>1, <2>2, <3>1 DEF Placed
    <3>2. CASE d # c
        BY <1>1, <2>2, <2>4, <3>2 DEF TasksInv, Placed, Live
    <3> QED
        BY <3>1, <3>2
  <2> QED
      BY <1>1, <1>2, <2>3, <2>4 DEF TasksInv
<1> QED
    BY <1>4, <1>5

LEMMA DeviceLostTasks ==
    ASSUME TasksInv, AnswersInv', NEW s \in Device, DeviceLost(s)
    PROVE  TasksInv'
<1>1. /\ UNCHANGED queue_of
      /\ listed' = listed \ {s} /\ lost' = lost \cup {s}
    BY DEF DeviceLost, callVars
<1>2. ASSUME NEW c \in Live'
      PROVE  /\ c \in Live
             /\ c \in Running' => c \in Running
             /\ Placed(task[c], queue_of[c][2])'
  <2>1. c \in Call /\ task'[c] # NoTask
      BY DEF Live
  <2>2. CASE c \notin Live \/ queue_of[c][2] # s
    <3>1. task'[c] = task[c]
        BY <2>1, <2>2 DEF DeviceLost
    <3>2. c \in Live /\ (c \in Running' => c \in Running)
        BY <2>1, <3>1 DEF Live, Running
    <3>3. Placed(task[c], queue_of[c][2]) /\ queue_of[c][2] # s
        BY <2>2, <3>2 DEF TasksInv
    <3> QED
        BY <1>1, <3>1, <3>2, <3>3 DEF Placed
  <2>3. CASE c \in Live /\ queue_of[c][2] = s
    <3>1. task[c].current /\ task'[c] = CancelTask(LoseProxy(task[c]))
        BY <2>1, <2>3 DEF DeviceLost
    <3>2. task[c] \in Task /\ WaitsOK(task[c]) /\ c \in Running
        BY <2>3, <3>1, LivePlaced
    <3>3. Advances(task[c], task'[c]) /\ Gone(task'[c])
        BY <3>1, <3>2, LostIsGone
    <3> QED
        BY <1>1, <2>3, <3>2, <3>3 DEF Placed, Advances
  <2> QED
      BY <2>2, <2>3
<1>3. \A c \in Running' : c \in Live'
    BY DEF Running
<1>4. RunsFirst'
    BY <1>1, <1>2, <1>3, OrderKept DEF TasksInv
<1> QED
    BY <1>1, <1>2, <1>4 DEF TasksInv

LEMMA NextTasks == TasksInv /\ [Next]_vars => TasksInv'
<1> SUFFICES ASSUME TasksInv, [Next]_vars PROVE TasksInv'
    OBVIOUS
<1>1. AnswersInv' /\ TypeOK
    BY NextAnswers DEF TasksInv, AnswersInv
<1>2. ASSUME NEW k \in Client, NEW s \in Sink, NEW type \in Types,
             MethodCall(k, s, type)
      PROVE  TasksInv'
    BY <1>2, MethodCallTasks
<1>3. ASSUME NEW Q, CancelQueues(Q), UNCHANGED <<callVars, deviceVars>>
      PROVE  TasksInv'
    BY <1>1, <1>3, CancelGoesOn, TasksGoOn DEF callVars, deviceVars
<1>4. ASSUME UNCHANGED <<callVars, task, deviceVars>> PROVE TasksInv'
    BY <1>1, <1>4, TasksGoOn DEF callVars, deviceVars
<1>5. ASSUME NEW k \in Client, NEW s \in Device, CancelCall(k, s)
      PROVE  TasksInv'
    BY <1>3, <1>5 DEF CancelCall
<1>6. ASSUME NEW k \in Client, Release(k) PROVE TasksInv'
  <2>1. \E Q : CancelQueues(Q)
      BY <1>6 DEF Release, RemoveClient
  <2> QED
      BY <1>3, <1>6, <2>1 DEF Release
<1>7. ASSUME NEW k \in Client, ClientLost(k) PROVE TasksInv'
  <2>1. (\E Q : CancelQueues(Q)) \/ UNCHANGED taskVars
      BY <1>7 DEF ClientLost, RemoveClient
  <2> QED
      BY <1>3, <1>4, <1>7, <2>1 DEF ClientLost, taskVars
<1>8. ASSUME NEW c \in Call, Process(c) PROVE TasksInv'
    BY <1>8, ProcessTasks
<1>9. ASSUME NEW c \in Call,
             Introspected(c) \/ LastAnswer(c) \/ NextAnswer(c)
      PROVE  TasksInv'
  <2>1. /\ UNCHANGED <<queue_of, listed, lost>>
        /\ c \in Running
      BY <1>9 DEF Introspected, LastAnswer, NextAnswer, callVars, deviceVars
  <2>2. task[c] \in Task /\ task[c].current /\ WaitsOK(task[c])
      BY <2>1, LivePlaced DEF Running
  <2>3. \E r : Advances(task[c], r) /\ task' = [task EXCEPT ![c] = r]
    <3>1. CASE Introspected(c)
        BY <2>2, <3>1, IntrospectedAdvances DEF Introspected
    <3>2. CASE LastAnswer(c)
        BY <2>2, <3>2, ActionAdvances DEF LastAnswer
    <3>3. CASE NextAnswer(c)
      <4>1. task' = [task EXCEPT ![c] = [task[c] EXCEPT !.left = 0]]
          BY <3>3 DEF NextAnswer
      <4> QED
          BY <2>2, <3>3, <4>1, ActionAdvances DEF NextAnswer
    <3> QED
        BY <1>9, <3>1, <3>2, <3>3
  <2> QED
      BY <1>1, <2>1, <2>3, TasksGoOn DEF TypeOK
<1>10. ASSUME NEW c \in Call, Completed(c) PROVE TasksInv'
    BY <1>1, <1>10, EndGoesOn, TasksGoOn DEF Completed, callVars, deviceVars
<1>11. ASSUME NEW s \in Device, DeviceFound(s) PROVE TasksInv'
  <2>1. /\ UNCHANGED <<queue_of, task, lost>>
        /\ listed' = listed \cup {s} /\ s \notin lost
      BY <1>11 DEF DeviceFound, callVars, taskVars
  <2>2. Live' = Live /\ Running' = Running
      BY <2>1 DEF Live, Running
  <2>3. RunsFirst'
      BY <2>1, <2>2 DEF TasksInv, RunsFirst, TasksOf
  <2> QED
      BY <1>1, <2>1, <2>2, <2>3 DEF TasksInv, Placed
<1>12. ASSUME NEW s \in Device, DeviceLost(s) PROVE TasksInv'
    BY <1>1, <1>12, DeviceLostTasks
<1>13. ASSUME NEW s \in Device, ContextLost(s) PROVE TasksInv'
  <2>1. UNCHANGED <<queue_of, listed, lost>>
      BY <1>13 DEF ContextLost, callVars, deviceVars
  <2>2. \A c \in Call : \/ task'[c] = task[c]
                        \/ c \in Running /\ task'[c] = LoseProxy(task[c])
      BY <1>13 DEF ContextLost
  <2>3. \A c \in Running : Advances(task[c], LoseProxy(task[c]))
      BY LivePlaced, LoseProxyAdvances DEF Running
  <2> QED
      BY <1>1, <2>1, <2>2, <2>3, TasksGoOn
<1>14. CASE Quit
    BY <1>4, <1>14 DEF Quit, taskVars
<1>15. CASE UNCHANGED vars
    BY <1>4, <1>15 DEF vars, taskVars
<1> QED
    BY <1>2, <1>5, <1>6, <1>7, <1>8, <1>9, <1>10, <1>11, <1>12, <1>13, <1>14,
       <1>15 DEF Next

LEMMA TasksInvariant == Spec => []TasksInv
<1> QED
    BY InitTasks, NextTasks, PTL DEF Spec

-----------------------------------------------------------------------------
(***************************************************************************)
(* What follows from it.                                                   *)
(***************************************************************************)

\* A running task is never stuck on nothing: whatever it is and whatever
\* happened to it, it waits for a callback, or for an action whose proxy was
\* destroyed under it.
THEOREM NoTaskIsStuck ==
    Spec => [](\A c \in Running : task[c].doing = "nothing" =>
                                      task[c].idles > 0)
<1>1. TasksInv => \A c \in Running : task[c].doing = "nothing" =>
                                         task[c].idles > 0
    BY LivePlaced DEF Running, WaitsOK
<1> QED
    BY <1>1, TasksInvariant, PTL

\* A queue runs one task at a time, the one that came first.
THEOREM QueuesRunInOrder == Spec => []RunsFirst
<1>1. TasksInv => RunsFirst
    BY DEF TasksInv
<1> QED
    BY <1>1, TasksInvariant, PTL

\* A running task waits for exactly one callback, but for a GetAll that was
\* cancelled: no interleaving of Cancel, Release, losses and answers completes
\* another twice or leaves it stuck.
THEOREM TasksHaveOneContinuation == Spec => []OneContinuation
<1>1. TasksInv => OneContinuation
  <2> SUFFICES ASSUME TasksInv, NEW c \in Running, ~Overtaken(task[c])
               PROVE  IF task[c].doing = "nothing" THEN task[c].idles = 1
                                                   ELSE task[c].idles = 0
      BY DEF OneContinuation
  <2>1. WaitsOK(task[c])
      BY LivePlaced DEF Running
  <2> QED
      BY <2>1 DEF WaitsOK, Plain
<1> QED
    BY <1>1, TasksInvariant, PTL

\* A task whose renderer is gone runs no callback on it, and none waits to be
\* processed.
THEOREM TasksLeaveLostDevices == Spec => []TasksFindDevice
<1>1. TasksInv => TasksFindDevice
  <2> SUFFICES ASSUME TasksInv, NEW c \in Live,
                      queue_of[c][2] \in Device \ listed
               PROVE  /\ task[c].current
                      /\ \/ task[c].doing \in {"nothing", "introspection_lost"}
                         \/ task[c].doing = "dropped" /\ Overtaken(task[c])
      BY DEF TasksFindDevice
  <2>1. Placed(task[c], queue_of[c][2])
      BY LivePlaced
  <2>2. queue_of[c][2] \in lost
      BY <2>1 DEF Placed
  <2>3. task[c].current /\ Gone(task[c])
      BY <2>1, <2>2 DEF Placed
  <2> QED
      BY <2>3 DEF Gone, Plain
<1> QED
    BY <1>1, TasksInvariant, PTL

\* Cancel answers every call of the client on that renderer that waits for an
\* answer, and no other call of anyone.
THEOREM CancelAnswersItsCalls == Spec => CancelIsExact
<1> DEFINE Exact ==
        \A k \in Client, s \in Device : CancelCall(k, s) =>
            \A c \in Call : c <= sent =>
                (replies'[c] > replies[c] <=>
                    queue_of[c] = <<k, s>> /\ replies[c] = 0)
<1>1. AnswersInv => Exact
  <2> SUFFICES ASSUME AnswersInv, NEW k \in Client, NEW s \in Device,
                      CancelCall(k, s), NEW c \in Call, c <= sent
               PROVE  replies'[c] > replies[c] <=>
                          queue_of[c] = <<k, s>> /\ replies[c] = 0
      OBVIOUS
  <2>1. /\ TypeOK /\ CallOK(c) /\ replies[c] \in Nat
        /\ task[c] # NoTask => task[c].invocation \in BOOLEAN
      BY DEF AnswersInv, TypeOK, Task
  <2>2. replies'[c] = IF /\ c \in Live /\ queue_of[c] = <<k, s>>
                         /\ task[c].invocation
                      THEN replies[c] + 1 ELSE replies[c]
      BY DEF CancelCall, CancelQueues, Answer
  <2>3. replies[c] = 0 <=> c \in Live /\ task[c].invocation
      BY <2>1 DEF CallOK, Live
  <2> QED
      BY <2>1, <2>2, <2>3
<1> QED
    BY <1>1, AnswersInvariant, PTL DEF CancelIsExact

-----------------------------------------------------------------------------
(***************************************************************************)
(* The clients that are watched are counted once each.  The count may be   *)
(* lower: a client that calls nothing may release the service as well.     *)
(***************************************************************************)
WatchInv ==
    /\ TypeOK
    /\ IsFiniteSet(watched)
    /\ watchers <= Cardinality(watched)

\* A client that goes takes at most one of the watched with it.
LEMMA OneClientLess ==
    ASSUME WatchInv, NEW k, watched' = watched \ {k}, RemoveClient(k)
    PROVE  /\ IsFiniteSet(watched') /\ watchers' <= Cardinality(watched')
           /\ watched' = {} => quitting' \/ never_quit
<1>1. watchers \in Nat /\ IsFiniteSet(watched) /\ Cardinality(watched) \in Nat
    BY FS_CardinalityType DEF WatchInv, TypeOK
<1>2. watchers' = IF watchers > 0 THEN watchers - 1 ELSE 0
    BY DEF RemoveClient
<1>3. /\ IsFiniteSet(watched')
      /\ Cardinality(watched') = IF k \in watched THEN Cardinality(watched) - 1
                                 ELSE Cardinality(watched)
    BY <1>1, FS_RemoveElement
<1>4. watchers' <= Cardinality(watched')
  <2>1. Cardinality(watched') \in Nat
      BY <1>3, FS_CardinalityType
  <2> QED
      BY <1>1, <1>2, <1>3, <2>1 DEF WatchInv
<1>5. ASSUME watched' = {} PROVE quitting' \/ never_quit
  <2>1. watchers' = 0
    <3>1. Cardinality(watched') = 0
        BY <1>5, FS_EmptySet
    <3>2. watchers' \in Nat
        BY <1>1, <1>2
    <3> QED
        BY <1>4, <3>1, <3>2
  <2> DEFINE n == IF watchers > 0 THEN watchers - 1 ELSE 0
  <2>2. n = 0
      BY <1>2, <2>1
  <2>3. quitting' = (quitting \/ (n = 0 /\ ~never_quit))
      BY DEF RemoveClient
  <2> HIDE DEF n
  <2> QED
      BY <2>2, <2>3, Zenon
<1> QED
    BY <1>3, <1>4, <1>5

LEMMA CallIsWatched ==
    ASSUME WatchInv, NEW c, NEW k, NEW type, Refuse(c) \/ AddTask(c, k, type)
    PROVE  IsFiniteSet(watched') /\ watchers' <= Cardinality(watched')
<1>1. CASE Refuse(c)
    BY <1>1 DEF Refuse, clientVars, WatchInv
<1>2. CASE AddTask(c, k, type)
  <2>1. watchers \in Nat /\ IsFiniteSet(watched) /\ Cardinality(watched) \in Nat
      BY FS_CardinalityType DEF WatchInv, TypeOK
  <2>2. watched' = watched \cup {k}
        /\ watchers' = IF k \in watched THEN watchers ELSE watchers + 1
      BY <1>2 DEF AddTask
  <2>3. /\ IsFiniteSet(watched \cup {k})
        /\ Cardinality(watched \cup {k}) =
               IF k \in watched THEN Cardinality(watched)
                                ELSE Cardinality(watched) + 1
      BY <2>1, FS_AddElement
  <2> QED
      BY <2>1, <2>2, <2>3 DEF WatchInv
<1> QED
    BY <1>1, <1>2

LEMMA NextWatch ==
    ASSUME WatchInv, TypeOK', [Next]_vars
    PROVE  /\ WatchInv'
           /\ watched # {} /\ watched' = {} => quitting' \/ never_quit
<1>1. CASE UNCHANGED <<watched, watchers>>
    BY <1>1 DEF WatchInv
<1>2. ASSUME NEW k \in Client, NEW s \in Sink, NEW type \in Types,
             MethodCall(k, s, type)
      PROVE  /\ WatchInv'
             /\ watched # {} => watched' # {}
  <2>1. Refuse(sent + 1) \/ AddTask(sent + 1, k, type)
      BY <1>2 DEF MethodCall
  <2>2. watched \subseteq watched'
      BY <2>1 DEF Refuse, AddTask, clientVars
  <2> QED
      BY <2>1, <2>2, CallIsWatched DEF WatchInv
<1>3. ASSUME NEW k \in Client, Release(k) \/ ClientLost(k)
      PROVE  /\ WatchInv'
             /\ watched # {} /\ watched' = {} => quitting' \/ never_quit
  <2>1. watched' = watched \ {k}
      BY <1>3 DEF Release, ClientLost
  <2>2. CASE RemoveClient(k)
      BY <2>1, <2>2, OneClientLess DEF WatchInv
  <2>3. CASE ~RemoveClient(k)
    <3>1. k \notin watched /\ UNCHANGED watchers
        BY <1>3, <2>3 DEF Release, ClientLost
    <3>2. watched' = watched
        BY <2>1, <3>1
    <3> QED
        BY <3>1, <3>2, <1>1
  <2> QED
      BY <2>2, <2>3
<1>4. \/ UNCHANGED clientVars
      \/ \E k \in Client, s \in Sink, type \in Types : MethodCall(k, s, type)
      \/ \E k \in Client : Release(k) \/ ClientLost(k)
    BY DEF Next, vars, CancelCall, Process, Introspected, LastAnswer,
           NextAnswer, Completed, DeviceFound, DeviceLost, ContextLost, Quit
<1> QED
    BY <1>1, <1>2, <1>3, <1>4 DEF clientVars

\* When the last watched client goes the service quits, unless never-quit is
\* set, whatever was called, released or lost before: the counter of watchers
\* never exceeds the clients that are watched.
THEOREM LastClientQuits == Spec => LastClientEndsService
<1>1. Init => WatchInv
  <2> SUFFICES ASSUME Init PROVE WatchInv
      OBVIOUS
  <2>1. TypeOK
      BY InitAnswers DEF AnswersInv
  <2>2. watched = {} /\ watchers = 0
      BY DEF Init
  <2> QED
      BY <2>1, <2>2, FS_EmptySet DEF WatchInv
<1>2. WatchInv /\ TypeOK' /\ [Next]_vars =>
          WatchInv' /\ (watched # {} /\ watched' = {} =>
                            quitting' \/ never_quit)
    BY NextWatch
<1>3. Spec => []WatchInv
    BY <1>1, <1>2, TypeCorrect, PTL DEF Spec
<1> QED
    BY <1>2, <1>3, TypeCorrect, PTL DEF Spec, LastClientEndsService

-----------------------------------------------------------------------------
(***************************************************************************)
(* Tasks implements ClientCalls.                                           *)
(***************************************************************************)
Open == {c \in Call : c <= sent /\ replies[c] = 0}

\* The open calls are the live tasks whose invocation is set.
LEMMA OpenIsLive ==
    ASSUME AnswersInv
    PROVE  Open = {c \in Live : task[c].invocation}
<1> SUFFICES ASSUME NEW c \in Call
             PROVE  c <= sent /\ replies[c] = 0
                    <=> task[c] # NoTask /\ task[c].invocation
    BY DEF Open, Live
<1>1. CallOK(c) /\ (task[c] # NoTask => task[c].invocation \in BOOLEAN)
    BY DEF AnswersInv, TypeOK, Task
<1> QED
    BY <1>1 DEF CallOK

\* A step that answers the calls C closes those and no others.
LEMMA AnswersClose ==
    ASSUME AnswersInv, NEW C, StepAnswers(C)
    PROVE  Open' = Open \ C
<1> SUFFICES ASSUME NEW c \in Call
             PROVE  (c <= sent /\ replies[c] = 0)'
                    <=> c <= sent /\ replies[c] = 0 /\ c \notin C
    BY DEF Open, Call
<1>1. sent' = sent /\ CallOK(c) /\ replies[c] \in Nat
    BY DEF AnswersInv, TypeOK, StepAnswers, callVars
<1>2. replies'[c] = IF c \in C /\ task[c].invocation THEN replies[c] + 1
                                                     ELSE replies[c]
    BY DEF StepAnswers, Answer
<1>3. CASE c \in C
  <2>1. task[c] # NoTask /\ task[c] \in Task
      BY <1>3 DEF StepAnswers, Live, AnswersInv, TypeOK
  <2>2. task[c].invocation \in BOOLEAN
      BY <2>1 DEF Task
  <2> QED
      BY <1>1, <1>2, <1>3, <2>1, <2>2 DEF CallOK
<1>4. CASE c \notin C
    BY <1>1, <1>2, <1>4
<1> QED
    BY <1>3, <1>4

\* The calls C of a step are, with each of them, those before it in its queue.
Prefix(C) ==
    \A c \in C, d \in Open : d < c /\ queue_of[d] = queue_of[c] => d \in C

\* Such a step is an Answer.
LEMMA AnswersImplement ==
    ASSUME AnswersInv, NEW C, StepAnswers(C), Prefix(C)
    PROVE  \E D \in SUBSET Open : Calls!Answer(D)
<1> PICK D : D = C \cap Open
    OBVIOUS
<1>1. Open' = Open \ D
    BY AnswersClose
<1>2. UNCHANGED <<sent, queue_of>>
    BY DEF StepAnswers, callVars
<1>3. \A c \in D : Calls!Earlier(c) \subseteq D
    BY DEF Prefix, Calls!Earlier, Open
<1>4. Calls!Answer(D)
    BY <1>1, <1>2, <1>3 DEF Calls!Answer, Open
<1> QED
    BY <1>4

\* Whole queues, and the first task of a queue, are such calls.
LEMMA WholeQueues ==
    ASSUME AnswersInv, NEW Q
    PROVE  Prefix({c \in Live : queue_of[c] \in Q})
    BY OpenIsLive DEF Prefix

\* The task that ends is the first of its queue.
LEMMA EndImplements ==
    ASSUME TasksInv, UNCHANGED callVars, NEW c \in Live, TaskEnds(c),
           \A d \in TasksOf(queue_of[c]) : c <= d /\ (d \in Running => d = c)
    PROVE  \E D \in SUBSET Open : Calls!Answer(D)
<1> DEFINE quits   == quitting /\ Running \subseteq {c}
           removed == queue_of[c] \in deferred /\ ~quits
           C == {c} \cup IF removed THEN Pending(queue_of[c]) ELSE {}
<1>1. AnswersInv /\ TypeOK /\ c \in Call
    BY DEF TasksInv, AnswersInv, Live
<1>2. C \subseteq Live
    BY DEF Pending, TasksOf
<1>3. StepAnswers(C)
  <2>1. task' \in [Call -> Task \cup {NoTask}]
      BY <1>1 DEF TypeOK, TaskEnds
  <2> QED
      BY <1>2, <2>1 DEF StepAnswers, TaskEnds, Live
<1>4. Prefix(C)
  <2> SUFFICES ASSUME NEW b \in C, NEW d \in Open, d < b,
                      queue_of[d] = queue_of[b]
               PROVE  d \in C
      BY DEF Prefix
  <2>1. d \in Live /\ b \in Live
      BY <1>1, <1>2, OpenIsLive
  <2>2. queue_of[b] = queue_of[c]
      BY DEF Pending, TasksOf
  <2>3. d \in TasksOf(queue_of[c])
      BY <2>1, <2>2 DEF TasksOf
  <2>4. CASE removed
      BY <2>3, <2>4 DEF Pending
  <2>5. CASE ~removed
      BY <2>1, <2>3, <2>5 DEF Live, Call
  <2> QED
      BY <2>4, <2>5
<1> QED
    BY <1>1, <1>3, <1>4, AnswersImplement

\* Cancelling queues answers whole queues.
LEMMA CancelImplements ==
    ASSUME TasksInv, UNCHANGED callVars, NEW Q, CancelQueues(Q)
    PROVE  \E D \in SUBSET Open : Calls!Answer(D)
<1> PICK C : C = {c \in Live : queue_of[c] \in Q}
    OBVIOUS
<1>1. AnswersInv /\ TypeOK
    BY DEF TasksInv, AnswersInv
<1>2. StepAnswers(C)
    BY <1>1, QueuesCancelled
<1>3. Prefix(C)
    BY <1>1, WholeQueues
<1> QED
    BY <1>1, <1>2, <1>3, AnswersImplement

LEMMA DeviceLostImplements ==
    ASSUME TasksInv, NEW s \in Device, DeviceLost(s)
    PROVE  \E D \in SUBSET Open : Calls!Answer(D)
<1> PICK C : C = {c \in Live : queue_of[c][2] = s}
    OBVIOUS
<1>1. AnswersInv /\ TypeOK
    BY DEF TasksInv, AnswersInv
<1>2. StepAnswers(C)
    BY <1>1, DeviceLostAnswers
<1>3. Prefix(C)
    BY <1>1, OpenIsLive DEF Prefix
<1> QED
    BY <1>1, <1>2, <1>3, AnswersImplement

\* A call of a renderer that is listed is made; one of a renderer that is gone
\* is refused, when every call before it has been answered.
LEMMA MethodCallImplements ==
    ASSUME TasksInv, NEW k \in Client, NEW s \in Sink, NEW type \in Types,
           MethodCall(k, s, type)
    PROVE  \E q \in Queue : Calls!Make(q) \/ Calls!Refuse(q)
<1> DEFINE c == sent + 1
<1> PICK q \in Queue : q = <<k, s>>
    BY DEF Queue
<1>1. AnswersInv /\ TypeOK /\ c \in Call /\ sent \in Nat
    BY TasksAssumption
       DEF MethodCall, TasksInv, AnswersInv, TypeOK, Call
<1>2. /\ sent' = c /\ sent < MaxCalls
      /\ queue_of' = [queue_of EXCEPT ![c] = q]
      /\ IF s \in lost THEN Refuse(c) ELSE AddTask(c, k, type)
    BY DEF MethodCall
<1>3. \A d \in Call : replies[d] \in Nat /\ (d <= sent => d # c)
    BY <1>1 DEF TypeOK
<1>4. replies[c] = 0
  <2>1. CallOK(c) /\ ~(c <= sent)
      BY <1>1 DEF AnswersInv
  <2> QED
      BY <2>1 DEF CallOK
<1>5. CASE s \in lost
  <2>1. /\ \A d \in Call \ {c} : replies'[d] = replies[d]
        /\ replies'[c] = 1
      BY <1>1, <1>2, <1>4, <1>5 DEF Refuse, TypeOK
  <2>2. Open' = Open
    <3> SUFFICES ASSUME NEW d \in Call
                 PROVE  d <= sent' /\ replies'[d] = 0
                        <=> d <= sent /\ replies[d] = 0
        BY DEF Open, Call
    <3>1. CASE d = c
        BY <1>1, <2>1, <3>1
    <3>2. CASE d # c
      <4>1. d <= sent' <=> d <= sent
          BY <1>1, <1>2, <3>2 DEF Call
      <4> QED
          BY <2>1, <3>2, <4>1
    <3> QED
        BY <3>1, <3>2
  <2>3. \A d \in Open : queue_of[d] # q
    <3> SUFFICES ASSUME NEW d \in Open, queue_of[d] = q PROVE FALSE
        OBVIOUS
    <3>1. d \in Live /\ task[d].invocation
        BY <1>1, OpenIsLive
    <3>2. Placed(task[d], s)
        BY <3>1, LivePlaced
    <3> QED
        BY <1>5, <3>1, <3>2 DEF Placed, Gone
  <2>4. Calls!Refuse(q)
      BY <1>2, <2>2, <2>3 DEF Calls!Refuse, Open, Call
  <2> QED
      BY <2>4
<1>6. CASE s \notin lost
  <2>1. UNCHANGED replies
      BY <1>2, <1>6 DEF AddTask
  <2>2. Open' = Open \cup {c}
    <3> SUFFICES ASSUME NEW d \in Call
                 PROVE  d <= sent' /\ replies'[d] = 0
                        <=> (d <= sent /\ replies[d] = 0) \/ d = c
        BY <1>1 DEF Open, Call
    <3>1. CASE d = c
        BY <1>1, <1>2, <1>4, <2>1, <3>1
    <3>2. CASE d # c
      <4>1. d <= sent' <=> d <= sent
          BY <1>1, <1>2, <3>2 DEF Call
      <4> QED
          BY <2>1, <3>2, <4>1
    <3> QED
        BY <3>1, <3>2
  <2>3. Calls!Make(q)
      BY <1>2, <2>2 DEF Calls!Make, Open, Call
  <2> QED
      BY <2>3
<1> QED
    BY <1>5, <1>6

LEMMA NextImplements == TasksInv /\ [Next]_vars => [Calls!Next]_(Calls!vars)
<1> SUFFICES ASSUME TasksInv, [Next]_vars PROVE [Calls!Next]_(Calls!vars)
    OBVIOUS
<1>1. ASSUME UNCHANGED <<callVars, replies>> PROVE UNCHANGED Calls!vars
  <2>1. Open' = Open /\ UNCHANGED <<sent, queue_of>>
      BY <1>1 DEF Open, Call, callVars
  <2> QED
      BY <2>1 DEF Calls!vars, Open
<1>2. ASSUME \E D \in SUBSET Open : Calls!Answer(D) PROVE Calls!Next
    BY <1>2 DEF Calls!Next, Open
<1>3. ASSUME NEW k \in Client, NEW s \in Sink, NEW type \in Types,
             MethodCall(k, s, type)
      PROVE  Calls!Next
    BY <1>3, MethodCallImplements DEF Calls!Next
<1>4. ASSUME NEW k \in Client, NEW s \in Device, CancelCall(k, s)
      PROVE  Calls!Next
    BY <1>2, <1>4, CancelImplements DEF CancelCall
<1>5. ASSUME NEW k \in Client, Release(k) \/ ClientLost(k)
      PROVE  [Calls!Next]_(Calls!vars)
  <2>1. CASE RemoveClient(k)
    <3>1. \E Q : CancelQueues(Q)
        BY <2>1 DEF RemoveClient
    <3>2. UNCHANGED callVars
        BY <1>5 DEF Release, ClientLost
    <3> QED
        BY <1>2, <3>1, <3>2, CancelImplements
  <2>2. CASE ~RemoveClient(k)
      BY <1>1, <1>5, <2>2 DEF Release, ClientLost, taskVars
  <2> QED
      BY <2>1, <2>2
<1>6. ASSUME NEW c \in Call, Process(c) PROVE [Calls!Next]_(Calls!vars)
  <2>1. CASE UNCHANGED replies
      BY <1>1, <1>6, <2>1 DEF Process
  <2>2. CASE ~UNCHANGED replies
    <3>1. TaskEnds(c) /\ c \in Live /\ UNCHANGED callVars
        BY <1>6, <2>2
           DEF Process, ProcessSync, ProcessSetting, ProcessDevice
    <3>2. \A d \in TasksOf(queue_of[c]) : c <= d /\ (d \in Running => d = c)
        BY <1>6 DEF Process, IsHead, Pending
    <3> QED
        BY <1>2, <3>1, <3>2, EndImplements
  <2> QED
      BY <2>1, <2>2
<1>7. ASSUME NEW c \in Call,
             Introspected(c) \/ LastAnswer(c) \/ NextAnswer(c)
      PROVE  [Calls!Next]_(Calls!vars)
    BY <1>1, <1>7 DEF Introspected, LastAnswer, NextAnswer
<1>8. ASSUME NEW c \in Call, Completed(c) PROVE [Calls!Next]_(Calls!vars)
  <2>1. c \in Running /\ c \in Live /\ TaskEnds(c) /\ UNCHANGED callVars
      BY <1>8 DEF Completed, Running
  <2>2. ASSUME NEW d \in TasksOf(queue_of[c])
        PROVE  c <= d /\ (d \in Running => d = c)
    <3>1. c <= d
        BY <2>1 DEF TasksInv, RunsFirst
    <3>2. d \in Running => d <= c
        BY <2>1 DEF TasksInv, RunsFirst, TasksOf
    <3> QED
        BY <2>1, <3>1, <3>2 DEF TasksOf, Live, Call
  <2> QED
      BY <1>2, <2>1, <2>2, EndImplements
<1>9. ASSUME NEW s \in Device, DeviceLost(s) PROVE Calls!Next
    BY <1>2, <1>9, DeviceLostImplements
<1>10. ASSUME NEW s \in Device, DeviceFound(s) \/ ContextLost(s)
       PROVE  [Calls!Next]_(Calls!vars)
    BY <1>1, <1>10 DEF DeviceFound, ContextLost, taskVars
<1>11. CASE Quit \/ UNCHANGED vars
    BY <1>1, <1>11 DEF Quit, vars, taskVars
<1> QED
    BY <1>3, <1>4, <1>5, <1>6, <1>7, <1>8, <1>9, <1>10, <1>11 DEF Next

\* Tasks implements ClientCalls: whatever is cancelled, lost or released, each
\* call is answered once and, in each queue, in the order of the calls.
THEOREM TasksImplementCalls == Spec => ImplementsCalls
<1>1. Init => Calls!Init
    BY DEF Init, Calls!Init, Call
<1>2. TasksInv /\ [Next]_vars => [Calls!Next]_(Calls!vars)
    BY NextImplements
<1> QED
    BY <1>1, <1>2, TasksInvariant, PTL DEF Spec, ImplementsCalls, Calls!Spec
=============================================================================
