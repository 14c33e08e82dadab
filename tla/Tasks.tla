-------------------------------- MODULE Tasks --------------------------------
(***************************************************************************)
(* Method calls and their tasks: src/libdleyna/renderer/server.c, task.c,  *)
(* async.c, the dispatch of upnp.c and the completion of each operation in *)
(* device.c and manager.c.                                                 *)
(*                                                                         *)
(* A D-Bus method call becomes a task on the queue of its sender (source)  *)
(* and object (sink).  dleyna-core runs the tasks of one queue one at a    *)
(* time from idle callbacks.  A task answers its invocation, and ends, in  *)
(* one of several ways that race with each other: its UPnP action is       *)
(* answered, the client cancels it, releases the service or disappears,    *)
(* the renderer is lost, the service quits.  Each action below is one      *)
(* callback of the main loop.                                              *)
(*                                                                         *)
(* Calls are numbered in the order they arrive, so a queue is the set of   *)
(* its tasks and its head the smallest of them.                            *)
(***************************************************************************)
EXTENDS Integers, FiniteSets

CONSTANTS
    Client,         \* the D-Bus clients
    Device,         \* the paths of the renderers (never used again)
    Root,           \* DLR_RENDERER_SINK: the synchronous manager methods
    Manager,        \* the path of the manager object (its properties)
    Types,          \* the types of task the clients ask for
    ContextsFail,   \* whether a renderer may lose a context and keep another
    MaxCalls        \* bound: the number of method calls

Sink == Device \cup {Root, Manager}

SyncTypes     == {"get_version"}                 \* also Rescan, Raise, Quit...
SettingsTypes == {"never_quit", "may_quit"}      \* Set(NeverQuit)
DeviceTypes   == {"get_prop", "get_all_props", "command", "open_uri",
                  "get_icon", "host_uri"}

ASSUME TasksAssumption ==
    /\ Root # Manager /\ Root \notin Device /\ Manager \notin Device
    /\ Types \subseteq SyncTypes \cup SettingsTypes \cup DeviceTypes
    /\ ContextsFail \in BOOLEAN
    /\ MaxCalls \in Nat

Call == 1 .. MaxCalls

VARIABLES
    sent,        \* the calls received so far are 1 .. sent
    queue_of,    \* [Call -> queue]: who called what, kept for ever
    task,        \* [Call -> Task or NoTask]
    replies,     \* [Call -> Nat]: answers sent for the invocation
    deferred,    \* the queues with defer_remove set
    listed,      \* SUBSET Device: server_udn_map
    lost,        \* SUBSET Device: the renderers that went away
    connected,   \* SUBSET Client: the clients on the bus
    watched,     \* SUBSET Client: the clients the connector watches
    watchers,    \* g_context.watchers
    never_quit,  \* the setting
    quitting,    \* processor->quitting
    quit_idle,   \* on_quit is scheduled
    stopped      \* the main loop has ended

callVars   == <<sent, queue_of>>
taskVars   == <<task, replies>>
deviceVars == <<listed, lost>>
clientVars == <<connected, watched, watchers>>
quitVars   == <<never_quit, quitting, quit_idle, stopped>>
vars == <<callVars, taskVars, deferred, deviceVars, clientVars, quitVars>>

Queue == Client \X Sink

\* What a task waits for: nothing, the introspection of the renderer (its
\* proxy still there or destroyed meanwhile), the answer to an action, or an
\* answer that will never come, its proxy being destroyed.
Doing == {"nothing", "introspection", "introspection_lost", "action",
          "dropped"}

Task ==
    [type       : Types,
     current    : BOOLEAN,   \* processed now; queued otherwise
     invocation : BOOLEAN,   \* task->invocation is set
     cancelled  : BOOLEAN,   \* the cancellable is cancelled
     connected  : BOOLEAN,   \* dlr_async_task_cancelled is connected to it
     doing      : Doing,
     left       : 0 .. 1,    \* actions to begin after this one
     idles      : Nat]       \* pending dlr_async_task_complete callbacks

NoTask  == [type |-> "none"]
NoQueue == <<>>

Init ==
    /\ sent = 0
    /\ queue_of = [c \in Call |-> NoQueue]
    /\ task = [c \in Call |-> NoTask]
    /\ replies = [c \in Call |-> 0]
    /\ deferred = {}
    /\ listed = {} /\ lost = {}
    /\ connected = Client /\ watched = {} /\ watchers = 0
    /\ never_quit \in BOOLEAN
    /\ quitting = FALSE /\ quit_idle = FALSE /\ stopped = FALSE

-----------------------------------------------------------------------------
(***************************************************************************)
(* Queues.                                                                 *)
(***************************************************************************)

Live       == {c \in Call : task[c] # NoTask}
Running    == {c \in Live : task[c].current}
TasksOf(q) == {c \in Live : queue_of[c] = q}
Pending(q) == TasksOf(q) \ Running

\* Variant of IsHead: any task of the queue may be next.
IsHead_Any(c) == c \in Live

IsHead(c) == \A d \in Pending(queue_of[c]) : c <= d

\* The calls of set C whose invocation is still open are answered.
Answer(C) ==
    replies' = [c \in Call |->
        IF c \in C /\ task[c].invocation THEN replies[c] + 1 ELSE replies[c]]

-----------------------------------------------------------------------------
(***************************************************************************)
(* One task record.                                                        *)
(***************************************************************************)

NewTask(type) ==
    [type |-> type, current |-> FALSE, invocation |-> TRUE,
     cancelled |-> FALSE, connected |-> FALSE, doing |-> "nothing",
     left |-> 0, idles |-> 0]

\* g_idle_add(dlr_async_task_complete).
AddIdle(t) == [t EXCEPT !.idles = @ + 1]

\* The operation is over and nothing was connected.
CompleteLocally(t) == AddIdle([t EXCEPT !.doing = "nothing"])

\* Variant of CompleteAction: the cancel handler stays connected.
CompleteAction_KeepConnected(t) == CompleteLocally(t)

\* The action is over: the same, then g_cancellable_disconnect.
CompleteAction(t) == [CompleteLocally(t) EXCEPT !.connected = FALSE]

\* g_cancellable_connect, then begin_action.  Connecting to a cancellable that
\* is cancelled already calls dlr_async_task_cancelled at once; the action is
\* begun all the same.
BeginAction(t, left) ==
    LET b == [t EXCEPT !.doing = "action", !.left = left]
    IN  IF t.cancelled THEN AddIdle(b)
                       ELSE [b EXCEPT !.connected = TRUE]

\* Variant of CancelTask: the action is cancelled, the task never completed.
CancelTask_NoIdle(t) ==
    [t EXCEPT !.invocation = FALSE, !.cancelled = TRUE,
              !.doing = IF t.connected /\ ~t.cancelled THEN "nothing" ELSE @]

\* dlr_task_cancel, dlr_async_task_cancel, dlr_async_task_cancelled: the
\* cancellable calls the handler if it is connected, the first time only.
CancelTask(t) ==
    LET c == [t EXCEPT !.invocation = FALSE, !.cancelled = TRUE]
    IN  IF t.connected /\ ~t.cancelled
        THEN CompleteLocally(c)
        ELSE c

\* The actions an operation begins.  A command is any with one: Play, Pause...,
\* Set(Volume), Get(Position).  OpenUri sets the uri, then plays (as Seek gets
\* the position, then seeks).  GetAll asks for the position, in bytes too or
\* not.  An icon is downloaded unless it is cached.  HostFile stands for all
\* that do without an action: RemoveFile, Set(Rate) while stopped.
Actions(type) ==
    CASE type = "command"       -> {1}
      [] type = "open_uri"      -> {2}
      [] type = "get_all_props" -> {0, 1, 2}
      [] type = "get_icon"      -> {0, 1}
      [] OTHER                  -> {0}

\* The operation proper: begin its n actions, or complete.
Operate(t, n) == IF n = 0 THEN CompleteLocally(t) ELSE BeginAction(t, n - 1)

-----------------------------------------------------------------------------
(***************************************************************************)
(* dleyna-core: cancelling queues, ending tasks.                           *)
(***************************************************************************)

\* The current task is cancelled (prv_cancel_task), and answers; the pending
\* ones are deleted (dlr_task_delete), and answer too.
CancelQueues(Q) ==
    LET hit == {c \in Live : queue_of[c] \in Q}
    IN  /\ Answer(hit)
        /\ task' = [c \in Call |->
               IF c \notin hit THEN task[c]
               ELSE IF task[c].current THEN CancelTask(task[c]) ELSE NoTask]

\* remove_queues_for_source/sink: a queue that runs a task goes when it ends.
DeferRemoval(Q) ==
    deferred' = deferred \cup {q \in Q : TasksOf(q) \cap Running # {}}

\* Variant of TaskEnds: the last task to end does not quit.
TaskEnds_NoQuit(c) ==
    /\ Answer({c})
    /\ task' = [task EXCEPT ![c] = NoTask]
    /\ UNCHANGED <<deferred, quit_idle, quitting, stopped>>

\* Variant of TaskEnds: the tasks of a removed queue are freed unanswered.
TaskEnds_FreesSilently(c) ==
    LET removed == queue_of[c] \in deferred
        freed   == {c} \cup IF removed THEN Pending(queue_of[c]) ELSE {}
    IN  /\ Answer({c})
        /\ task' = [d \in Call |-> IF d \in freed THEN NoTask ELSE task[d]]
        /\ deferred' = deferred \ {queue_of[c]}
        /\ quit_idle' = (quit_idle \/ (quitting /\ Running \subseteq {c}))
        /\ UNCHANGED <<quitting, stopped>>

\* The current task c is answered and ends: dleyna_task_queue_task_completed.
\* If its queue is to be removed the tasks added since go with it.
TaskEnds(c) ==
    LET quits   == quitting /\ Running \subseteq {c}
        removed == queue_of[c] \in deferred /\ ~quits
        freed   == {c} \cup IF removed THEN Pending(queue_of[c]) ELSE {}
    IN  /\ Answer(freed)
        /\ task' = [d \in Call |-> IF d \in freed THEN NoTask ELSE task[d]]
        /\ deferred' = IF removed THEN deferred \ {queue_of[c]} ELSE deferred
        /\ quit_idle' = (quit_idle \/ quits)
        /\ UNCHANGED <<quitting, stopped>>

-----------------------------------------------------------------------------
(***************************************************************************)
(* Method calls.                                                           *)
(***************************************************************************)

\* The calls each object offers.
TypesAt(s) ==
    Types \cap (CASE s = Root    -> SyncTypes
                  [] s = Manager -> SettingsTypes
                  [] OTHER       -> SyncTypes \cup DeviceTypes)

\* prv_get_device_id finds no renderer: the call is answered at once.
Refuse(c) ==
    /\ replies' = [replies EXCEPT ![c] = @ + 1]
    /\ UNCHANGED <<task, clientVars>>

\* Variant of AddTask: every call counts its sender.
AddTask_CountsCalls(c, k, type) ==
    /\ task' = [task EXCEPT ![c] = NewTask(type)]
    /\ watched' = watched \cup {k}
    /\ watchers' = watchers + 1
    /\ UNCHANGED <<replies, connected>>

\* prv_add_task: the sender is watched and counted, the task queued.
AddTask(c, k, type) ==
    /\ task' = [task EXCEPT ![c] = NewTask(type)]
    /\ watched' = watched \cup {k}
    /\ watchers' = IF k \in watched THEN watchers ELSE watchers + 1
    /\ UNCHANGED <<replies, connected>>

\* The method call handlers of server.c.
MethodCall(k, s, type) ==
    LET c == sent + 1
    IN  /\ ~stopped /\ sent < MaxCalls
        /\ k \in connected /\ type \in TypesAt(s)
        /\ s \in Device => s \in listed \cup lost
        /\ sent' = c
        /\ queue_of' = [queue_of EXCEPT ![c] = <<k, s>>]
        /\ IF s \in lost THEN Refuse(c) ELSE AddTask(c, k, type)
        /\ UNCHANGED <<deferred, deviceVars, quitVars>>

\* Variant of CancelCall: it cancels the requests of every client.
CancelCall_AllClients(k, s) ==
    /\ ~stopped /\ k \in connected /\ s \in listed
    /\ CancelQueues(Client \X {s})
    /\ UNCHANGED <<callVars, deferred, deviceVars, clientVars, quitVars>>

\* Cancel: the queue of this client and this renderer is cancelled.
CancelCall(k, s) ==
    /\ ~stopped /\ k \in connected /\ s \in listed
    /\ CancelQueues({<<k, s>>})
    /\ UNCHANGED <<callVars, deferred, deviceVars, clientVars, quitVars>>

-----------------------------------------------------------------------------
(***************************************************************************)
(* The main loop: idle callbacks and answers.                              *)
(***************************************************************************)

\* prv_process_sync_task: answered and ended within the callback.
ProcessSync(c) ==
    /\ TaskEnds(c)
    /\ UNCHANGED never_quit

\* dlr_manager_set_prop: the setting changes, or saving it fails.
ProcessSetting(c) ==
    /\ never_quit' \in {never_quit, task[c].type = "never_quit"}
    /\ task' = [task EXCEPT ![c] =
                   CompleteLocally([@ EXCEPT !.current = TRUE])]
    /\ UNCHANGED <<replies, deferred, quitting, quit_idle, stopped>>

\* The dispatch of upnp.c: the operation of device.c, or OBJECT_NOT_FOUND.
\* GetAll and Get first fetch the introspection, unless that was done.
ProcessDevice(c) ==
    LET t == [task[c] EXCEPT !.current = TRUE]
        introspect == [t EXCEPT !.doing = "introspection"]
    IN  /\ task' \in
              {[task EXCEPT ![c] = r] : r \in
                  IF queue_of[c][2] \notin listed THEN {CompleteLocally(t)}
                  ELSE {Operate(t, n) : n \in Actions(t.type)}
                       \cup IF t.type \in {"get_prop", "get_all_props"}
                            THEN {introspect} ELSE {}}
        /\ UNCHANGED <<replies, deferred, quitVars>>

\* The queue of c is idle and c its head: prv_process_task.
Process(c) ==
    /\ ~stopped
    /\ c \in Live \ Running /\ IsHead(c)
    /\ TasksOf(queue_of[c]) \cap Running = {}
    /\ CASE task[c].type \in SyncTypes     -> ProcessSync(c)
         [] task[c].type \in SettingsTypes -> ProcessSetting(c)
         [] OTHER                          -> ProcessDevice(c)
    /\ UNCHANGED <<callVars, deviceVars, clientVars>>

\* prv_props_update returns: the call that iterates the main loop is over.
\* "Lost Device" is answered if the proxy was destroyed meanwhile.
Introspected(c) ==
    /\ ~stopped
    /\ c \in Running
    /\ \/ /\ task[c].doing = "introspection_lost"
          /\ task' = [task EXCEPT ![c] = CompleteLocally(@)]
       \/ /\ task[c].doing = "introspection"
          /\ \E n \in Actions(task[c].type) :
                task' = [task EXCEPT ![c] = Operate(@, n)]
    /\ UNCHANGED <<callVars, replies, deferred, deviceVars, clientVars,
                   quitVars>>

\* The callback of the last action, or of one that failed.
LastAnswer(c) ==
    /\ ~stopped
    /\ c \in Running /\ task[c].doing = "action"
    /\ task[c].left = 1 => task[c].type # "get_all_props"
    /\ task' = [task EXCEPT ![c] = CompleteAction(@)]
    /\ UNCHANGED <<callVars, replies, deferred, deviceVars, clientVars,
                   quitVars>>

\* The callback of the first of two actions: the second one is begun, the
\* cancel handler staying connected.
NextAnswer(c) ==
    /\ ~stopped
    /\ c \in Running /\ task[c].doing = "action" /\ task[c].left = 1
    /\ task' = [task EXCEPT ![c].left = 0]
    /\ UNCHANGED <<callVars, replies, deferred, deviceVars, clientVars,
                   quitVars>>

\* dlr_async_task_complete, prv_async_task_complete.
Completed(c) ==
    /\ ~stopped
    /\ c \in Running /\ task[c].idles > 0
    /\ TaskEnds(c)
    /\ UNCHANGED <<callVars, deviceVars, clientVars, never_quit>>

-----------------------------------------------------------------------------
(***************************************************************************)
(* Renderers.                                                              *)
(***************************************************************************)

\* The renderer is listed and FoundRenderer emitted.
DeviceFound(s) ==
    /\ ~stopped
    /\ s \notin listed \cup lost
    /\ listed' = listed \cup {s}
    /\ UNCHANGED <<callVars, taskVars, deferred, lost, clientVars, quitVars>>

\* The proxies of a context of s are destroyed.
LoseProxy(t) ==
    CASE t.doing = "introspection" -> [t EXCEPT !.doing = "introspection_lost"]
      [] t.doing = "action" /\ t.type # "get_icon" ->
             [t EXCEPT !.doing = "dropped"]
      [] OTHER -> t

\* Variant of DeviceLost: the running tasks are not cancelled.
DeviceLost_DeletesPending(s) ==
    LET hit == {c \in Live \ Running : queue_of[c][2] = s}
    IN  /\ ~stopped
        /\ s \in listed
        /\ listed' = listed \ {s} /\ lost' = lost \cup {s}
        /\ Answer(hit)
        /\ task' = [c \in Call |-> IF c \in hit THEN NoTask ELSE task[c]]
        /\ DeferRemoval(Client \X {s})
        /\ UNCHANGED <<callVars, clientVars, quitVars>>

\* The last context of s is lost: its proxies are destroyed, then
\* prv_lost_media_server removes the queues of the renderer.
DeviceLost(s) ==
    LET hit == {c \in Live : queue_of[c][2] = s}
    IN  /\ ~stopped
        /\ s \in listed
        /\ listed' = listed \ {s} /\ lost' = lost \cup {s}
        /\ Answer(hit)
        /\ task' = [c \in Call |->
               IF c \notin hit THEN task[c]
               ELSE IF task[c].current THEN CancelTask(LoseProxy(task[c]))
               ELSE NoTask]
        /\ DeferRemoval(Client \X {s})
        /\ UNCHANGED <<callVars, clientVars, quitVars>>

\* s loses a context that tasks C run on and keeps another one: their actions
\* are dropped without a callback.
ContextLost(s) ==
    /\ ContextsFail
    /\ ~stopped
    /\ s \in listed
    /\ \E C \in SUBSET {c \in Running : queue_of[c][2] = s} :
          task' = [c \in Call |-> IF c \in C THEN LoseProxy(task[c])
                                            ELSE task[c]]
    /\ UNCHANGED <<callVars, replies, deferred, deviceVars, clientVars,
                   quitVars>>

-----------------------------------------------------------------------------
(***************************************************************************)
(* Clients.                                                                *)
(***************************************************************************)

\* prv_remove_client, with dleyna_task_processor_set_quitting: if tasks run
\* every queue is cancelled, the last one to end quits; else the service quits
\* from an idle callback.
RemoveClient(k) ==
    LET left  == IF watchers > 0 THEN watchers - 1 ELSE 0
        quits == left = 0 /\ ~never_quit
    IN  /\ CancelQueues(IF quits /\ Running # {} THEN Queue ELSE {k} \X Sink)
        /\ DeferRemoval({k} \X Sink)
        /\ watchers' = left
        /\ quitting' = (quitting \/ quits)
        /\ quit_idle' = (quit_idle \/ (quits /\ Running = {}))

\* Release, whether or not the client was watched.
Release(k) ==
    /\ ~stopped
    /\ k \in connected
    /\ watched' = watched \ {k}
    /\ RemoveClient(k)
    /\ UNCHANGED <<callVars, deviceVars, connected, never_quit, stopped>>

\* Variant of ClientLost: the client stays watched.
ClientLost_StaysWatched(k) ==
    /\ ~stopped
    /\ k \in connected
    /\ connected' = connected \ {k}
    /\ UNCHANGED watched
    /\ IF k \in watched
       THEN RemoveClient(k)
       ELSE UNCHANGED <<taskVars, deferred, watchers, quitting, quit_idle>>
    /\ UNCHANGED <<callVars, deviceVars, never_quit, stopped>>

\* The client leaves the bus: prv_lost_client, if the connector watches it.
ClientLost(k) ==
    /\ ~stopped
    /\ k \in connected
    /\ connected' = connected \ {k}
    /\ watched' = watched \ {k}
    /\ IF k \in watched
       THEN RemoveClient(k)
       ELSE UNCHANGED <<taskVars, deferred, watchers, quitting, quit_idle>>
    /\ UNCHANGED <<callVars, deviceVars, never_quit, stopped>>

\* on_quit: the main loop ends.
Quit ==
    /\ quit_idle /\ ~stopped
    /\ stopped' = TRUE
    /\ UNCHANGED <<callVars, taskVars, deferred, deviceVars, clientVars,
                   never_quit, quitting, quit_idle>>

Next ==
    \/ \E k \in Client :
          \/ \E s \in Sink, type \in Types : MethodCall(k, s, type)
          \/ \E s \in Device : CancelCall(k, s)
          \/ Release(k)
          \/ ClientLost(k)
    \/ \E c \in Call :
          \/ Process(c)
          \/ Introspected(c)
          \/ LastAnswer(c)
          \/ NextAnswer(c)
          \/ Completed(c)
    \/ \E s \in Device : DeviceFound(s) \/ DeviceLost(s) \/ ContextLost(s)
    \/ Quit

Spec == Init /\ [][Next]_vars

\* The main loop dispatches every idle callback; an action that was begun, a
\* download and an introspection are answered, if only with an error.
Fairness ==
    /\ \A c \in Call :
          /\ WF_vars(Process(c))
          /\ WF_vars(Introspected(c))
          /\ WF_vars(LastAnswer(c) \/ NextAnswer(c))
          /\ WF_vars(Completed(c))
    /\ WF_vars(Quit)

FairSpec == Spec /\ Fairness

-----------------------------------------------------------------------------
(***************************************************************************)
(* Properties.                                                             *)
(***************************************************************************)

\* Every variable keeps its type.
TypeOK ==
    /\ sent \in 0 .. MaxCalls
    /\ queue_of \in [Call -> Queue \cup {NoQueue}]
    /\ task \in [Call -> Task \cup {NoTask}]
    /\ replies \in [Call -> Nat]
    /\ deferred \subseteq Queue
    /\ listed \subseteq Device /\ lost \subseteq Device
    /\ connected \subseteq Client /\ watched \subseteq connected
    /\ watchers \in Nat
    /\ never_quit \in BOOLEAN /\ quitting \in BOOLEAN
    /\ quit_idle \in BOOLEAN /\ stopped \in BOOLEAN

\* Each call is answered exactly once: a task that is over has answered its
\* invocation, whoever ended it, and one that answered early (cancelled) does
\* not answer again when it completes.
AnsweredOnce ==
    \A c \in Call :
        IF task[c] = NoTask
        THEN replies[c] = IF c <= sent THEN 1 ELSE 0
        ELSE replies[c] = IF task[c].invocation THEN 0 ELSE 1

\* A GetAll that was cancelled.  If that happened while its introspection was
\* fetched it begins its action all the same (device.c 1991).
Overtaken(t) == t.type = "get_all_props" /\ t.cancelled

\* A running task waits for exactly one callback: the introspection, the
\* answer to an action or its completion.  With two of them the second one
\* would run on a freed task; with none the queue would be stuck (which only
\* the loss of a proxy explains).  Only a cancelled GetAll may wait for two.
OneContinuation ==
    \A c \in Running :
        \/ Overtaken(task[c])
        \/ IF task[c].doing = "nothing" THEN task[c].idles = 1
                                        ELSE task[c].idles = 0

\* No callback of an operation runs on a renderer that was freed, and no task
\* waits for one: the lookup of upnp.c when a task is processed succeeds.  An
\* action whose proxy is gone never calls back, and only a cancelled GetAll
\* still has one.
TasksFindDevice ==
    \A c \in Live :
        queue_of[c][2] \in Device \ listed =>
            /\ task[c].current
            /\ \/ task[c].doing \in {"nothing", "introspection_lost"}
               \/ task[c].doing = "dropped" /\ Overtaken(task[c])

\* Cancel answers every outstanding request of the client on that renderer,
\* and touches no other.
CancelIsExact ==
    [][\A k \in Client, s \in Device : CancelCall(k, s) =>
          \A c \in Call : c <= sent =>
              (replies'[c] > replies[c] <=>
                  queue_of[c] = <<k, s>> /\ replies[c] = 0)]_vars

\* When the last client the service watches goes, whatever calls were made and
\* whatever else was released, the service quits, unless the setting says
\* otherwise: it does not linger without clients.
LastClientEndsService ==
    [][watched # {} /\ watched' = {} => quitting' \/ never_quit]_vars

\* API.txt: the service shuts down when the last of its clients quits or
\* releases its connection, so when it starts to quit no client is left.
QuitsWithLastClient == [][quitting' /\ ~quitting => watched' = {}]_vars

\* A call is answered in the end, unless the service stops first or the proxy
\* of a task before it is destroyed while its action is in flight.
EventuallyAnswered ==
    \A c \in Call :
        c <= sent ~>
            \/ replies[c] > 0
            \/ stopped
            \/ \E d \in Running : queue_of[d] = queue_of[c]
                                  /\ task[d].doing = "dropped"

\* Once the service quits it stops, unless a call made meanwhile runs a task
\* whose proxy is destroyed (only its client can cancel that one).
EventuallyStops ==
    quitting ~> \/ stopped
                \/ \E c \in Running : task[c].doing = "dropped"

\* The tasks implement the calls a client sees: answered once, in order.
Calls == INSTANCE ClientCalls
    WITH open <- {c \in Call : c <= sent /\ replies[c] = 0}

ImplementsCalls == Calls!Spec
=============================================================================
