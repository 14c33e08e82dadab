------------------------------ MODULE Discovery ------------------------------
(***************************************************************************)
(* Discovery of renderers: src/libdleyna/renderer/upnp.c, with the         *)
(* construction of devices in device.c.                                    *)
(*                                                                         *)
(* GUPnP reports that a renderer (a UDN) became available or unavailable   *)
(* on one network context.  The first report starts the construction of a  *)
(* device: a queue of service tasks (get the protocol info, subscribe,     *)
(* publish the D-Bus objects) which the main loop processes one by one,    *)
(* between which any other event may be dispatched.  When the queue is     *)
(* empty the device is listed and FoundRenderer is emitted.                *)
(*                                                                         *)
(* Each action is one callback of the (single threaded) main loop.         *)
(***************************************************************************)
EXTENDS DeviceContexts

CONSTANTS
    Udn,              \* the renderers
    NoIp,             \* no construction context
    LossyService,     \* services whose subscription the network may drop
    PublishMayFail,   \* whether publish_object may fail
    MaxHandlers       \* bound: a proxy with more handlers sees no new context

ASSUME DiscoveryAssumption ==
    /\ NoIp \notin Ip
    /\ LossyService \subseteq Service
    /\ PublishMayFail \in BOOLEAN
    /\ MaxHandlers \in Nat

VARIABLES
    visible,          \* [Udn -> SUBSET Ip]: where the network announces it
    server_udn_map,   \* SUBSET Udn: the listed devices
    server_uc_map,    \* SUBSET Udn: the devices under construction
    chain,            \* [Udn -> Chain]: the construction queue
    contexts,         \* [Udn -> Seq(Ip)]: device->contexts
    subs,             \* [Udn -> [Ip -> [Service -> Subscription]]]
    construct_step,   \* [Udn -> 0..DeclaredStep]
    ids,              \* [Udn -> BOOLEAN]: the D-Bus objects are published
    timeout_id        \* [Udn -> BOOLEAN]: the subscribe timer is armed

vars == <<visible, server_udn_map, server_uc_map, chain, contexts, subs,
          construct_step, ids, timeout_id>>

\* The queue of a device under construction: the context it was started on,
\* its tasks, and whether GetProtocolInfo awaits its answer.
TaskKind == {"get_protocol_info", "subscribe", "declare"}

Chain == [ip : Ip \cup {NoIp}, tasks : Seq(TaskKind), pending : BOOLEAN]

NoChain == [ip |-> NoIp, tasks |-> <<>>, pending |-> FALSE]

\* The device is compared with steps 1 and 3 only: steps past 3 are one.
DeclaredStep == 3

Bump(step) == IF step < DeclaredStep THEN step + 1 ELSE DeclaredStep

NoSubscriptions == [ip \in Ip |-> Fresh]

Known == server_udn_map \cup server_uc_map

Init ==
    /\ visible = [u \in Udn |-> {}]
    /\ server_udn_map = {}
    /\ server_uc_map = {}
    /\ chain = [u \in Udn |-> NoChain]
    /\ contexts = [u \in Udn |-> <<>>]
    /\ subs = [u \in Udn |-> NoSubscriptions]
    /\ construct_step = [u \in Udn |-> 0]
    /\ ids = [u \in Udn |-> FALSE]
    /\ timeout_id = [u \in Udn |-> FALSE]

-----------------------------------------------------------------------------
(***************************************************************************)
(* The construction queue.                                                 *)
(***************************************************************************)

\* dlr_device_construct: the tasks left at a construction step.
TasksFrom(step) ==
    IF step < 1 THEN <<"get_protocol_info", "subscribe", "declare">>
    ELSE IF step < 3 THEN <<"subscribe", "declare">>
    ELSE <<"subscribe">>

\* prv_create_device_queue, prv_update_device_context, dlr_device_construct.
StartChain(ip, step) ==
    [ip |-> ip, tasks |-> TasksFrom(step), pending |-> FALSE]

\* dlr_device_delete: the object, its timer, contexts and D-Bus objects go.
DeleteDevice(u) ==
    /\ contexts' = [contexts EXCEPT ![u] = <<>>]
    /\ subs' = [subs EXCEPT ![u] = NoSubscriptions]
    /\ construct_step' = [construct_step EXCEPT ![u] = 0]
    /\ ids' = [ids EXCEPT ![u] = FALSE]
    /\ timeout_id' = [timeout_id EXCEPT ![u] = FALSE]

\* Variant of ChainCancelled: the device is not deleted.
ChainCancelled_Leaks(u) ==
    /\ server_uc_map' = server_uc_map \ {u}
    /\ chain' = [chain EXCEPT ![u] = NoChain]
    /\ UNCHANGED <<server_udn_map, contexts, subs, construct_step, ids,
                   timeout_id>>

\* Variant of ChainCancelled: the device is listed as if the chain had ended.
ChainCancelled_Listed(u) ==
    /\ server_uc_map' = server_uc_map \ {u}
    /\ chain' = [chain EXCEPT ![u] = NoChain]
    /\ DeleteDevice(u)
    /\ server_udn_map' = server_udn_map \cup {u}

\* prv_device_chain_end(cancelled): a cancelled chain deletes the device.
ChainCancelled(u) ==
    /\ server_uc_map' = server_uc_map \ {u}
    /\ chain' = [chain EXCEPT ![u] = NoChain]
    /\ DeleteDevice(u)
    /\ UNCHANGED server_udn_map

\* Variant of TaskCompleted: nothing is done when the last task ends.
TaskCompleted_NeverListed(u) ==
    /\ chain' = [chain EXCEPT ![u].tasks = Tail(@), ![u].pending = FALSE]
    /\ UNCHANGED <<server_uc_map, server_udn_map>>

\* The current task of the chain completes: dleyna-core starts the next one
\* from an idle callback, or ends the queue, and prv_device_chain_end lists
\* the device (FoundRenderer).
TaskCompleted(u) ==
    IF Len(chain[u].tasks) = 1
    THEN /\ server_udn_map' = server_udn_map \cup {u}
         /\ server_uc_map' = server_uc_map \ {u}
         /\ chain' = [chain EXCEPT ![u] = NoChain]
    ELSE /\ chain' = [chain EXCEPT ![u].tasks = Tail(@), ![u].pending = FALSE]
         /\ UNCHANGED <<server_uc_map, server_udn_map>>

\* The idle callback of the queue is due and its next task is k.
NextTask(u, k) ==
    /\ u \in server_uc_map
    /\ ~chain[u].pending
    /\ chain[u].tasks # <<>>
    /\ Head(chain[u].tasks) = k

\* prv_get_protocol_info: the action is sent.  Without a ConnectionManager
\* there is no action to wait for and the task is over.
GetProtocolInfo(u) ==
    /\ NextTask(u, "get_protocol_info")
    /\ IF "cm" \in Service
       THEN /\ chain' = [chain EXCEPT ![u].pending = TRUE]
            /\ UNCHANGED <<server_uc_map, server_udn_map>>
       ELSE TaskCompleted(u)
    /\ UNCHANGED <<visible, contexts, subs, construct_step, ids, timeout_id>>

\* prv_get_protocol_info_cb: an answer or an error, the step is taken.
GetProtocolInfoDone(u) ==
    /\ u \in server_uc_map
    /\ chain[u].pending
    /\ construct_step' = [construct_step EXCEPT ![u] = Bump(@)]
    /\ TaskCompleted(u)
    /\ UNCHANGED <<visible, contexts, subs, ids, timeout_id>>

\* prv_subscribe.
Subscribe(u) ==
    /\ NextTask(u, "subscribe")
    /\ construct_step' = [construct_step EXCEPT ![u] = Bump(@)]
    /\ subs' = [subs EXCEPT ![u] = SubscribeContext(contexts[u], @)]
    /\ TaskCompleted(u)
    /\ UNCHANGED <<visible, contexts, ids, timeout_id>>

\* prv_declare: every D-Bus object of the device is published.
Declare(u) ==
    /\ NextTask(u, "declare")
    /\ construct_step' = [construct_step EXCEPT ![u] = Bump(@)]
    /\ ids' = [ids EXCEPT ![u] = TRUE]
    /\ TaskCompleted(u)
    /\ UNCHANGED <<visible, contexts, subs, timeout_id>>

\* prv_declare: publish_object fails, the queue is cancelled.
DeclareFails(u) ==
    /\ PublishMayFail
    /\ NextTask(u, "declare")
    /\ ChainCancelled(u)
    /\ UNCHANGED visible

-----------------------------------------------------------------------------
(***************************************************************************)
(* Reports of the network.                                                 *)
(***************************************************************************)

\* prv_server_available_cb for an unknown device: dlr_device_new.
NewDevice(u, ip) ==
    /\ contexts' = [contexts EXCEPT ![u] = <<ip>>]
    /\ server_uc_map' = server_uc_map \cup {u}
    /\ chain' = [chain EXCEPT ![u] = StartChain(ip, construct_step[u])]
    /\ UNCHANGED <<server_udn_map, subs, construct_step, ids, timeout_id>>

\* dlr_device_append_new_context: the context is added and subscribed to if
\* it is the preferred one now.
AppendContext(u, ip) ==
    /\ contexts' = [contexts EXCEPT ![u] = Append(@, ip)]
    /\ subs' = [subs EXCEPT ![u] = SubscribeContext(contexts'[u], @)]
    /\ UNCHANGED <<server_udn_map, server_uc_map, chain, construct_step, ids,
                   timeout_id>>

\* Variant of ServerAvailable: a repeated report adds the context again.
ServerAvailable_NoLookup(u, ip) ==
    /\ \A i \in Ip, s \in Service : subs[u][i][s].handlers < MaxHandlers
    /\ visible' = [visible EXCEPT ![u] = @ \cup {ip}]
    /\ IF u \notin Known
       THEN NewDevice(u, ip)
       ELSE AppendContext(u, ip)

\* prv_server_available_cb.
ServerAvailable(u, ip) ==
    /\ \A i \in Ip, s \in Service : subs[u][i][s].handlers < MaxHandlers
    /\ visible' = [visible EXCEPT ![u] = @ \cup {ip}]
    /\ IF u \notin Known
       THEN NewDevice(u, ip)
       ELSE IF ip \notin Range(contexts[u])
       THEN AppendContext(u, ip)
       ELSE UNCHANGED <<server_udn_map, server_uc_map, chain, contexts, subs,
                        construct_step, ids, timeout_id>>

\* g_ptr_array_remove_index of the context at ip: unsubscribed and freed.
Without(u, ip) ==
    RemoveAt(contexts[u], CHOOSE i \in DOMAIN contexts[u] : contexts[u][i] = ip)

RemoveContext(u, ip) ==
    /\ contexts' = [contexts EXCEPT ![u] = Without(u, ip)]
    /\ subs' = [subs EXCEPT ![u][ip] = Fresh]

\* The last context of a listed device is lost (LostRenderer).
LastContextLost(u) ==
    /\ server_udn_map' = server_udn_map \ {u}
    /\ DeleteDevice(u)
    /\ UNCHANGED <<server_uc_map, chain>>

\* The construction context is lost and another one is left: the chain is
\* cancelled and a new one started, at the step reached, on that context.
SwitchConstruction(u, ip) ==
    /\ RemoveContext(u, ip)
    /\ chain' = [chain EXCEPT ![u] =
                    StartChain(Preferred(contexts'[u]), construct_step[u])]
    /\ UNCHANGED <<server_udn_map, server_uc_map, construct_step, ids,
                   timeout_id>>

\* Whether the lost context looks subscribed to prv_server_unavailable_cb.
LooksSubscribed(u, ip) ==
    \E s \in Service \cap {"av", "cm"} : subs[u][ip][s].flag

\* Variant of ContextLost: the timer is not armed.
ContextLost_NoTimer(u, ip) ==
    /\ RemoveContext(u, ip)
    /\ UNCHANGED <<timeout_id, server_udn_map, server_uc_map, chain,
                   construct_step, ids>>

\* A context is lost and another one is left: if it was subscribed to, a
\* timer will subscribe on the preferred one.
ContextLost(u, ip) ==
    /\ RemoveContext(u, ip)
    /\ timeout_id' = [timeout_id EXCEPT ![u] = @ \/ LooksSubscribed(u, ip)]
    /\ UNCHANGED <<server_udn_map, server_uc_map, chain, construct_step, ids>>

\* Variant of ServerUnavailable: the construction is not moved.
ServerUnavailable_KeepsConstruction(u, ip) ==
    /\ ip \in visible[u]
    /\ visible' = [visible EXCEPT ![u] = @ \ {ip}]
    /\ IF u \notin Known \/ ip \notin Range(contexts[u])
       THEN UNCHANGED <<server_udn_map, server_uc_map, chain, contexts, subs,
                        construct_step, ids, timeout_id>>
       ELSE IF Len(contexts[u]) = 1
       THEN IF u \in server_udn_map THEN LastContextLost(u)
                                    ELSE ChainCancelled(u)
       ELSE ContextLost(u, ip)

\* Variant of ServerUnavailable: the device is lost with its preferred context.
ServerUnavailable_LosesOnPreferred(u, ip) ==
    /\ ip \in visible[u]
    /\ visible' = [visible EXCEPT ![u] = @ \ {ip}]
    /\ IF u \notin Known \/ ip \notin Range(contexts[u])
       THEN UNCHANGED <<server_udn_map, server_uc_map, chain, contexts, subs,
                        construct_step, ids, timeout_id>>
       ELSE IF u \in server_udn_map /\ ip = Preferred(contexts[u])
       THEN LastContextLost(u)
       ELSE IF Len(contexts[u]) = 1
       THEN IF u \in server_udn_map THEN LastContextLost(u)
                                    ELSE ChainCancelled(u)
       ELSE IF u \notin server_udn_map /\ ip = chain[u].ip
       THEN SwitchConstruction(u, ip)
       ELSE ContextLost(u, ip)

\* prv_server_unavailable_cb.
ServerUnavailable(u, ip) ==
    /\ ip \in visible[u]
    /\ visible' = [visible EXCEPT ![u] = @ \ {ip}]
    /\ IF u \notin Known \/ ip \notin Range(contexts[u])
       THEN UNCHANGED <<server_udn_map, server_uc_map, chain, contexts, subs,
                        construct_step, ids, timeout_id>>
       ELSE IF Len(contexts[u]) = 1
       THEN IF u \in server_udn_map THEN LastContextLost(u)
                                    ELSE ChainCancelled(u)
       ELSE IF u \notin server_udn_map /\ ip = chain[u].ip
       THEN SwitchConstruction(u, ip)
       ELSE ContextLost(u, ip)

-----------------------------------------------------------------------------
(***************************************************************************)
(* Timers and subscriptions.                                               *)
(***************************************************************************)

\* Variant of SubscribeTimeout: the timer only clears itself.
SubscribeTimeout_ClearsOnly(u) ==
    /\ timeout_id[u]
    /\ timeout_id' = [timeout_id EXCEPT ![u] = FALSE]
    /\ UNCHANGED <<visible, server_udn_map, server_uc_map, chain, contexts,
                   subs, construct_step, ids>>

\* prv_subscribe_to_service_changes: one second after a context was lost.
SubscribeTimeout(u) ==
    /\ timeout_id[u]
    /\ timeout_id' = [timeout_id EXCEPT ![u] = FALSE]
    /\ subs' = [subs EXCEPT ![u] = SubscribePreferred(contexts[u], @)]
    /\ UNCHANGED <<visible, server_udn_map, server_uc_map, chain, contexts,
                   construct_step, ids>>

\* The renderer drops (or refuses to renew) the subscription to service s.
SubscriptionLost(u, ip, s) ==
    /\ s \in LossyService
    /\ u \in Known /\ ip \in Range(contexts[u])
    /\ subs[u][ip][s].live
    /\ subs' = [subs EXCEPT ![u][ip] = LoseSubscription(@, s)]
    /\ UNCHANGED <<visible, server_udn_map, server_uc_map, chain, contexts,
                   construct_step, ids, timeout_id>>

\* prv_re_enable_cm/av/rc_subscription: ten seconds after a loss.
RetryTimeout(u, ip, s) ==
    /\ subs[u][ip][s].retry
    /\ subs' = [subs EXCEPT ![u][ip] = ReEnable(@, s)]
    /\ UNCHANGED <<visible, server_udn_map, server_uc_map, chain, contexts,
                   construct_step, ids, timeout_id>>

Next ==
    \E u \in Udn :
        \/ GetProtocolInfo(u)
        \/ GetProtocolInfoDone(u)
        \/ Subscribe(u)
        \/ Declare(u)
        \/ DeclareFails(u)
        \/ SubscribeTimeout(u)
        \/ \E ip \in Ip :
              \/ ServerAvailable(u, ip)
              \/ ServerUnavailable(u, ip)
              \/ \E s \in Service :
                    \/ SubscriptionLost(u, ip, s)
                    \/ RetryTimeout(u, ip, s)

Spec == Init /\ [][Next]_vars

\* The main loop dispatches every idle callback and timer that is due, and
\* GUPnP answers every action, if only with an error.
Fairness ==
    \A u \in Udn :
        /\ WF_vars(GetProtocolInfo(u))
        /\ WF_vars(GetProtocolInfoDone(u))
        /\ WF_vars(Subscribe(u))
        /\ WF_vars(Declare(u) \/ DeclareFails(u))
        /\ WF_vars(SubscribeTimeout(u))

FairSpec == Spec /\ Fairness

-----------------------------------------------------------------------------
(***************************************************************************)
(* Properties.                                                             *)
(***************************************************************************)

\* Every variable keeps its type (the structures of upnp.c and device.c).
TypeOK ==
    /\ visible \in [Udn -> SUBSET Ip]
    /\ server_udn_map \subseteq Udn
    /\ server_uc_map \subseteq Udn
    /\ chain \in [Udn -> Chain]
    /\ contexts \in [Udn -> Seq(Ip)]
    /\ subs \in [Udn -> [Ip -> [Service -> Subscription]]]
    /\ construct_step \in [Udn -> 0 .. DeclaredStep]
    /\ ids \in [Udn -> BOOLEAN]
    /\ timeout_id \in [Udn -> BOOLEAN]

\* A device is owned by one of the two maps of upnp.c, never by both (it
\* would be freed twice), and nothing of it outlives it: a timer of a freed
\* device would be called with a dangling pointer.  Its D-Bus objects are
\* published only while it is listed: no client reaches an object whose calls
\* find no device.
OwnedOnce ==
    /\ server_udn_map \cap server_uc_map = {}
    /\ \A u \in Udn \ Known :
          /\ contexts[u] = <<>>
          /\ ~timeout_id[u] /\ ~ids[u]
          /\ chain[u] = NoChain
    /\ \A u \in Udn : ids[u] => u \in server_udn_map

\* The contexts of a device are the addresses the network announces it at,
\* each of them once, through any order of reports and construction steps.
\* There is always one for dlr_device_get_context to return.  A device that
\* could not be published is forgotten with the addresses it had: it knows
\* only those reported since.
ContextsTrackNetwork ==
    \A u \in Known :
        /\ contexts[u] # <<>>
        /\ Range(contexts[u]) \subseteq visible[u]
        /\ ~PublishMayFail => visible[u] \subseteq Range(contexts[u])
        /\ IsInjective(contexts[u])

\* A construction chain has a task to run, and the context whose proxy its
\* tasks use is still there (upnp.c cancels the chain otherwise).
ConstructionOnLiveContext ==
    /\ \A u \in server_uc_map :
          /\ chain[u].tasks # <<>>
          /\ chain[u].ip \in Range(contexts[u])
    /\ \A u \in Udn \ server_uc_map : chain[u] = NoChain

\* No context but the preferred one looks subscribed: events are never
\* received twice through two networks.
OnlyPreferredSubscribed ==
    \A u \in Known, ip \in Ip, s \in Service :
        subs[u][ip][s].flag => ip = Preferred(contexts[u])

\* API.txt promises an object for each renderer that was announced.
ListedArePublished ==
    \A u \in server_udn_map : ids[u]

\* A listed device gets, on its preferred context, the events of every
\* service whose subscription the network keeps, or the timer that will
\* subscribe there is armed: no switch of context forgets the subscription.
SubscribedOrTimerArmed ==
    \A u \in server_udn_map :
        \/ timeout_id[u]
        \/ \A s \in Service \ LossyService :
              subs[u][Preferred(contexts[u])][s].live

\* A service that device.c takes for subscribed really is (its loss is seen).
FlagMeansLive ==
    \A u \in Known, ip \in Ip, s \in Service :
        subs[u][ip][s].flag => subs[u][ip][s].live

\* The flags and callbacks agree through losses, retries and switches: a
\* service that looks subscribed has a callback for its events.
FlagMeansNotified ==
    \A u \in Known, ip \in Ip, s \in Service :
        subs[u][ip][s].flag => subs[u][ip][s].notify > 0

\* A device that stops losing contexts leaves construction: it is listed,
\* or deleted because it could not be published.
ConstructionEnds ==
    \A u \in Udn :
        <>[][\A ip \in Ip : ~ServerUnavailable(u, ip)]_vars
            => []<>(u \notin server_uc_map)

\* A listed device whose preferred context is not subscribed to is subscribed
\* again, unless it is lost first.
Resubscribed ==
    \A u \in Udn :
        (u \in server_udn_map /\ timeout_id[u])
            ~> (\/ u \notin server_udn_map
                \/ \A s \in Service : subs[u][Preferred(contexts[u])][s].live)

\* Discovery implements the directory of renderers it presents.
Directory == INSTANCE RendererDirectory
    WITH reachable <- visible, listed <- server_udn_map

ImplementsDirectory == Directory!Spec
=============================================================================
