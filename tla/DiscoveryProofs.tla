--------------------------- MODULE DiscoveryProofs ---------------------------
(***************************************************************************)
(* Theorems about Discovery, for any renderers, addresses and services.    *)
(*                                                                         *)
(* Everything rests on the inductive invariant IInv: the types, and for    *)
(* each device DeviceOK, which adds to the stated properties the shapes a  *)
(* construction queue can have (the objects are published by its last      *)
(* task, if at all).                                                       *)
(***************************************************************************)
EXTENDS Discovery, DeviceContextsProofs

\* The queues dlr_device_construct builds, and what is left of them.
ChainShapes ==
    { <<"get_protocol_info", "subscribe", "declare">>,
      <<"subscribe", "declare">>, <<"declare">>, <<"subscribe">> }

DeviceOK(u) ==
    /\ ~(u \in server_udn_map /\ u \in server_uc_map)
    /\ u \notin Known =>
          /\ contexts[u] = <<>> /\ ~timeout_id[u] /\ ~ids[u]
          /\ ~PublishMayFail => visible[u] = {}
    /\ u \in Known =>
          /\ contexts[u] # <<>>
          /\ Range(contexts[u]) \subseteq visible[u]
          /\ ~PublishMayFail => visible[u] \subseteq Range(contexts[u])
          /\ IsInjective(contexts[u])
    /\ u \in server_uc_map =>
          /\ chain[u].tasks \in ChainShapes
          /\ chain[u].ip \in Range(contexts[u])
    /\ u \notin server_uc_map => chain[u] = NoChain
    /\ ids[u] => u \in server_udn_map

IInv == TypeOK /\ \A u \in Udn : DeviceOK(u)

\* A step that leaves the device v alone.
Same(v) ==
    /\ visible'[v] = visible[v]
    /\ contexts'[v] = contexts[v]
    /\ chain'[v] = chain[v]
    /\ ids'[v] = ids[v]
    /\ timeout_id'[v] = timeout_id[v]
    /\ v \in server_udn_map' <=> v \in server_udn_map
    /\ v \in server_uc_map' <=> v \in server_uc_map

-----------------------------------------------------------------------------
\* The inductive invariant gives the properties that the runs check.
LEMMA IInvImplies ==
    ASSUME IInv
    PROVE  /\ TypeOK
           /\ OwnedOnce
           /\ ContextsTrackNetwork
           /\ ConstructionOnLiveContext
<1>1. TypeOK /\ server_udn_map \subseteq Udn /\ server_uc_map \subseteq Udn
    BY DEF IInv, TypeOK
<1>2. \A u \in Udn : DeviceOK(u)
    BY DEF IInv
<1>3. OwnedOnce
    BY <1>1, <1>2 DEF DeviceOK, OwnedOnce, Known
<1>4. ContextsTrackNetwork
    BY <1>1, <1>2 DEF DeviceOK, ContextsTrackNetwork, Known
<1>5. ConstructionOnLiveContext
  <2>1. \A t \in ChainShapes : t # <<>>
      BY DEF ChainShapes
  <2> QED
      BY <1>1, <1>2, <2>1 DEF DeviceOK, ConstructionOnLiveContext
<1> QED
    BY <1>1, <1>3, <1>4, <1>5

\* Initially no device is known.
LEMMA InitIInv == Init => IInv
<1> SUFFICES ASSUME Init PROVE IInv
    OBVIOUS
<1>1. NoChain \in Chain
    BY DEF NoChain, Chain
<1>2. NoSubscriptions \in [Ip -> [Service -> Subscription]]
    BY FreshType DEF NoSubscriptions
<1>3. TypeOK
    BY <1>1, <1>2 DEF Init, TypeOK, DeclaredStep
<1>4. ASSUME NEW u \in Udn PROVE DeviceOK(u)
    BY DEF Init, DeviceOK, Known
<1> QED
    BY <1>3, <1>4 DEF IInv

-----------------------------------------------------------------------------
(***************************************************************************)
(* The parts that several actions share.                                   *)
(***************************************************************************)

\* A step on u alone keeps IInv if it keeps the types and leaves u in order.
LEMMA StepOnOne ==
    ASSUME IInv, NEW u \in Udn, TypeOK', DeviceOK(u)',
           \A v \in Udn \ {u} : Same(v)
    PROVE  IInv'
<1>1. ASSUME NEW v \in Udn, v # u PROVE DeviceOK(v)'
  <2>1. DeviceOK(v) /\ Same(v)
      BY <1>1 DEF IInv
  <2> QED
      BY <2>1 DEF DeviceOK, Same, Known
<1> QED
    BY <1>1 DEF IInv

\* The step of a device stays in its range.
LEMMA BumpType ==
    ASSUME NEW n \in 0 .. DeclaredStep
    PROVE  Bump(n) \in 0 .. DeclaredStep
BY DEF Bump, DeclaredStep

\* dlr_device_construct leaves a queue of one of the known shapes.
LEMMA StartChainShape ==
    ASSUME NEW ip \in Ip, NEW n \in 0 .. DeclaredStep
    PROVE  /\ StartChain(ip, n) \in Chain
           /\ StartChain(ip, n).ip = ip
           /\ StartChain(ip, n).tasks \in ChainShapes
<1>1. TasksFrom(n) \in ChainShapes
    BY DEF TasksFrom, ChainShapes
<1>2. ChainShapes \subseteq Seq(TaskKind)
    BY DEF ChainShapes, TaskKind
<1> QED
    BY <1>1, <1>2 DEF StartChain, Chain

\* One task less leaves a queue of a known shape, unless it was the last.
LEMMA TailShape ==
    ASSUME NEW c \in Chain, c.tasks \in ChainShapes
    PROVE  /\ c.tasks # <<>>
           /\ Len(c.tasks) # 1 => Tail(c.tasks) \in ChainShapes
           /\ Head(c.tasks) = "declare" => Len(c.tasks) = 1
<1> DEFINE gsd == <<"get_protocol_info", "subscribe", "declare">>
           sd == <<"subscribe", "declare">>
<1>1. /\ gsd # <<>> /\ Tail(gsd) = sd /\ Head(gsd) = "get_protocol_info"
    OBVIOUS
<1>2. /\ sd # <<>> /\ Tail(sd) = <<"declare">> /\ Head(sd) = "subscribe"
    OBVIOUS
<1>3. \A k : <<k>> # <<>> /\ Len(<<k>>) = 1
    OBVIOUS
<1>4. "get_protocol_info" # "declare" /\ "subscribe" # "declare"
    OBVIOUS
<1>5. c.tasks \in {gsd, sd, <<"declare">>, <<"subscribe">>}
    BY DEF ChainShapes
<1>6. {sd, <<"declare">>} \subseteq ChainShapes
    BY DEF ChainShapes
<1> HIDE DEF gsd, sd
<1> QED
    BY <1>1, <1>2, <1>3, <1>4, <1>5, <1>6, Zenon

\* The end of a task: the device stays owned by one map, and its queue keeps
\* a known shape or ends.
LEMMA TaskCompletedOK ==
    ASSUME IInv, NEW u \in server_uc_map, TaskCompleted(u)
    PROVE  /\ chain' \in [Udn -> Chain]
           /\ server_udn_map' \subseteq Udn
           /\ server_uc_map' \subseteq Udn
           /\ Known' = Known
           /\ u \in server_uc_map' =>
                 /\ u \notin server_udn_map'
                 /\ chain'[u].tasks \in ChainShapes
                 /\ chain'[u].ip = chain[u].ip
           /\ u \notin server_uc_map' =>
                 chain'[u] = NoChain /\ u \in server_udn_map'
           /\ u \notin server_udn_map' => Len(chain[u].tasks) # 1
           /\ \A v \in Udn \ {u} :
                 /\ chain'[v] = chain[v]
                 /\ v \in server_udn_map' <=> v \in server_udn_map
                 /\ v \in server_uc_map' <=> v \in server_uc_map
<1>1. TypeOK /\ u \in Udn /\ DeviceOK(u)
    BY DEF IInv, TypeOK
<1>2. chain \in [Udn -> Chain] /\ chain[u] \in Chain
    BY <1>1 DEF TypeOK
<1>3. chain[u].tasks \in ChainShapes /\ u \notin server_udn_map
    BY <1>1 DEF DeviceOK
<1>4. CASE Len(chain[u].tasks) = 1
  <2>1. NoChain \in Chain
      BY DEF NoChain, Chain
  <2> QED
      BY <1>1, <1>2, <1>4, <2>1 DEF TaskCompleted, TypeOK, Known
<1>5. CASE Len(chain[u].tasks) # 1
  <2>1. Tail(chain[u].tasks) \in ChainShapes
      BY <1>2, <1>3, <1>5, TailShape
  <2>2. ChainShapes \subseteq Seq(TaskKind)
      BY DEF ChainShapes, TaskKind
  <2> DEFINE c == [chain[u] EXCEPT !.tasks = Tail(@), !.pending = FALSE]
  <2>3. c \in Chain /\ c.ip = chain[u].ip /\ c.tasks \in ChainShapes
      BY <1>2, <2>1, <2>2 DEF Chain
  <2>4. chain' = [chain EXCEPT ![u] = c]
      BY <1>5 DEF TaskCompleted
  <2>5. server_udn_map' = server_udn_map /\ server_uc_map' = server_uc_map
      BY <1>5 DEF TaskCompleted
  <2> HIDE DEF c
  <2> QED
      BY <1>1, <1>2, <1>3, <1>5, <2>3, <2>4, <2>5 DEF TypeOK, Known
<1> QED
    BY <1>4, <1>5

\* A task that ends, with all it may have changed, keeps the invariant if
\* the D-Bus objects are only published by the last one.
LEMMA TaskStep ==
    ASSUME IInv, NEW u \in server_uc_map, TaskCompleted(u),
           UNCHANGED <<visible, contexts, timeout_id>>,
           subs' \in [Udn -> SubscriptionMap],
           construct_step' \in [Udn -> 0 .. DeclaredStep],
           ids' = ids \/ ids' = [ids EXCEPT ![u] = TRUE],
           ids' # ids => Len(chain[u].tasks) = 1
    PROVE  IInv'
<1>1. TypeOK /\ u \in Udn /\ DeviceOK(u)
    BY DEF IInv, TypeOK
<1>2. ids' \in [Udn -> BOOLEAN] /\ \A v \in Udn \ {u} : ids'[v] = ids[v]
    BY <1>1 DEF TypeOK
<1>3. TypeOK'
    BY <1>1, <1>2, TaskCompletedOK DEF TypeOK, SubscriptionMap
<1>4. ids'[u] => u \in server_udn_map'
  <2>1. ~ids[u]
      BY <1>1 DEF DeviceOK
  <2>2. ids'[u] => Len(chain[u].tasks) = 1
      BY <2>1
  <2> QED
      BY <2>2, TaskCompletedOK
<1>5. DeviceOK(u)'
  <2>1. u \in Known /\ u \in Known'
      BY TaskCompletedOK DEF Known
  <2>2. ~(u \in server_udn_map' /\ u \in server_uc_map')
      BY TaskCompletedOK
  <2> QED
      BY <1>1, <1>4, <2>1, <2>2, TaskCompletedOK DEF DeviceOK
<1>6. \A v \in Udn \ {u} : Same(v)
    BY <1>2, TaskCompletedOK DEF Same
<1> QED
    BY <1>1, <1>3, <1>5, <1>6, StepOnOne

\* An event of the timers or of the subscriptions changes nothing that the
\* invariant speaks of but types.
LEMMA SubscriptionStep ==
    ASSUME IInv, NEW u \in Udn,
           UNCHANGED <<visible, server_udn_map, server_uc_map, chain, contexts,
                       construct_step, ids>>,
           subs' \in [Udn -> SubscriptionMap],
           timeout_id' = timeout_id \/ timeout_id' = [timeout_id EXCEPT ![u] = FALSE]
    PROVE  IInv'
<1>1. TypeOK /\ DeviceOK(u)
    BY DEF IInv
<1>2. TypeOK'
    BY <1>1 DEF TypeOK, SubscriptionMap
<1>3. Known' = Known
    BY DEF Known
<1>4. timeout_id'[u] => timeout_id[u]
    BY <1>1 DEF TypeOK
<1>5. DeviceOK(u)'
    BY <1>1, <1>3, <1>4 DEF DeviceOK
<1>6. \A v \in Udn \ {u} : Same(v)
    BY <1>1 DEF Same, TypeOK
<1> QED
    BY <1>2, <1>5, <1>6, StepOnOne

-----------------------------------------------------------------------------
(***************************************************************************)
(* Each action keeps the invariant.                                        *)
(***************************************************************************)

LEMMA GetProtocolInfoIInv ==
    ASSUME IInv, NEW u \in Udn, GetProtocolInfo(u)
    PROVE  IInv'
<1>1. TypeOK /\ DeviceOK(u) /\ u \in server_uc_map
    BY DEF IInv, GetProtocolInfo, NextTask
<1>2. CASE "cm" \notin Service
    BY <1>1, <1>2, TaskStep DEF GetProtocolInfo, TypeOK, SubscriptionMap
<1>3. CASE "cm" \in Service
  <2> DEFINE c == [chain[u] EXCEPT !.pending = TRUE]
  <2>1. c \in Chain /\ c.ip = chain[u].ip /\ c.tasks = chain[u].tasks
      BY <1>1 DEF TypeOK, Chain
  <2>2. chain' = [chain EXCEPT ![u] = c]
      BY <1>3 DEF GetProtocolInfo
  <2>3. UNCHANGED <<visible, server_udn_map, server_uc_map, contexts, subs,
                    construct_step, ids, timeout_id>>
      BY <1>3 DEF GetProtocolInfo
  <2> HIDE DEF c
  <2>4. TypeOK'
      BY <1>1, <2>1, <2>2, <2>3 DEF TypeOK
  <2>5. chain'[u] = c /\ \A v \in Udn \ {u} : chain'[v] = chain[v]
      BY <1>1, <2>2 DEF TypeOK
  <2>6. DeviceOK(u)'
      BY <1>1, <2>1, <2>3, <2>5 DEF DeviceOK, Known
  <2> QED
      BY <2>3, <2>4, <2>5, <2>6, StepOnOne DEF Same
<1> QED
    BY <1>2, <1>3

LEMMA GetProtocolInfoDoneIInv ==
    ASSUME IInv, NEW u \in Udn, GetProtocolInfoDone(u)
    PROVE  IInv'
<1>1. TypeOK
    BY DEF IInv
<1>2. construct_step' \in [Udn -> 0 .. DeclaredStep]
    BY <1>1, BumpType DEF GetProtocolInfoDone, TypeOK
<1> QED
    BY <1>1, <1>2, TaskStep DEF GetProtocolInfoDone, TypeOK, SubscriptionMap

LEMMA SubscribeIInv ==
    ASSUME IInv, NEW u \in Udn, Subscribe(u)
    PROVE  IInv'
<1>1. TypeOK
    BY DEF IInv
<1>2. construct_step' \in [Udn -> 0 .. DeclaredStep]
    BY <1>1, BumpType DEF Subscribe, TypeOK
<1>3. subs' \in [Udn -> SubscriptionMap]
  <2>1. SubscribeContext(contexts[u], subs[u]) \in SubscriptionMap
      BY <1>1, SubscribeContextType DEF TypeOK, SubscriptionMap
  <2> QED
      BY <1>1, <2>1 DEF Subscribe, TypeOK, SubscriptionMap
<1> QED
    BY <1>2, <1>3, TaskStep DEF Subscribe, NextTask

LEMMA DeclareIInv ==
    ASSUME IInv, NEW u \in Udn, Declare(u)
    PROVE  IInv'
<1>1. TypeOK /\ DeviceOK(u) /\ u \in server_uc_map
    BY DEF IInv, Declare, NextTask
<1>2. construct_step' \in [Udn -> 0 .. DeclaredStep]
    BY <1>1, BumpType DEF Declare, TypeOK
<1>3. Len(chain[u].tasks) = 1
    BY <1>1, TailShape DEF Declare, NextTask, DeviceOK, TypeOK
<1> QED
    BY <1>1, <1>2, <1>3, TaskStep DEF Declare, TypeOK, SubscriptionMap

LEMMA SubscribeTimeoutIInv ==
    ASSUME IInv, NEW u \in Udn, SubscribeTimeout(u)
    PROVE  IInv'
<1>1. TypeOK
    BY DEF IInv
<1>2. SubscribePreferred(contexts[u], subs[u]) \in SubscriptionMap
    BY <1>1, SubscribePreferredType DEF TypeOK, SubscriptionMap
<1>3. subs' \in [Udn -> SubscriptionMap]
    BY <1>1, <1>2 DEF SubscribeTimeout, TypeOK, SubscriptionMap
<1> QED
    BY <1>3, SubscriptionStep DEF SubscribeTimeout

LEMMA SubscriptionLostIInv ==
    ASSUME IInv, NEW u \in Udn, NEW ip \in Ip, NEW s \in Service,
           SubscriptionLost(u, ip, s)
    PROVE  IInv'
<1>1. TypeOK
    BY DEF IInv
<1>2. LoseSubscription(subs[u][ip], s) \in [Service -> Subscription]
    BY <1>1, LoseSubscriptionType DEF TypeOK
<1>3. subs' \in [Udn -> SubscriptionMap]
    BY <1>1, <1>2 DEF SubscriptionLost, TypeOK, SubscriptionMap
<1> QED
    BY <1>3, SubscriptionStep DEF SubscriptionLost

LEMMA RetryTimeoutIInv ==
    ASSUME IInv, NEW u \in Udn, NEW ip \in Ip, NEW s \in Service,
           RetryTimeout(u, ip, s)
    PROVE  IInv'
<1>1. TypeOK
    BY DEF IInv
<1>2. ReEnable(subs[u][ip], s) \in [Service -> Subscription]
    BY <1>1, ReEnableType DEF TypeOK
<1>3. subs' \in [Udn -> SubscriptionMap]
    BY <1>1, <1>2 DEF RetryTimeout, TypeOK, SubscriptionMap
<1> QED
    BY <1>3, SubscriptionStep DEF RetryTimeout

\* A deleted device, owned by no map and without a chain, is in order.
LEMMA DeletedOK ==
    ASSUME IInv, NEW u \in Udn, DeleteDevice(u),
           visible' \in [Udn -> SUBSET Ip],
           \A v \in Udn \ {u} : visible'[v] = visible[v],
           ~PublishMayFail => visible'[u] = {},
           server_udn_map' = server_udn_map \ {u},
           server_uc_map' = server_uc_map \ {u},
           chain' = [chain EXCEPT ![u] = NoChain]
    PROVE  IInv'
<1>1. TypeOK
    BY DEF IInv
<1>2. NoChain \in Chain /\ NoSubscriptions \in SubscriptionMap
    BY FreshType DEF NoChain, Chain, NoSubscriptions, SubscriptionMap
<1>3. /\ contexts' \in [Udn -> Seq(Ip)]
      /\ subs' \in [Udn -> [Ip -> [Service -> Subscription]]]
      /\ construct_step' \in [Udn -> 0 .. DeclaredStep]
      /\ ids' \in [Udn -> BOOLEAN]
      /\ timeout_id' \in [Udn -> BOOLEAN]
    BY <1>1, <1>2 DEF DeleteDevice, TypeOK, SubscriptionMap, DeclaredStep
<1>4. TypeOK'
    BY <1>1, <1>2, <1>3 DEF TypeOK
<1>5. /\ contexts'[u] = <<>> /\ ~ids'[u] /\ ~timeout_id'[u]
      /\ chain'[u] = NoChain
    BY <1>1 DEF DeleteDevice, TypeOK
<1>6. DeviceOK(u)'
    BY <1>5 DEF DeviceOK, Known
<1>7. \A v \in Udn \ {u} : Same(v)
    BY <1>1 DEF Same, DeleteDevice, TypeOK
<1> QED
    BY <1>4, <1>6, <1>7, StepOnOne

LEMMA DeclareFailsIInv ==
    ASSUME IInv, NEW u \in Udn, DeclareFails(u)
    PROVE  IInv'
<1>1. TypeOK /\ DeviceOK(u) /\ u \in server_uc_map
    BY DEF IInv, DeclareFails, NextTask
<1>2. server_udn_map' = server_udn_map \ {u}
    BY <1>1 DEF DeclareFails, ChainCancelled, DeviceOK
<1> QED
    BY <1>1, <1>2, DeletedOK DEF DeclareFails, ChainCancelled, TypeOK

\* A report about a device that ignores it only changes what is visible.
LEMMA IgnoredOK ==
    ASSUME IInv, NEW u \in Udn,
           UNCHANGED <<server_udn_map, server_uc_map, chain, contexts, subs,
                       construct_step, ids, timeout_id>>,
           visible' \in [Udn -> SUBSET Ip],
           \A v \in Udn \ {u} : visible'[v] = visible[v],
           u \in Known =>
              /\ Range(contexts[u]) \subseteq visible'[u]
              /\ ~PublishMayFail => visible'[u] \subseteq Range(contexts[u]),
           u \notin Known => visible'[u] \subseteq visible[u]
    PROVE  IInv'
<1>1. TypeOK /\ DeviceOK(u)
    BY DEF IInv
<1>2. TypeOK'
    BY <1>1 DEF TypeOK
<1>3. DeviceOK(u)'
    BY <1>1 DEF DeviceOK, Known
<1> QED
    BY <1>2, <1>3, StepOnOne DEF Same

\* The appended context is known once.
LEMMA AppendOne ==
    ASSUME NEW q \in Seq(Ip), NEW ip \in Ip, ip \notin Range(q),
           IsInjective(q)
    PROVE  /\ Append(q, ip) \in Seq(Ip)
           /\ Append(q, ip) # <<>>
           /\ Range(Append(q, ip)) = Range(q) \cup {ip}
           /\ IsInjective(Append(q, ip))
<1> DEFINE r == Append(q, ip)
           n == Len(q)
<1>1. n \in Nat /\ DOMAIN q = 1 .. n
    BY LenProperties
<1>2. /\ r \in Seq(Ip) /\ r # <<>> /\ Len(r) = n + 1
      /\ \A i \in 1 .. n : r[i] = q[i]
      /\ r[n + 1] = ip
    BY AppendProperties
<1> HIDE DEF r, n
<1>3. DOMAIN r = 1 .. n + 1
    BY <1>2, LenProperties
<1>4. Range(r) = Range(q) \cup {ip}
    BY <1>1, <1>2, <1>3 DEF Range
<1>5. ASSUME NEW a \in 1 .. n + 1, NEW b \in 1 .. n + 1, r[a] = r[b]
      PROVE  a = b
  <2>1. \A i \in 1 .. n : r[i] # ip
      BY <1>1, <1>2 DEF Range
  <2>2. CASE a \in 1 .. n /\ b \in 1 .. n
      BY <1>1, <1>2, <1>5, <2>2 DEF IsInjective
  <2>3. CASE a = n + 1 \/ b = n + 1
      BY <1>1, <1>2, <1>5, <2>1, <2>3
  <2> QED
      BY <1>1, <2>2, <2>3
<1>6. IsInjective(r)
    BY <1>3, <1>5 DEF IsInjective
<1> QED
    BY <1>2, <1>4, <1>6 DEF r

LEMMA ServerAvailableIInv ==
    ASSUME IInv, NEW u \in Udn, NEW ip \in Ip, ServerAvailable(u, ip)
    PROVE  IInv'
<1>1. TypeOK /\ DeviceOK(u)
    BY DEF IInv
<1>2. /\ visible' \in [Udn -> SUBSET Ip]
      /\ visible'[u] = visible[u] \cup {ip}
      /\ \A v \in Udn \ {u} : visible'[v] = visible[v]
    BY <1>1 DEF ServerAvailable, TypeOK
<1>3. CASE u \notin Known
  <2>1. NewDevice(u, ip)
      BY <1>3 DEF ServerAvailable
  <2> DEFINE c == StartChain(ip, construct_step[u])
  <2>2. c \in Chain /\ c.ip = ip /\ c.tasks \in ChainShapes
      BY <1>1, StartChainShape DEF TypeOK
  <2> HIDE DEF c
  <2>3. /\ contexts' = [contexts EXCEPT ![u] = <<ip>>]
        /\ server_uc_map' = server_uc_map \cup {u}
        /\ chain' = [chain EXCEPT ![u] = c]
        /\ UNCHANGED <<server_udn_map, subs, construct_step, ids, timeout_id>>
      BY <2>1 DEF NewDevice, c
  <2>4. TypeOK'
      BY <1>1, <1>2, <2>2, <2>3 DEF TypeOK
  <2>5. contexts'[u] = <<ip>> /\ chain'[u] = c
      BY <1>1, <2>3 DEF TypeOK
  <2>6. Range(<<ip>>) = {ip} /\ IsInjective(<<ip>>) /\ <<ip>> # <<>>
      BY DEF Range, IsInjective
  <2>7. DeviceOK(u)'
      BY <1>1, <1>2, <1>3, <2>2, <2>3, <2>5, <2>6 DEF DeviceOK, Known
  <2>8. \A v \in Udn \ {u} : Same(v)
      BY <1>1, <1>2, <2>3 DEF Same, TypeOK
  <2> QED
      BY <2>4, <2>7, <2>8, StepOnOne
<1>4. CASE u \in Known /\ ip \notin Range(contexts[u])
  <2>1. AppendContext(u, ip)
      BY <1>4 DEF ServerAvailable
  <2> DEFINE q == Append(contexts[u], ip)
  <2>2. /\ q \in Seq(Ip) /\ q # <<>> /\ IsInjective(q)
        /\ Range(q) = Range(contexts[u]) \cup {ip}
      BY <1>1, <1>4, AppendOne DEF TypeOK, DeviceOK
  <2> HIDE DEF q
  <2>3. /\ contexts' = [contexts EXCEPT ![u] = q]
        /\ UNCHANGED <<server_udn_map, server_uc_map, chain, construct_step,
                       ids, timeout_id>>
      BY <2>1 DEF AppendContext, q
  <2>4. contexts'[u] = q
      BY <1>1, <2>3 DEF TypeOK
  <2>5. SubscribeContext(q, subs[u]) \in SubscriptionMap
      BY <1>1, <2>2, SubscribeContextType DEF TypeOK, SubscriptionMap
  <2>6. subs' = [subs EXCEPT ![u] = SubscribeContext(q, subs[u])]
      BY <2>1, <2>4 DEF AppendContext
  <2>7. TypeOK'
      BY <1>1, <1>2, <2>2, <2>3, <2>5, <2>6 DEF TypeOK, SubscriptionMap
  <2>8. DeviceOK(u)'
      BY <1>1, <1>2, <1>4, <2>2, <2>3, <2>4 DEF DeviceOK, Known
  <2>9. \A v \in Udn \ {u} : Same(v)
      BY <1>1, <1>2, <2>3 DEF Same, TypeOK
  <2> QED
      BY <2>7, <2>8, <2>9, StepOnOne
<1>5. CASE u \in Known /\ ip \in Range(contexts[u])
    BY <1>1, <1>2, <1>5, IgnoredOK DEF ServerAvailable, DeviceOK
<1> QED
    BY <1>3, <1>4, <1>5

\* The context at ip is removed, and others are left.
LEMMA WithoutOK ==
    ASSUME NEW u, contexts[u] \in Seq(Ip), IsInjective(contexts[u]),
           NEW ip \in Range(contexts[u])
    PROVE  /\ Without(u, ip) \in Seq(Ip)
           /\ Range(Without(u, ip)) = Range(contexts[u]) \ {ip}
           /\ IsInjective(Without(u, ip))
           /\ Len(contexts[u]) # 1 => Without(u, ip) # <<>>
           /\ Len(contexts[u]) = 1 => Range(contexts[u]) = {ip}
<1> DEFINE q == contexts[u]
           i == CHOOSE k \in DOMAIN q : q[k] = ip
<1>1. i \in DOMAIN q /\ q[i] = ip
    BY DEF Range
<1>2. Without(u, ip) = RemoveAt(q, i)
    BY DEF Without
<1> HIDE DEF i
<1>3. /\ Without(u, ip) \in Seq(Ip)
      /\ Len(Without(u, ip)) = Len(q) - 1
      /\ Range(Without(u, ip)) = Range(q) \ {ip}
      /\ IsInjective(Without(u, ip))
    BY <1>1, <1>2, RemoveOne
<1>4. Len(q) \in Nat /\ DOMAIN q = 1 .. Len(q)
    BY LenProperties
<1>5. Len(q) # 1 => Without(u, ip) # <<>>
  <2>1. Len(q) # 1 => Len(Without(u, ip)) # 0
      BY <1>1, <1>3, <1>4
  <2>2. Len(<<>>) = 0
      OBVIOUS
  <2> QED
      BY <2>1, <2>2
<1>6. Len(q) = 1 => Range(q) = {ip}
    BY <1>1, <1>4 DEF Range
<1> QED
    BY <1>3, <1>5, <1>6

\* A device that keeps a context after losing one stays in order, whatever
\* becomes of its timer, if its chain is on a context it still has.
LEMMA ContextRemovedOK ==
    ASSUME IInv, NEW u \in Known, NEW ip \in Range(contexts[u]),
           Len(contexts[u]) # 1,
           visible' = [visible EXCEPT ![u] = @ \ {ip}],
           RemoveContext(u, ip),
           UNCHANGED <<server_udn_map, server_uc_map, construct_step, ids>>,
           timeout_id' \in [Udn -> BOOLEAN],
           \A v \in Udn \ {u} : timeout_id'[v] = timeout_id[v],
           NEW c \in Chain, chain' = [chain EXCEPT ![u] = c],
           u \in server_uc_map =>
              c.tasks \in ChainShapes /\ c.ip \in Range(Without(u, ip)),
           u \notin server_uc_map => c = NoChain
    PROVE  IInv'
<1>1. TypeOK /\ u \in Udn /\ DeviceOK(u)
    BY DEF IInv, TypeOK, Known
<1>2. /\ contexts[u] \in Seq(Ip) /\ IsInjective(contexts[u])
      /\ ip \in Ip
    BY <1>1 DEF TypeOK, DeviceOK, Range
<1>3. /\ Without(u, ip) \in Seq(Ip) /\ Without(u, ip) # <<>>
      /\ Range(Without(u, ip)) = Range(contexts[u]) \ {ip}
      /\ IsInjective(Without(u, ip))
    BY <1>2, WithoutOK
<1>4. contexts' = [contexts EXCEPT ![u] = Without(u, ip)]
    BY DEF RemoveContext
<1>5. subs' \in [Udn -> [Ip -> [Service -> Subscription]]]
    BY <1>1, <1>2, FreshType DEF RemoveContext, TypeOK
<1>6. TypeOK'
    BY <1>1, <1>3, <1>4, <1>5 DEF TypeOK
<1>7. /\ contexts'[u] = Without(u, ip) /\ chain'[u] = c
      /\ visible'[u] = visible[u] \ {ip}
    BY <1>1, <1>4 DEF TypeOK
<1>8. DeviceOK(u)'
    BY <1>1, <1>3, <1>7 DEF DeviceOK, Known
<1>9. \A v \in Udn \ {u} : Same(v)
    BY <1>1, <1>4 DEF Same, TypeOK
<1> QED
    BY <1>1, <1>6, <1>8, <1>9, StepOnOne

LEMMA ServerUnavailableIInv ==
    ASSUME IInv, NEW u \in Udn, NEW ip \in Ip, ServerUnavailable(u, ip)
    PROVE  IInv'
<1>1. TypeOK /\ DeviceOK(u)
    BY DEF IInv
<1>2. /\ visible' = [visible EXCEPT ![u] = @ \ {ip}]
      /\ visible' \in [Udn -> SUBSET Ip]
      /\ visible'[u] = visible[u] \ {ip}
      /\ \A v \in Udn \ {u} : visible'[v] = visible[v]
    BY <1>1 DEF ServerUnavailable, TypeOK
<1>3. CASE u \notin Known \/ ip \notin Range(contexts[u])
    BY <1>1, <1>2, <1>3, IgnoredOK DEF ServerUnavailable, DeviceOK
<1>4. CASE u \in Known /\ ip \in Range(contexts[u]) /\ Len(contexts[u]) = 1
  <2>1. contexts[u] \in Seq(Ip) /\ IsInjective(contexts[u])
      BY <1>1, <1>4 DEF TypeOK, DeviceOK
  <2>2. Range(contexts[u]) = {ip}
      BY <1>4, <2>1, WithoutOK
  <2>3. ~PublishMayFail => visible'[u] = {}
      BY <1>1, <1>2, <1>4, <2>2 DEF DeviceOK
  <2>4. CASE u \in server_udn_map
    <3>1. LastContextLost(u)
        BY <1>4, <2>4 DEF ServerUnavailable
    <3>2. u \notin server_uc_map /\ chain[u] = NoChain
        BY <1>1, <2>4 DEF DeviceOK
    <3>3. /\ server_uc_map' = server_uc_map \ {u}
          /\ chain' = [chain EXCEPT ![u] = NoChain]
        BY <1>1, <3>1, <3>2 DEF LastContextLost, TypeOK
    <3> QED
        BY <1>2, <2>3, <3>1, <3>3, DeletedOK DEF LastContextLost
  <2>5. CASE u \notin server_udn_map
    <3>1. ChainCancelled(u)
        BY <1>4, <2>5 DEF ServerUnavailable
    <3>2. server_udn_map' = server_udn_map \ {u}
        BY <2>5, <3>1 DEF ChainCancelled
    <3> QED
        BY <1>2, <2>3, <3>1, <3>2, DeletedOK DEF ChainCancelled
  <2> QED
      BY <2>4, <2>5
<1>5. CASE u \in Known /\ ip \in Range(contexts[u]) /\ Len(contexts[u]) # 1
  <2>1. /\ contexts[u] \in Seq(Ip) /\ IsInjective(contexts[u])
        /\ construct_step[u] \in 0 .. DeclaredStep
      BY <1>1, <1>5 DEF TypeOK, DeviceOK
  <2>2. /\ Without(u, ip) \in Seq(Ip) /\ Without(u, ip) # <<>>
        /\ Range(Without(u, ip)) = Range(contexts[u]) \ {ip}
      BY <1>5, <2>1, WithoutOK
  <2>3. CASE u \notin server_udn_map /\ ip = chain[u].ip
    <3>1. SwitchConstruction(u, ip)
        BY <1>5, <2>3 DEF ServerUnavailable
    <3>2. contexts'[u] = Without(u, ip)
        BY <1>1, <3>1 DEF SwitchConstruction, RemoveContext, TypeOK
    <3> DEFINE c == StartChain(Preferred(Without(u, ip)), construct_step[u])
    <3>3. Preferred(Without(u, ip)) \in Range(Without(u, ip)) \cap Ip
        BY <2>2, PreferredInRange
    <3>4. /\ c \in Chain /\ c.tasks \in ChainShapes
          /\ c.ip \in Range(Without(u, ip))
        BY <2>1, <3>3, StartChainShape
    <3>5. chain' = [chain EXCEPT ![u] = c]
        BY <3>1, <3>2 DEF SwitchConstruction
    <3>6. u \in server_uc_map
        BY <1>5, <2>3 DEF Known
    <3> HIDE DEF c
    <3>7. timeout_id' = timeout_id /\ timeout_id' \in [Udn -> BOOLEAN]
        BY <1>1, <3>1 DEF SwitchConstruction, TypeOK
    <3> QED
        BY <1>2, <1>5, <3>1, <3>4, <3>5, <3>6, <3>7, ContextRemovedOK
        DEF SwitchConstruction
  <2>4. CASE ~(u \notin server_udn_map /\ ip = chain[u].ip)
    <3>1. ContextLost(u, ip)
        BY <1>5, <2>4 DEF ServerUnavailable
    <3>2. chain' = [chain EXCEPT ![u] = chain[u]] /\ chain[u] \in Chain
        BY <1>1, <3>1 DEF ContextLost, TypeOK
    <3>3. u \in server_uc_map =>
              /\ chain[u].tasks \in ChainShapes
              /\ chain[u].ip \in Range(Without(u, ip))
        BY <1>1, <2>2, <2>4 DEF DeviceOK
    <3>4. u \notin server_uc_map => chain[u] = NoChain
        BY <1>1 DEF DeviceOK
    <3>5. /\ timeout_id' \in [Udn -> BOOLEAN]
          /\ \A v \in Udn \ {u} : timeout_id'[v] = timeout_id[v]
      <4>1. (timeout_id[u] \/ LooksSubscribed(u, ip)) \in BOOLEAN
          BY DEF LooksSubscribed
      <4> QED
          BY <1>1, <3>1, <4>1 DEF ContextLost, TypeOK
    <3> QED
        BY <1>2, <1>5, <3>1, <3>2, <3>3, <3>4, <3>5, ContextRemovedOK
        DEF ContextLost
  <2> QED
      BY <2>3, <2>4
<1> QED
    BY <1>3, <1>4, <1>5

-----------------------------------------------------------------------------
(***************************************************************************)
(* The theorems.                                                           *)
(***************************************************************************)

LEMMA NextIInv == IInv /\ [Next]_vars => IInv'
<1> SUFFICES ASSUME IInv, [Next]_vars PROVE IInv'
    OBVIOUS
<1>1. CASE UNCHANGED vars
    BY <1>1 DEF vars, IInv, TypeOK, DeviceOK, Known
<1>2. CASE Next
  <2>1. PICK u \in Udn :
           \/ GetProtocolInfo(u) \/ GetProtocolInfoDone(u)
           \/ Subscribe(u) \/ Declare(u) \/ DeclareFails(u)
           \/ SubscribeTimeout(u)
           \/ \E ip \in Ip :
                 \/ ServerAvailable(u, ip) \/ ServerUnavailable(u, ip)
                 \/ \E s \in Service :
                       SubscriptionLost(u, ip, s) \/ RetryTimeout(u, ip, s)
      BY <1>2 DEF Next
  <2> QED
      BY <2>1, GetProtocolInfoIInv, GetProtocolInfoDoneIInv, SubscribeIInv,
         DeclareIInv, DeclareFailsIInv, SubscribeTimeoutIInv,
         ServerAvailableIInv, ServerUnavailableIInv, SubscriptionLostIInv,
         RetryTimeoutIInv
<1> QED
    BY <1>1, <1>2

\* The strengthened invariant holds of every reachable state.
THEOREM InductiveInvariant == Spec => []IInv
BY InitIInv, NextIInv, PTL DEF Spec

\* The structures of upnp.c and device.c keep their types.
THEOREM TypeCorrect == Spec => []TypeOK
BY InductiveInvariant, IInvImplies, PTL

\* A device has one owner, no timer, context or D-Bus object outlives it, and
\* clients reach its objects only while it is listed.
THEOREM DevicesOwnedOnce == Spec => []OwnedOnce
BY InductiveInvariant, IInvImplies, PTL

\* The contexts of a device are the addresses it is announced at.
THEOREM ContextsAreTracked == Spec => []ContextsTrackNetwork
BY InductiveInvariant, IInvImplies, PTL

\* A construction always runs on a context that is still there.
THEOREM ConstructionIsLive == Spec => []ConstructionOnLiveContext
BY InductiveInvariant, IInvImplies, PTL

-----------------------------------------------------------------------------
(***************************************************************************)
(* Discovery implements the directory of renderers.                        *)
(***************************************************************************)

\* A step that keeps what is visible lists u, or changes nothing listed.
LEMMA TaskCompletedDirectory ==
    ASSUME IInv, ~PublishMayFail, NEW u \in server_uc_map, TaskCompleted(u),
           UNCHANGED visible
    PROVE  [Directory!Next]_<<visible, server_udn_map>>
<1>1. u \in Udn /\ DeviceOK(u) /\ u \in Known
    BY DEF IInv, TypeOK, Known
<1>2. contexts[u] # <<>> /\ contexts[u] \in Seq(Ip)
    BY <1>1 DEF IInv, TypeOK, DeviceOK
<1>3. visible[u] # {}
  <2>1. contexts[u][1] \in Range(contexts[u])
      BY <1>2 DEF Range
  <2> QED
      BY <1>1, <2>1 DEF DeviceOK
<1>4. u \notin server_udn_map
    BY <1>1 DEF DeviceOK
<1>5. CASE Len(chain[u].tasks) = 1
  <2>1. Directory!Announce(u)
      BY <1>3, <1>4, <1>5 DEF TaskCompleted, Directory!Announce
  <2> QED
      BY <1>1, <2>1 DEF Directory!Next
<1>6. CASE Len(chain[u].tasks) # 1
    BY <1>6 DEF TaskCompleted
<1> QED
    BY <1>5, <1>6

LEMMA AvailableDirectory ==
    ASSUME IInv, NEW u \in Udn, NEW ip \in Ip, ServerAvailable(u, ip)
    PROVE  Directory!Next
<1>1. Directory!Appear(u, ip)
    BY DEF ServerAvailable, NewDevice, AppendContext, Directory!Appear
<1> QED
    BY <1>1 DEF Directory!Next

\* LostRenderer is emitted exactly when the last address goes.
LEMMA UnavailableDirectory ==
    ASSUME IInv, ~PublishMayFail, NEW u \in Udn, NEW ip \in Ip,
           ServerUnavailable(u, ip)
    PROVE  Directory!Next
<1>1. TypeOK /\ DeviceOK(u)
    BY DEF IInv
<1>2. /\ visible' = [visible EXCEPT ![u] = @ \ {ip}]
      /\ visible'[u] = visible[u] \ {ip}
      /\ ip \in visible[u]
    BY <1>1 DEF ServerUnavailable, TypeOK
<1>3. u \in Known /\ Range(contexts[u]) = visible[u]
    BY <1>1, <1>2 DEF DeviceOK
<1>4. contexts[u] \in Seq(Ip) /\ IsInjective(contexts[u])
    BY <1>1, <1>3 DEF TypeOK, DeviceOK
<1>5. server_udn_map' = IF visible'[u] = {} THEN server_udn_map \ {u}
                        ELSE server_udn_map
  <2>1. CASE Len(contexts[u]) = 1
    <3> ip \in Range(contexts[u])
        BY <1>2, <1>3
    <3> Range(contexts[u]) = {ip}
        BY <1>4, <2>1, WithoutOK
    <3>1. visible'[u] = {}
        BY <1>2, <1>3
    <3>2. server_udn_map' = server_udn_map \ {u}
        BY <1>2, <1>3, <2>1
        DEF ServerUnavailable, LastContextLost, ChainCancelled
    <3> QED
        BY <3>1, <3>2
  <2>2. CASE Len(contexts[u]) # 1
    <3> ip \in Range(contexts[u])
        BY <1>2, <1>3
    <3>1. Without(u, ip) # <<>> /\ Without(u, ip) \in Seq(Ip)
          /\ Range(Without(u, ip)) = visible[u] \ {ip}
        BY <1>2, <1>3, <1>4, <2>2, WithoutOK
    <3>2. Without(u, ip)[1] \in Range(Without(u, ip))
        BY <3>1 DEF Range
    <3>3. visible'[u] # {}
        BY <1>2, <3>1, <3>2
    <3>4. server_udn_map' = server_udn_map
        BY <1>2, <1>3, <2>2
        DEF ServerUnavailable, SwitchConstruction, ContextLost
    <3> QED
        BY <3>3, <3>4
  <2> QED
      BY <2>1, <2>2
<1>6. Directory!Disappear(u, ip)
    BY <1>2, <1>5 DEF Directory!Disappear
<1> QED
    BY <1>6 DEF Directory!Next

\* Every step of Discovery is a step of the directory or leaves it as it is.
LEMMA StepDirectory ==
    ASSUME IInv, ~PublishMayFail, [Next]_vars
    PROVE  [Directory!Next]_<<visible, server_udn_map>>
<1>1. CASE UNCHANGED vars
    BY <1>1 DEF vars
<1>2. CASE Next
  <2>1. PICK u \in Udn :
           \/ GetProtocolInfo(u) \/ GetProtocolInfoDone(u)
           \/ Subscribe(u) \/ Declare(u) \/ DeclareFails(u)
           \/ SubscribeTimeout(u)
           \/ \E ip \in Ip :
                 \/ ServerAvailable(u, ip) \/ ServerUnavailable(u, ip)
                 \/ \E s \in Service :
                       SubscriptionLost(u, ip, s) \/ RetryTimeout(u, ip, s)
      BY <1>2 DEF Next
  <2>2. CASE \/ GetProtocolInfo(u) \/ GetProtocolInfoDone(u)
             \/ Subscribe(u) \/ Declare(u)
    <3>1. u \in server_uc_map /\ UNCHANGED visible
        BY <2>2
        DEF GetProtocolInfo, GetProtocolInfoDone, Subscribe, Declare, NextTask
    <3>2. CASE TaskCompleted(u)
        BY <3>1, <3>2, TaskCompletedDirectory
    <3>3. CASE UNCHANGED server_udn_map
        BY <3>1, <3>3
    <3> QED
        BY <2>2, <3>2, <3>3
        DEF GetProtocolInfo, GetProtocolInfoDone, Subscribe, Declare
  <2>3. CASE DeclareFails(u)
      BY <2>3 DEF DeclareFails
  <2>4. CASE SubscribeTimeout(u)
      BY <2>4 DEF SubscribeTimeout
  <2>5. CASE \E ip \in Ip : ServerAvailable(u, ip) \/ ServerUnavailable(u, ip)
      BY <2>5, AvailableDirectory, UnavailableDirectory
  <2>6. CASE \E ip \in Ip, s \in Service :
                SubscriptionLost(u, ip, s) \/ RetryTimeout(u, ip, s)
      BY <2>6 DEF SubscriptionLost, RetryTimeout
  <2> QED
      BY <2>1, <2>2, <2>3, <2>4, <2>5, <2>6
<1> QED
    BY <1>1, <1>2

\* If the D-Bus objects can always be published, a renderer is announced once
\* while it is reachable and withdrawn with its last address.
THEOREM DirectoryIsImplemented ==
    ASSUME ~PublishMayFail
    PROVE  Spec => ImplementsDirectory
<1>1. Init => Directory!Init
    BY DEF Init, Directory!Init
<1>2. IInv /\ [Next]_vars => [Directory!Next]_<<visible, server_udn_map>>
    BY StepDirectory
<1> QED
    BY <1>1, <1>2, InductiveInvariant, PTL
    DEF Spec, ImplementsDirectory, Directory!Spec
-----------------------------------------------------------------------------
(***************************************************************************)
(* The subscriptions.  SubsInv says of each device where its subscription  *)
(* records may differ from fresh ones and how their parts go together.     *)
(***************************************************************************)

\* The services that tell prv_server_unavailable_cb of a subscribed context,
\* and whose subscription the network keeps.
Telling == ({"av", "cm"} \cap Service) \ LossyService

\* A record that looks subscribed has a callback, and, if the loss of rc
\* cannot leave it so, a live proxy with a handler for the loss of it.
RecordOK(r) ==
    r.flag => /\ r.notify > 0
              /\ "rc" \notin LossyService => r.live /\ r.handlers > 0

\* Services of one context are subscribed to together: if one looks
\* subscribed, those the network keeps are live and the telling ones tell.
Together(c) ==
    (\E s \in Service : c[s].flag) =>
        /\ \A s \in Service \ LossyService : c[s].live
        /\ \A s \in Telling : c[s].flag

\* The context ip of a device with the contexts q has the records c.
PlacedOK(q, ip, c) ==
    /\ ip \notin Range(q) => c = Fresh
    /\ \A s \in Service : c[s].flag => ip = Preferred(q)

ContextOK(q, ip, c) ==
    /\ PlacedOK(q, ip, c)
    /\ \A s \in Service : RecordOK(c[s])
    /\ Together(c)

\* The preferred context is subscribed to.
SubscribedTo(q, S) ==
    /\ \A s \in Service \ LossyService : S[Preferred(q)][s].live
    /\ \A s \in Telling : S[Preferred(q)][s].flag

\* The subscription task of u has been done since u was last moved.
Due(u) ==
    \/ u \in server_udn_map
    \/ u \in server_uc_map /\ chain[u].tasks = <<"declare">>

SubsOK(u) ==
    /\ \A ip \in Ip : ContextOK(contexts[u], ip, subs[u][ip])
    /\ chain[u].pending =>
          chain[u].tasks = <<"get_protocol_info", "subscribe", "declare">>
    /\ Telling # {} /\ Due(u) =>
          timeout_id[u] \/ SubscribedTo(contexts[u], subs[u])

SubsInv == \A u \in Udn : SubsOK(u)

Quiet(c) == \A s \in Service : ~c[s].flag

-----------------------------------------------------------------------------
\* Records that do not look subscribed are in order, fresh ones among them.
LEMMA QuietOK ==
    ASSUME NEW q, NEW ip, NEW c, Quiet(c), ip \notin Range(q) => c = Fresh
    PROVE  ContextOK(q, ip, c)
BY DEF Quiet, ContextOK, PlacedOK, RecordOK, Together

LEMMA FreshQuiet == Quiet(Fresh)
BY DEF Fresh, Quiet

\* prv_context_unsubscribe leaves nothing that looks subscribed.
LEMMA UnsubscribedQuiet ==
    ASSUME NEW c \in [Service -> Subscription]
    PROVE  Quiet(UnsubscribeServices(c))
BY DEF Quiet, UnsubscribeServices, Subscription

\* dlr_device_subscribe_to_service_changes leaves every service subscribed.
LEMMA SubscribedRecords ==
    ASSUME NEW c \in [Service -> Subscription], NEW s \in Service
    PROVE  /\ SubscribeServices(c)[s].flag /\ SubscribeServices(c)[s].live
           /\ SubscribeServices(c)[s].notify > 0
           /\ SubscribeServices(c)[s].handlers > 0
<1>1. c[s].notify + 1 > 0 /\ c[s].handlers + 1 > 0
    BY DEF Subscription
<1> QED
    BY <1>1 DEF SubscribeServices, Subscription

LEMMA SubscribePreferredOK ==
    ASSUME NEW q \in Seq(Ip), q # <<>>, NEW S \in SubscriptionMap,
           \A ip \in Ip : /\ ip \notin Range(q) => S[ip] = Fresh
                          /\ ip # Preferred(q) => Quiet(S[ip])
    PROVE  /\ \A ip \in Ip : ContextOK(q, ip, SubscribePreferred(q, S)[ip])
           /\ SubscribedTo(q, SubscribePreferred(q, S))
<1>1. PICK p \in Ip : p = Preferred(q) /\ p \in Range(q)
    BY PreferredInRange
<1>2. PICK T : T = SubscribePreferred(q, S)
    OBVIOUS
<1>3. /\ T[p] = SubscribeServices(S[p])
      /\ \A ip \in Ip \ {p} : T[ip] = S[ip]
    BY <1>1, <1>2 DEF SubscribePreferred, SubscriptionMap
<1>4. S[p] \in [Service -> Subscription]
    BY DEF SubscriptionMap
<1>5. \A s \in Service : /\ T[p][s].flag /\ T[p][s].live
                         /\ T[p][s].notify > 0 /\ T[p][s].handlers > 0
    BY <1>3, <1>4, SubscribedRecords
<1>6. ContextOK(q, p, T[p])
    BY <1>1, <1>5 DEF ContextOK, PlacedOK, RecordOK, Together, Telling
<1>7. ASSUME NEW ip \in Ip, ip # p
      PROVE  ContextOK(q, ip, T[ip])
    BY <1>1, <1>3, <1>7, QuietOK
<1>8. SubscribedTo(q, T)
    BY <1>1, <1>5 DEF SubscribedTo, Telling
<1> QED
    BY <1>2, <1>6, <1>7, <1>8

\* prv_device_subscribe_context moves the subscription, wherever it was, to
\* the preferred context.
LEMMA SubscribeContextOK ==
    ASSUME NEW q \in Seq(Ip), q # <<>>, NEW S \in SubscriptionMap, NEW p,
           \A ip \in Ip : /\ ip \notin Range(q) => S[ip] = Fresh
                          /\ \A s \in Service : S[ip][s].flag => ip = p
                          /\ \A s \in Service : RecordOK(S[ip][s])
                          /\ Together(S[ip])
    PROVE  /\ \A ip \in Ip : ContextOK(q, ip, SubscribeContext(q, S)[ip])
           /\ SubscribedTo(q, SubscribeContext(q, S))
<1> DEFINE on == Flagged(S) \cap Range(q)
<1>1. PICK new \in Ip : new = Preferred(q) /\ new \in Range(q)
    BY PreferredInRange
<1>2. CASE on = {}
  <2>1. ASSUME NEW ip \in Ip
        PROVE  Quiet(S[ip])
      BY <1>2, FreshQuiet DEF Flagged, Quiet
  <2>2. SubscribeContext(q, S) = SubscribePreferred(q, S)
      BY <1>2 DEF SubscribeContext
  <2> QED
      BY <2>1, <2>2, SubscribePreferredOK
<1>3. CASE on # {}
  <2>1. PICK old \in on : old = FirstOf(q, on)
      BY <1>3, FirstOfInRange
  <2>2. /\ old \in Ip /\ old = p /\ old \in Range(q)
        /\ \E s \in Service : S[old][s].flag
      BY <2>1 DEF Flagged
  <2>3. CASE old = new
    <3>1. SubscribeContext(q, S) = S
        BY <1>1, <1>3, <2>1, <2>3 DEF SubscribeContext
    <3>2. SubscribedTo(q, S)
        BY <1>1, <2>2, <2>3 DEF SubscribedTo, Together
    <3>3. \A ip \in Ip : ContextOK(q, ip, S[ip])
        BY <1>1, <2>2, <2>3 DEF ContextOK, PlacedOK
    <3> QED
        BY <3>1, <3>2, <3>3
  <2>4. CASE old # new
    <3>1. PICK T : T = [S EXCEPT ![old] = UnsubscribeServices(@)]
        OBVIOUS
    <3>2. SubscribeContext(q, S) = SubscribePreferred(q, T)
        BY <1>1, <1>3, <2>1, <2>4, <3>1 DEF SubscribeContext
    <3>3. S[old] \in [Service -> Subscription]
        BY <2>2 DEF SubscriptionMap
    <3>4. T \in SubscriptionMap
        BY <3>1, <3>3, UnsubscribeServicesType DEF SubscriptionMap
    <3>5. T[old] = UnsubscribeServices(S[old])
          /\ \A ip \in Ip \ {old} : T[ip] = S[ip]
        BY <2>2, <3>1 DEF SubscriptionMap
    <3>6. \A ip \in Ip : Quiet(T[ip])
        BY <2>2, <3>3, <3>5, UnsubscribedQuiet DEF Quiet
    <3>7. \A ip \in Ip : ip \notin Range(q) => T[ip] = Fresh
        BY <2>2, <3>5
    <3> QED
        BY <3>2, <3>4, <3>6, <3>7, SubscribePreferredOK
  <2> QED
      BY <2>3, <2>4
<1> QED
    BY <1>2, <1>3

\* The handlers of one emission: where the flag is left, nothing was given up,
\* and if there was a handler at all it has subscribed again.
LEMMA RunHandlersEffect ==
    ASSUME NEW r \in Subscription, NEW n \in Nat
    PROVE  /\ RunHandlers(r, n).flag => r.flag
           /\ RunHandlers(r, n).flag => RunHandlers(r, n).notify = r.notify
           /\ RunHandlers(r, n).handlers = r.handlers
           /\ r.live => RunHandlers(r, n).live
           /\ RunHandlers(r, n).flag /\ n > 0 => RunHandlers(r, n).live
<1> DEFINE armed == IF r.retry THEN 1 ELSE 0
           giveUps == (n + armed) \div 2
<1>1. PICK a \in 0 .. 1 : a = armed
    OBVIOUS
<1>2. PICK g \in Nat : g = giveUps /\ (g = 0 => n + a <= 1)
    BY <1>1
<1>3. /\ RunHandlers(r, n).flag <=> (r.flag /\ g = 0)
      /\ RunHandlers(r, n).live <=> (r.live \/ n > a)
      /\ RunHandlers(r, n).notify = IF r.notify > g THEN r.notify - g ELSE 0
      /\ RunHandlers(r, n).handlers = r.handlers
    BY <1>1, <1>2 DEF RunHandlers, Subscription
<1>4. r.notify \in Nat
    BY DEF Subscription
<1>5. g = 0 => (IF r.notify > g THEN r.notify - g ELSE 0) = r.notify
    BY <1>4
<1>6. g = 0 /\ n > 0 => n > a
    BY <1>1, <1>2
<1> QED
    BY <1>3, <1>5, <1>6

\* A lost subscription leaves the records of its context in order, and the
\* services that the network keeps as they were.
LEMMA LoseOK ==
    ASSUME NEW q, NEW ip \in Range(q), NEW c \in [Service -> Subscription],
           ContextOK(q, ip, c), NEW p \in LossyService
    PROVE  /\ ContextOK(q, ip, LoseSubscription(c, p))
           /\ \A s \in Service \ LossyService :
                 c[s].live => LoseSubscription(c, p)[s].live
           /\ \A s \in Telling :
                 c[s].flag => LoseSubscription(c, p)[s].flag
<1>1. PICK d : d = LoseSubscription(c, p)
    OBVIOUS
<1>2. p \in Service /\ p \in {"av", "cm", "rc"}
    BY DiscoveryAssumption, ContextsAssumption
<1>3. \A s \in Service : c[s] \in Subscription /\ c[s].handlers \in Nat
    BY DEF Subscription
<1>4. ASSUME NEW s \in Service, s # p
      PROVE  /\ d[s].flag => c[s].flag
             /\ d[s].flag => d[s].notify = c[s].notify
             /\ d[s].handlers = c[s].handlers
             /\ c[s].live => d[s].live
  <2>1. d[s] = IF s \in HandledOn(p) THEN RunHandlers(c[s], c[s].handlers)
               ELSE c[s]
      BY <1>1, <1>4 DEF LoseSubscription
  <2> QED
      BY <1>3, <2>1, RunHandlersEffect
<1>5. /\ d[p].flag => c[p].flag
      /\ d[p].flag => d[p].notify = c[p].notify
      /\ d[p].handlers = c[p].handlers
      /\ p # "rc" /\ d[p].flag /\ c[p].handlers > 0 => d[p].live
  <2>1. PICK r : r = [c[p] EXCEPT !.live = FALSE]
      OBVIOUS
  <2>2. /\ r \in Subscription /\ r.handlers \in Nat
        /\ r.handlers = c[p].handlers /\ r.notify = c[p].notify
        /\ r.flag <=> c[p].flag
      BY <1>2, <1>3, <2>1 DEF Subscription
  <2>3. d[p] = IF p \in HandledOn(p) THEN RunHandlers(r, r.handlers) ELSE r
      BY <1>1, <1>2, <2>1 DEF LoseSubscription
  <2>4. p # "rc" => p \in HandledOn(p)
      BY <1>2 DEF HandledOn
  <2>5. CASE p \in HandledOn(p)
      BY <2>2, <2>3, <2>5, RunHandlersEffect
  <2>6. CASE p \notin HandledOn(p)
      BY <2>2, <2>3, <2>4, <2>6
  <2> QED
      BY <2>5, <2>6
<1>6. ASSUME NEW s \in Telling
      PROVE  c[s].flag => d[s].flag
  <2>1. s \in Service /\ s # p /\ s \notin HandledOn(p)
      BY <1>2 DEF Telling, HandledOn
  <2> QED
      BY <1>1, <2>1 DEF LoseSubscription
<1>7. ASSUME NEW s \in Service \ LossyService
      PROVE  c[s].live => d[s].live
    BY <1>4
<1>8. ASSUME NEW s \in Service
      PROVE  RecordOK(d[s])
  <2>1. RecordOK(c[s])
      BY DEF ContextOK
  <2>2. CASE s = p
      BY <1>5, <2>1, <2>2 DEF RecordOK
  <2>3. CASE s # p
      BY <1>4, <2>1, <2>3 DEF RecordOK
  <2> QED
      BY <2>2, <2>3
<1>9. \A s \in Service : d[s].flag => c[s].flag
    BY <1>4, <1>5
<1>10. Together(d)
  <2>1. Together(c)
      BY DEF ContextOK
  <2> QED
      BY <1>6, <1>7, <1>9, <2>1 DEF Together
<1>11. PlacedOK(q, ip, d)
    BY <1>9 DEF ContextOK, PlacedOK
<1> QED
    BY <1>1, <1>6, <1>7, <1>8, <1>10, <1>11 DEF ContextOK

\* The retry timer of a service only clears itself.
LEMMA ReEnableOK ==
    ASSUME NEW q, NEW ip \in Range(q), NEW c \in [Service -> Subscription],
           ContextOK(q, ip, c), NEW p \in Service
    PROVE  /\ ContextOK(q, ip, ReEnable(c, p))
           /\ \A s \in Service : /\ c[s].live => ReEnable(c, p)[s].live
                                 /\ c[s].flag => ReEnable(c, p)[s].flag
<1>1. PICK d : d = ReEnable(c, p)
    OBVIOUS
<1>2. \A s \in Service : /\ d[s].flag <=> c[s].flag
                         /\ d[s].live <=> c[s].live
                         /\ d[s].notify = c[s].notify
                         /\ d[s].handlers = c[s].handlers
    BY <1>1 DEF ReEnable, Subscription
<1>3. /\ \A s \in Service : RecordOK(c[s])
      /\ Together(c) /\ PlacedOK(q, ip, c)
    BY DEF ContextOK
<1>4. \A s \in Service : RecordOK(d[s])
    BY <1>2, <1>3 DEF RecordOK
<1>5. Together(d)
    BY <1>2, <1>3 DEF Together, Telling
<1>6. PlacedOK(q, ip, d)
    BY <1>2, <1>3 DEF PlacedOK
<1> QED
    BY <1>1, <1>2, <1>4, <1>5, <1>6 DEF ContextOK

-----------------------------------------------------------------------------
(***************************************************************************)
(* Each action keeps SubsInv.                                              *)
(***************************************************************************)

\* What the invariants say of a device, as the proofs use it.
LEMMA DeviceFacts ==
    ASSUME IInv, SubsInv, NEW u \in Udn
    PROVE  /\ TypeOK /\ DeviceOK(u) /\ SubsOK(u)
           /\ contexts[u] \in Seq(Ip)
           /\ u \in Known => contexts[u] # <<>>
           /\ subs[u] \in SubscriptionMap
           /\ chain[u] \in Chain
           /\ \A ip \in Ip : ContextOK(contexts[u], ip, subs[u][ip])
BY DEF IInv, SubsInv, SubsOK, DeviceOK, TypeOK, SubscriptionMap

\* The context array of a device that is known holds what SubscribeContextOK
\* asks for, also with an address added to it.
LEMMA SubscribeDevice ==
    ASSUME IInv, SubsInv, NEW u \in Udn, NEW q \in Seq(Ip), q # <<>>,
           Range(contexts[u]) \subseteq Range(q)
    PROVE  /\ \A ip \in Ip : ContextOK(q, ip, SubscribeContext(q, subs[u])[ip])
           /\ SubscribedTo(q, SubscribeContext(q, subs[u]))
<1>1. PICK S \in SubscriptionMap : S = subs[u]
    BY DeviceFacts
<1>2. PICK p : p = Preferred(contexts[u])
    OBVIOUS
<1>3. ASSUME NEW ip \in Ip
      PROVE  /\ ip \notin Range(q) => S[ip] = Fresh
             /\ \A s \in Service : S[ip][s].flag => ip = p
             /\ \A s \in Service : RecordOK(S[ip][s])
             /\ Together(S[ip])
    BY <1>1, <1>2, DeviceFacts DEF ContextOK, PlacedOK
<1> QED
    BY <1>1, <1>3, SubscribeContextOK

LEMMA SubsOnOne ==
    ASSUME SubsInv, NEW u \in Udn, SubsOK(u)',
           \A v \in Udn \ {u} : Same(v) /\ subs'[v] = subs[v]
    PROVE  SubsInv'
<1>1. ASSUME NEW v \in Udn, v # u PROVE SubsOK(v)'
  <2>1. SubsOK(v) /\ Same(v) /\ subs'[v] = subs[v]
      BY <1>1 DEF SubsInv
  <2> QED
      BY <2>1 DEF SubsOK, Same, Due
<1> QED
    BY <1>1 DEF SubsInv

\* The end of a task, and the queue it leaves.
LEMMA CompletedQueue ==
    ASSUME IInv, NEW u \in server_uc_map, TaskCompleted(u)
    PROVE  /\ ~chain'[u].pending
           /\ chain[u].tasks =
                  <<"get_protocol_info", "subscribe", "declare">> => ~Due(u)'
           /\ Head(chain[u].tasks) = "declare" => Due(u)
           /\ Head(chain[u].tasks) = "get_protocol_info" =>
                  chain[u].tasks =
                      <<"get_protocol_info", "subscribe", "declare">>
<1> DEFINE gsd == <<"get_protocol_info", "subscribe", "declare">>
           sd == <<"subscribe", "declare">>
<1>1. TypeOK /\ u \in Udn /\ DeviceOK(u)
    BY DEF IInv, TypeOK
<1>2. chain \in [Udn -> Chain] /\ chain[u] \in Chain
    BY <1>1 DEF TypeOK
<1>3. chain[u].tasks \in ChainShapes /\ u \notin server_udn_map
    BY <1>1 DEF DeviceOK
<1>4. ~chain'[u].pending
    BY <1>1, <1>2 DEF TaskCompleted, NoChain, Chain
<1>5. ASSUME chain[u].tasks = gsd
      PROVE  ~Due(u)'
  <2>1. Len(chain[u].tasks) # 1 /\ Tail(chain[u].tasks) = sd
      BY <1>5
  <2>2. /\ chain'[u].tasks = sd /\ server_udn_map' = server_udn_map
      BY <1>1, <1>2, <2>1 DEF TaskCompleted, Chain
  <2>3. sd # <<"declare">>
      OBVIOUS
  <2> QED
      BY <1>3, <2>2, <2>3 DEF Due
<1>6. ASSUME chain[u].tasks \in ChainShapes
      PROVE  /\ Head(chain[u].tasks) = "declare" =>
                    chain[u].tasks = <<"declare">>
             /\ Head(chain[u].tasks) = "get_protocol_info" =>
                    chain[u].tasks = gsd
    BY <1>6 DEF ChainShapes
<1> QED
    BY <1>3, <1>4, <1>5, <1>6 DEF Due

\* A task that ends keeps the invariant if it leaves the records in order
\* and, if it was the subscription or came after it, the device subscribed.
LEMMA TaskSubs ==
    ASSUME IInv, SubsInv, NEW u \in server_uc_map, TaskCompleted(u),
           UNCHANGED <<visible, contexts, timeout_id>>,
           \A v \in Udn \ {u} : ids'[v] = ids[v] /\ subs'[v] = subs[v],
           \A ip \in Ip : ContextOK(contexts[u], ip, subs'[u][ip]),
           Telling # {} /\ Due(u)' =>
               timeout_id[u] \/ SubscribedTo(contexts[u], subs'[u])
    PROVE  SubsInv'
<1>1. u \in Udn
    BY DEF IInv, TypeOK
<1>2. SubsOK(u)'
    BY CompletedQueue DEF SubsOK
<1>3. \A v \in Udn \ {u} : Same(v)
    BY TaskCompletedOK DEF Same
<1> QED
    BY <1>1, <1>2, <1>3, SubsOnOne

LEMMA GetProtocolInfoSubs ==
    ASSUME IInv, SubsInv, NEW u \in Udn, GetProtocolInfo(u)
    PROVE  SubsInv'
<1>1. /\ u \in server_uc_map /\ TypeOK /\ DeviceOK(u) /\ SubsOK(u)
      /\ Head(chain[u].tasks) = "get_protocol_info"
      /\ \A ip \in Ip : ContextOK(contexts[u], ip, subs[u][ip])
      /\ UNCHANGED <<visible, contexts, subs, ids, timeout_id>>
    BY DeviceFacts DEF GetProtocolInfo, NextTask
<1>2. CASE "cm" \notin Service
  <2>1. TaskCompleted(u)
      BY <1>2 DEF GetProtocolInfo
  <2>2. ~Due(u)'
      BY <1>1, <2>1, CompletedQueue
  <2> QED
      BY <1>1, <2>1, <2>2, TaskSubs
<1>3. CASE "cm" \in Service
  <2>1. /\ chain' = [chain EXCEPT ![u].pending = TRUE]
        /\ server_udn_map' = server_udn_map /\ server_uc_map' = server_uc_map
      BY <1>3 DEF GetProtocolInfo
  <2>2. /\ chain'[u].tasks = chain[u].tasks
        /\ \A v \in Udn \ {u} : chain'[v] = chain[v]
      BY <1>1, <2>1 DEF TypeOK, Chain
  <2>3. chain[u].tasks = <<"get_protocol_info", "subscribe", "declare">>
      BY <1>1 DEF DeviceOK, ChainShapes
  <2>4. SubsOK(u)'
      BY <1>1, <2>1, <2>2, <2>3 DEF SubsOK, Due
  <2> QED
      BY <1>1, <2>1, <2>2, <2>4, SubsOnOne DEF Same
<1> QED
    BY <1>2, <1>3

LEMMA GetProtocolInfoDoneSubs ==
    ASSUME IInv, SubsInv, NEW u \in Udn, GetProtocolInfoDone(u)
    PROVE  SubsInv'
<1>1. /\ u \in server_uc_map /\ chain[u].pending /\ TaskCompleted(u)
      /\ UNCHANGED <<visible, contexts, subs, ids, timeout_id>>
    BY DEF GetProtocolInfoDone
<1>2. chain[u].tasks = <<"get_protocol_info", "subscribe", "declare">>
    BY <1>1, DeviceFacts DEF SubsOK
<1>3. ~Due(u)'
    BY <1>1, <1>2, CompletedQueue
<1>4. \A ip \in Ip : ContextOK(contexts[u], ip, subs[u][ip])
    BY DeviceFacts
<1> QED
    BY <1>1, <1>3, <1>4, TaskSubs

LEMMA SubscribeSubs ==
    ASSUME IInv, SubsInv, NEW u \in Udn, Subscribe(u)
    PROVE  SubsInv'
<1>1. /\ u \in server_uc_map /\ TaskCompleted(u)
      /\ UNCHANGED <<visible, contexts, ids, timeout_id>>
      /\ subs' = [subs EXCEPT ![u] = SubscribeContext(contexts[u], @)]
    BY DEF Subscribe, NextTask
<1>2. /\ contexts[u] \in Seq(Ip) /\ contexts[u] # <<>> /\ TypeOK
    BY <1>1, DeviceFacts DEF Known
<1>3. /\ subs'[u] = SubscribeContext(contexts[u], subs[u])
      /\ \A v \in Udn \ {u} : subs'[v] = subs[v]
    BY <1>1, <1>2 DEF TypeOK
<1>4. /\ \A ip \in Ip : ContextOK(contexts[u], ip, subs'[u][ip])
      /\ SubscribedTo(contexts[u], subs'[u])
    BY <1>2, <1>3, SubscribeDevice
<1> QED
    BY <1>1, <1>3, <1>4, TaskSubs

LEMMA DeclareSubs ==
    ASSUME IInv, SubsInv, NEW u \in Udn, Declare(u)
    PROVE  SubsInv'
<1>1. /\ u \in server_uc_map /\ TaskCompleted(u)
      /\ Head(chain[u].tasks) = "declare"
      /\ UNCHANGED <<visible, contexts, subs, timeout_id>>
      /\ ids' = [ids EXCEPT ![u] = TRUE]
    BY DEF Declare, NextTask
<1>2. /\ TypeOK /\ SubsOK(u)
      /\ \A ip \in Ip : ContextOK(contexts[u], ip, subs[u][ip])
    BY DeviceFacts
<1>3. Due(u)
    BY <1>1, CompletedQueue
<1>4. Telling # {} => timeout_id[u] \/ SubscribedTo(contexts[u], subs[u])
    BY <1>2, <1>3 DEF SubsOK
<1>5. \A v \in Udn \ {u} : ids'[v] = ids[v]
    BY <1>1, <1>2 DEF TypeOK
<1> QED
    BY <1>1, <1>2, <1>4, <1>5, TaskSubs

\* A deleted device has fresh records.
LEMMA DeletedSubs ==
    ASSUME IInv, SubsInv, NEW u \in Udn, DeleteDevice(u),
           \A v \in Udn \ {u} : visible'[v] = visible[v],
           server_udn_map' = server_udn_map \ {u},
           server_uc_map' = server_uc_map \ {u},
           chain' = [chain EXCEPT ![u] = NoChain]
    PROVE  SubsInv'
<1>1. TypeOK
    BY DEF IInv
<1>2. /\ subs'[u] = NoSubscriptions /\ ~Due(u)' /\ ~chain'[u].pending
    BY <1>1 DEF DeleteDevice, TypeOK, Due, NoChain
<1>3. ASSUME NEW ip \in Ip
      PROVE  ContextOK(contexts'[u], ip, subs'[u][ip])
  <2>1. subs'[u][ip] = Fresh
      BY <1>2 DEF NoSubscriptions
  <2> QED
      BY <2>1, FreshQuiet, QuietOK
<1>4. SubsOK(u)'
    BY <1>2, <1>3 DEF SubsOK
<1>5. \A v \in Udn \ {u} : Same(v) /\ subs'[v] = subs[v]
    BY <1>1 DEF Same, DeleteDevice, TypeOK
<1> QED
    BY <1>4, <1>5, SubsOnOne

LEMMA DeclareFailsSubs ==
    ASSUME IInv, SubsInv, NEW u \in Udn, DeclareFails(u)
    PROVE  SubsInv'
<1>1. u \in server_uc_map /\ u \notin server_udn_map
    BY DeviceFacts DEF DeclareFails, NextTask, DeviceOK
<1> QED
    BY <1>1, DeletedSubs DEF DeclareFails, ChainCancelled

LEMMA SubscribeTimeoutSubs ==
    ASSUME IInv, SubsInv, NEW u \in Udn, SubscribeTimeout(u)
    PROVE  SubsInv'
<1>1. /\ timeout_id[u] /\ TypeOK /\ DeviceOK(u) /\ SubsOK(u)
      /\ contexts[u] \in Seq(Ip)
    BY DeviceFacts DEF SubscribeTimeout
<1>2. contexts[u] # <<>>
    BY <1>1 DEF DeviceOK
<1>3. PICK S \in SubscriptionMap : S = subs[u]
    BY DeviceFacts
<1>4. \A ip \in Ip : /\ ip \notin Range(contexts[u]) => S[ip] = Fresh
                     /\ ip # Preferred(contexts[u]) => Quiet(S[ip])
    BY <1>3, DeviceFacts DEF ContextOK, PlacedOK, Quiet
<1>5. PICK q \in Seq(Ip) : q = contexts[u]
    BY <1>1
<1>6. /\ \A ip \in Ip : ContextOK(q, ip, SubscribePreferred(q, S)[ip])
      /\ SubscribedTo(q, SubscribePreferred(q, S))
    BY <1>2, <1>4, <1>5, SubscribePreferredOK
<1>7. /\ contexts'[u] = q /\ subs'[u] = SubscribePreferred(q, S)
      /\ \A v \in Udn \ {u} : Same(v) /\ subs'[v] = subs[v]
    BY <1>1, <1>3, <1>5 DEF SubscribeTimeout, TypeOK, Same
<1>8. SubsOK(u)'
    BY <1>1, <1>6, <1>7 DEF SubsOK, SubscribeTimeout
<1> QED
    BY <1>7, <1>8, SubsOnOne

\* An event on the proxies of one context, which takes no kept subscription.
LEMMA OneContextSubs ==
    ASSUME IInv, SubsInv, NEW u \in Udn, NEW ip \in Ip,
           NEW d \in [Service -> Subscription],
           subs' = [subs EXCEPT ![u][ip] = d],
           UNCHANGED <<visible, server_udn_map, server_uc_map, chain, contexts,
                       construct_step, ids, timeout_id>>,
           ContextOK(contexts[u], ip, d),
           \A s \in Service \ LossyService : subs[u][ip][s].live => d[s].live,
           \A s \in Telling : subs[u][ip][s].flag => d[s].flag
    PROVE  SubsInv'
<1>1. TypeOK /\ SubsOK(u)
    BY DeviceFacts
<1>2. /\ subs'[u][ip] = d
      /\ \A i \in Ip \ {ip} : subs'[u][i] = subs[u][i]
      /\ \A v \in Udn \ {u} : subs'[v] = subs[v]
    BY <1>1 DEF TypeOK
<1>3. \A i \in Ip : ContextOK(contexts[u], i, subs'[u][i])
    BY <1>2, DeviceFacts
<1>4. ASSUME Telling # {}, Due(u)
      PROVE  timeout_id[u] \/ SubscribedTo(contexts[u], subs'[u])
  <2>1. CASE timeout_id[u]
      BY <2>1
  <2>2. CASE SubscribedTo(contexts[u], subs[u])
    <3>1. PICK p \in Ip : p = Preferred(contexts[u])
      <4>1. u \in Known
          BY <1>4 DEF Due, Known
      <4> QED
          BY <4>1, DeviceFacts, PreferredInRange
    <3>2. CASE p = ip
        BY <1>2, <2>2, <3>1, <3>2 DEF SubscribedTo
    <3>3. CASE p # ip
        BY <1>2, <2>2, <3>1, <3>3 DEF SubscribedTo
    <3> QED
        BY <3>2, <3>3
  <2> QED
      BY <1>1, <1>4, <2>1, <2>2 DEF SubsOK
<1>5. SubsOK(u)'
    BY <1>1, <1>3, <1>4 DEF SubsOK, Due
<1>6. \A v \in Udn \ {u} : Same(v)
    BY DEF Same
<1> QED
    BY <1>2, <1>5, <1>6, SubsOnOne

LEMMA SubscriptionLostSubs ==
    ASSUME IInv, SubsInv, NEW u \in Udn, NEW ip \in Ip, NEW s \in Service,
           SubscriptionLost(u, ip, s)
    PROVE  SubsInv'
<1>1. /\ s \in LossyService /\ ip \in Range(contexts[u])
      /\ subs' = [subs EXCEPT ![u][ip] = LoseSubscription(@, s)]
      /\ UNCHANGED <<visible, server_udn_map, server_uc_map, chain, contexts,
                     construct_step, ids, timeout_id>>
    BY DEF SubscriptionLost
<1>2. PICK c \in [Service -> Subscription] :
          c = subs[u][ip] /\ ContextOK(contexts[u], ip, c)
    BY DeviceFacts DEF SubscriptionMap
<1>3. PICK d \in [Service -> Subscription] : d = LoseSubscription(c, s)
    BY LoseSubscriptionType
<1>4. subs' = [subs EXCEPT ![u][ip] = d]
    BY <1>1, <1>2, <1>3
<1>5. /\ ContextOK(contexts[u], ip, d)
      /\ \A k \in Service \ LossyService : c[k].live => d[k].live
      /\ \A k \in Telling : c[k].flag => d[k].flag
    BY <1>1, <1>2, <1>3, LoseOK
<1> QED
    BY <1>1, <1>2, <1>4, <1>5, OneContextSubs

LEMMA RetryTimeoutSubs ==
    ASSUME IInv, SubsInv, NEW u \in Udn, NEW ip \in Ip, NEW s \in Service,
           RetryTimeout(u, ip, s)
    PROVE  SubsInv'
<1>1. /\ subs[u][ip][s].retry
      /\ subs' = [subs EXCEPT ![u][ip] = ReEnable(@, s)]
      /\ UNCHANGED <<visible, server_udn_map, server_uc_map, chain, contexts,
                     construct_step, ids, timeout_id>>
    BY DEF RetryTimeout
<1>2. PICK c \in [Service -> Subscription] :
          c = subs[u][ip] /\ ContextOK(contexts[u], ip, c)
    BY DeviceFacts DEF SubscriptionMap
<1>3. ip \in Range(contexts[u])
  <2>1. ~Fresh[s].retry
      BY DEF Fresh
  <2> QED
      BY <1>1, <1>2, <2>1 DEF ContextOK, PlacedOK
<1>4. PICK d \in [Service -> Subscription] : d = ReEnable(c, s)
    BY ReEnableType
<1>5. subs' = [subs EXCEPT ![u][ip] = d]
    BY <1>1, <1>2, <1>4
<1>6. /\ ContextOK(contexts[u], ip, d)
      /\ \A k \in Service : /\ c[k].live => d[k].live
                            /\ c[k].flag => d[k].flag
    BY <1>2, <1>3, <1>4, ReEnableOK
<1> QED
    BY <1>1, <1>2, <1>5, <1>6, OneContextSubs DEF Telling

\* A report that is not about a context of u, or repeats one.
LEMMA IgnoredSubs ==
    ASSUME SubsInv, NEW u \in Udn,
           UNCHANGED <<server_udn_map, server_uc_map, chain, contexts, subs,
                       construct_step, ids, timeout_id>>
    PROVE  SubsInv'
BY DEF SubsInv, SubsOK, Due

\* dlr_device_construct always has the subscription task to do.
LEMMA StartedEarly ==
    ASSUME NEW ip, NEW n
    PROVE  /\ StartChain(ip, n).tasks # <<"declare">>
           /\ ~StartChain(ip, n).pending
<1>1. /\ Len(<<"get_protocol_info", "subscribe", "declare">>) = 3
      /\ Len(<<"subscribe", "declare">>) = 2
      /\ Len(<<"declare">>) = 1
      /\ Head(<<"subscribe">>) # Head(<<"declare">>)
      /\ 3 # 1 /\ 2 # 1
    OBVIOUS
<1>2. TasksFrom(n) # <<"declare">>
    BY <1>1, Zenon DEF TasksFrom
<1> QED
    BY <1>2 DEF StartChain

LEMMA ServerAvailableSubs ==
    ASSUME IInv, SubsInv, NEW u \in Udn, NEW ip \in Ip, ServerAvailable(u, ip)
    PROVE  SubsInv'
<1>1. TypeOK /\ DeviceOK(u) /\ SubsOK(u) /\ contexts[u] \in Seq(Ip)
    BY DeviceFacts
<1>2. \A v \in Udn \ {u} : visible'[v] = visible[v]
    BY <1>1 DEF ServerAvailable, TypeOK
<1>3. CASE u \notin Known
  <2>1. NewDevice(u, ip)
      BY <1>3 DEF ServerAvailable
  <2>2. /\ contexts'[u] = <<ip>> /\ subs'[u] = subs[u]
        /\ u \notin server_udn_map' /\ ~chain'[u].pending
        /\ chain'[u].tasks # <<"declare">>
    <3>1. chain'[u] = StartChain(ip, construct_step[u])
        BY <1>1, <2>1 DEF NewDevice, TypeOK
    <3> QED
        BY <1>1, <1>3, <2>1, <3>1, StartedEarly DEF NewDevice, TypeOK, Known
  <2>3. ASSUME NEW i \in Ip
        PROVE  ContextOK(contexts'[u], i, subs'[u][i])
    <3>1. Range(contexts[u]) = {}
      <4>1. contexts[u] = <<>>
          BY <1>1, <1>3 DEF DeviceOK
      <4> QED
          BY <4>1 DEF Range
    <3>2. subs[u][i] = Fresh
        BY <1>1, <3>1 DEF SubsOK, ContextOK, PlacedOK
    <3> QED
        BY <2>2, <3>2, FreshQuiet, QuietOK
  <2>4. SubsOK(u)'
      BY <2>2, <2>3 DEF SubsOK, Due
  <2>5. \A v \in Udn \ {u} : Same(v) /\ subs'[v] = subs[v]
      BY <1>1, <1>2, <2>1 DEF NewDevice, TypeOK, Same
  <2> QED
      BY <2>4, <2>5, SubsOnOne
<1>4. CASE u \in Known /\ ip \notin Range(contexts[u])
  <2>1. AppendContext(u, ip)
      BY <1>4 DEF ServerAvailable
  <2>2. PICK q \in Seq(Ip) : q = Append(contexts[u], ip)
    <3>1. Append(contexts[u], ip) \in Seq(Ip)
        BY <1>1, AppendProperties
    <3> QED
        BY <3>1
  <2>3. /\ contexts'[u] = q
        /\ subs'[u] = SubscribeContext(q, subs[u])
        /\ \A v \in Udn \ {u} : Same(v) /\ subs'[v] = subs[v]
      BY <1>1, <1>2, <2>1, <2>2 DEF AppendContext, TypeOK, Same
  <2>4. Range(contexts[u]) \subseteq Range(q) /\ q # <<>>
    <3>1. /\ DOMAIN contexts[u] \subseteq DOMAIN q /\ q # <<>>
          /\ \A i \in DOMAIN contexts[u] : q[i] = contexts[u][i]
        BY <1>1, <2>2, AppendProperties, LenProperties
    <3> QED
        BY <3>1 DEF Range
  <2>5. /\ \A i \in Ip : ContextOK(q, i, SubscribeContext(q, subs[u])[i])
        /\ SubscribedTo(q, SubscribeContext(q, subs[u]))
      BY <2>4, SubscribeDevice
  <2>6. SubsOK(u)'
      BY <1>1, <2>1, <2>3, <2>5 DEF SubsOK, AppendContext
  <2> QED
      BY <2>3, <2>6, SubsOnOne
<1>5. CASE u \in Known /\ ip \in Range(contexts[u])
    BY <1>5, IgnoredSubs DEF ServerAvailable
<1> QED
    BY <1>3, <1>4, <1>5

\* A context is removed and others are left: the subscription was elsewhere,
\* or the timer is armed, or the device is back before its subscription task.
LEMMA ContextRemovedSubs ==
    ASSUME IInv, SubsInv, NEW u \in Known, NEW ip \in Range(contexts[u]),
           RemoveContext(u, ip),
           UNCHANGED <<server_udn_map, server_uc_map, ids>>,
           \A v \in Udn \ {u} : /\ visible'[v] = visible[v]
                                /\ chain'[v] = chain[v]
                                /\ timeout_id'[v] = timeout_id[v],
           chain'[u].pending => chain'[u] = chain[u],
           Due(u)' => /\ Due(u)
                      /\ timeout_id[u] \/ LooksSubscribed(u, ip) =>
                             timeout_id'[u]
    PROVE  SubsInv'
<1>1. u \in Udn /\ TypeOK /\ DeviceOK(u) /\ SubsOK(u)
    BY DeviceFacts DEF IInv, TypeOK, Known
<1>2. PICK q \in Seq(Ip) : q = contexts[u] /\ IsInjective(q)
    BY <1>1 DEF TypeOK, DeviceOK
<1>3. PICK i \in DOMAIN q : q[i] = ip /\ Without(u, ip) = RemoveAt(q, i)
  <2> DEFINE i == CHOOSE k \in DOMAIN q : q[k] = ip
  <2>1. i \in DOMAIN q /\ q[i] = ip
      BY <1>2 DEF Range
  <2>2. Without(u, ip) = RemoveAt(q, i)
      BY <1>2 DEF Without
  <2> QED
      BY <2>1, <2>2
<1>4. PICK r : r = RemoveAt(q, i)
    OBVIOUS
<1>5. /\ Range(r) = Range(q) \ {ip}
      /\ Preferred(q) # ip => Preferred(r) = Preferred(q)
    BY <1>2, <1>3, <1>4, RemoveOne, PreferredKept
<1>6. ip \in Ip
    BY <1>1 DEF TypeOK, Range
<1>7. /\ contexts'[u] = r /\ subs'[u][ip] = Fresh
      /\ \A j \in Ip \ {ip} : subs'[u][j] = subs[u][j]
      /\ \A v \in Udn \ {u} : /\ contexts'[v] = contexts[v]
                              /\ subs'[v] = subs[v]
    BY <1>1, <1>3, <1>4, <1>6 DEF RemoveContext, TypeOK
<1>8. ASSUME NEW j \in Ip
      PROVE  ContextOK(r, j, subs'[u][j])
  <2>1. CASE j = ip
      BY <1>7, <2>1, FreshQuiet, QuietOK
  <2>2. CASE j # ip
    <3>1. /\ subs'[u][j] = subs[u][j]
          /\ ContextOK(q, j, subs[u][j])
        BY <1>1, <1>2, <1>7, <2>2 DEF SubsOK
    <3>2. PlacedOK(r, j, subs[u][j])
        BY <1>5, <2>2, <3>1 DEF ContextOK, PlacedOK
    <3> QED
        BY <3>1, <3>2 DEF ContextOK
  <2> QED
      BY <2>1, <2>2
<1>9. ASSUME Telling # {}, Due(u)'
      PROVE  timeout_id'[u] \/ SubscribedTo(r, subs'[u])
  <2>1. CASE timeout_id[u]
      BY <1>9, <2>1
  <2>2. CASE SubscribedTo(q, subs[u]) /\ Preferred(q) = ip
    <3>1. LooksSubscribed(u, ip)
        BY <1>9, <2>2 DEF LooksSubscribed, SubscribedTo, Telling
    <3> QED
        BY <1>9, <3>1
  <2>3. CASE SubscribedTo(q, subs[u]) /\ Preferred(q) # ip
    <3>1. PICK p \in Ip : p = Preferred(q)
        BY <1>1, <1>2, PreferredInRange DEF DeviceOK
    <3>2. p = Preferred(r) /\ subs'[u][p] = subs[u][p]
        BY <1>5, <1>7, <2>3, <3>1
    <3> QED
        BY <2>3, <3>1, <3>2 DEF SubscribedTo
  <2> QED
      BY <1>1, <1>2, <1>9, <2>1, <2>2, <2>3 DEF SubsOK
<1>10. SubsOK(u)'
    BY <1>1, <1>7, <1>8, <1>9 DEF SubsOK
<1>11. \A v \in Udn \ {u} : Same(v)
    BY <1>7 DEF Same
<1> QED
    BY <1>1, <1>7, <1>10, <1>11, SubsOnOne

LEMMA ServerUnavailableSubs ==
    ASSUME IInv, SubsInv, NEW u \in Udn, NEW ip \in Ip,
           ServerUnavailable(u, ip)
    PROVE  SubsInv'
<1>1. TypeOK /\ DeviceOK(u) /\ SubsOK(u)
    BY DeviceFacts
<1>2. \A v \in Udn \ {u} : visible'[v] = visible[v]
    BY <1>1 DEF ServerUnavailable, TypeOK
<1>3. CASE u \notin Known \/ ip \notin Range(contexts[u])
    BY <1>3, IgnoredSubs DEF ServerUnavailable
<1>4. CASE u \in Known /\ ip \in Range(contexts[u]) /\ Len(contexts[u]) = 1
  <2>1. CASE u \in server_udn_map
    <3>1. LastContextLost(u)
        BY <1>4, <2>1 DEF ServerUnavailable
    <3>2. /\ server_uc_map' = server_uc_map \ {u}
          /\ chain' = [chain EXCEPT ![u] = NoChain]
        BY <1>1, <2>1, <3>1 DEF DeviceOK, LastContextLost, TypeOK
    <3> QED
        BY <1>2, <3>1, <3>2, DeletedSubs DEF LastContextLost
  <2>2. CASE u \notin server_udn_map
    <3>1. ChainCancelled(u)
        BY <1>4, <2>2 DEF ServerUnavailable
    <3>2. server_udn_map' = server_udn_map \ {u}
        BY <2>2, <3>1 DEF ChainCancelled
    <3> QED
        BY <1>2, <3>1, <3>2, DeletedSubs DEF ChainCancelled
  <2> QED
      BY <2>1, <2>2
<1>5. CASE u \in Known /\ ip \in Range(contexts[u]) /\ Len(contexts[u]) # 1
  <2>1. CASE u \notin server_udn_map /\ ip = chain[u].ip
    <3>1. SwitchConstruction(u, ip)
        BY <1>5, <2>1 DEF ServerUnavailable
    <3>2. PICK to : chain' = [chain EXCEPT ![u] =
                                 StartChain(to, construct_step[u])]
        BY <3>1 DEF SwitchConstruction
    <3>3. /\ ~chain'[u].pending /\ chain'[u].tasks # <<"declare">>
          /\ \A v \in Udn \ {u} : chain'[v] = chain[v]
        BY <1>1, <3>2, StartedEarly DEF TypeOK
    <3>4. ~Due(u)'
        BY <2>1, <3>1, <3>3 DEF SwitchConstruction, Due
    <3> QED
        BY <1>2, <1>5, <3>1, <3>3, <3>4, ContextRemovedSubs
        DEF SwitchConstruction
  <2>2. CASE ~(u \notin server_udn_map /\ ip = chain[u].ip)
    <3>1. ContextLost(u, ip)
        BY <1>5, <2>2 DEF ServerUnavailable
    <3>2. /\ timeout_id[u] \/ LooksSubscribed(u, ip) => timeout_id'[u]
          /\ \A v \in Udn \ {u} : timeout_id'[v] = timeout_id[v]
        BY <1>1, <3>1 DEF ContextLost, TypeOK
    <3>3. Due(u)' => Due(u)
        BY <3>1 DEF ContextLost, Due
    <3> QED
        BY <1>2, <1>5, <3>1, <3>2, <3>3, ContextRemovedSubs DEF ContextLost
  <2> QED
      BY <2>1, <2>2
<1> QED
    BY <1>3, <1>4, <1>5

-----------------------------------------------------------------------------
LEMMA InitSubs == Init => SubsInv
<1> SUFFICES ASSUME Init, NEW u \in Udn
             PROVE  SubsOK(u)
    BY DEF SubsInv
<1>1. \A ip \in Ip : subs[u][ip] = Fresh
    BY DEF Init, NoSubscriptions
<1>2. \A ip \in Ip : ContextOK(contexts[u], ip, subs[u][ip])
    BY <1>1, FreshQuiet, QuietOK
<1> QED
    BY <1>2 DEF Init, SubsOK, Due, NoChain

LEMMA NextSubs == IInv /\ SubsInv /\ [Next]_vars => SubsInv'
<1> SUFFICES ASSUME IInv, SubsInv, [Next]_vars PROVE SubsInv'
    OBVIOUS
<1>1. CASE UNCHANGED vars
    BY <1>1 DEF vars, SubsInv, SubsOK, Due
<1>2. CASE Next
  <2>1. PICK u \in Udn :
           \/ GetProtocolInfo(u) \/ GetProtocolInfoDone(u)
           \/ Subscribe(u) \/ Declare(u) \/ DeclareFails(u)
           \/ SubscribeTimeout(u)
           \/ \E ip \in Ip :
                 \/ ServerAvailable(u, ip) \/ ServerUnavailable(u, ip)
                 \/ \E s \in Service :
                       SubscriptionLost(u, ip, s) \/ RetryTimeout(u, ip, s)
      BY <1>2 DEF Next
  <2> QED
      BY <2>1, GetProtocolInfoSubs, GetProtocolInfoDoneSubs, SubscribeSubs,
         DeclareSubs, DeclareFailsSubs, SubscribeTimeoutSubs,
         ServerAvailableSubs, ServerUnavailableSubs, SubscriptionLostSubs,
         RetryTimeoutSubs
<1> QED
    BY <1>1, <1>2

\* The account of the subscriptions holds of every reachable state, whatever
\* subscriptions the network drops.
THEOREM SubscriptionsInvariant == Spec => []SubsInv
BY InductiveInvariant, InitSubs, NextSubs, PTL DEF Spec

\* No context but the preferred one ever looks subscribed, through any
\* switches, losses, retries and timers.
THEOREM OneContextSubscribed == Spec => []OnlyPreferredSubscribed
<1>1. SubsInv /\ IInv => OnlyPreferredSubscribed
    BY DEF SubsInv, SubsOK, ContextOK, PlacedOK, OnlyPreferredSubscribed,
           IInv, TypeOK, Known
<1> QED
    BY <1>1, SubscriptionsInvariant, InductiveInvariant, PTL

\* A service that looks subscribed has a callback for its events, however
\* often its subscription was lost and given up.
THEOREM FlagsHaveCallbacks == Spec => []FlagMeansNotified
<1>1. SubsInv /\ IInv => FlagMeansNotified
    BY DEF SubsInv, SubsOK, ContextOK, RecordOK, FlagMeansNotified,
           IInv, TypeOK, Known
<1> QED
    BY <1>1, SubscriptionsInvariant, InductiveInvariant, PTL

\* As long as the subscription to RenderingControl, whose loss device.c does
\* not notice, is kept, a service that looks subscribed is.
THEOREM FlagsAreLive ==
    ASSUME "rc" \notin LossyService
    PROVE  Spec => []FlagMeansLive
<1>1. SubsInv /\ IInv => FlagMeansLive
    BY DEF SubsInv, SubsOK, ContextOK, RecordOK, FlagMeansLive,
           IInv, TypeOK, Known
<1> QED
    BY <1>1, SubscriptionsInvariant, InductiveInvariant, PTL

\* No switch of context forgets a subscription, as long as the network keeps
\* that to AVTransport or that to ConnectionManager, of which one tells
\* prv_server_unavailable_cb that a lost context was subscribed to.
THEOREM SubscriptionsMove ==
    ASSUME Telling # {}
    PROVE  Spec => []SubscribedOrTimerArmed
<1>1. SubsInv /\ IInv => SubscribedOrTimerArmed
    BY DEF SubsInv, SubsOK, SubscribedTo, SubscribedOrTimerArmed, Due,
           IInv, TypeOK
<1> QED
    BY <1>1, SubscriptionsInvariant, InductiveInvariant, PTL
=============================================================================
