--------------------------- MODULE DeviceContexts ---------------------------
(***************************************************************************)
(* The contexts of one renderer: src/libdleyna/renderer/device.c.          *)
(*                                                                         *)
(* A renderer may be reachable through several network contexts.           *)
(* `device->contexts' is an ordered array; dlr_device_get_context chooses  *)
(* the preferred one, and only that one is meant to be subscribed to the   *)
(* services of the renderer.  A context is named by its address, and its   *)
(* subscription state is one record for each service it offers:            *)
(*                                                                         *)
(*   flag     context->subscribed_av/cm/rc                                 *)
(*   live     the service proxy is subscribed (GUPnP's own flag)           *)
(*   notify   notify callbacks registered on the proxy                     *)
(*   handlers "subscription-lost" handlers connected for this service      *)
(*   retry    context->timeout_id_av/cm/rc is armed                        *)
(*                                                                         *)
(* The module holds operators only; Discovery applies them.                *)
(***************************************************************************)
EXTENDS Integers, Sequences, SequencesExt

CONSTANTS
    Ip,         \* the addresses of the network contexts
    Loopback,   \* those of them that are loopback addresses
    Service     \* the services the renderers offer: av, cm and rc

ASSUME ContextsAssumption ==
    /\ Loopback \subseteq Ip
    /\ Service \subseteq {"av", "cm", "rc"}

Subscription ==
    [flag : BOOLEAN, live : BOOLEAN, notify : Nat, handlers : Nat,
     retry : BOOLEAN]

\* prv_context_new: a context starts unsubscribed, on new proxies.
Fresh ==
    [s \in Service |-> [flag |-> FALSE, live |-> FALSE, notify |-> 0,
                        handlers |-> 0, retry |-> FALSE]]

-----------------------------------------------------------------------------
(***************************************************************************)
(* Choosing a context.                                                     *)
(***************************************************************************)

\* The first element of q that lies in X.
FirstOf(q, X) ==
    q[CHOOSE i \in DOMAIN q :
        q[i] \in X /\ \A j \in DOMAIN q : q[j] \in X => i <= j]

\* dlr_device_get_context: the first loopback context, else the first one.
Preferred(q) ==
    IF Range(q) \cap Loopback # {} THEN FirstOf(q, Loopback) ELSE q[1]

\* The contexts that look subscribed to prv_device_get_subscribed_context.
Flagged(S) == {ip \in Ip : \E s \in Service : S[ip][s].flag}

-----------------------------------------------------------------------------
(***************************************************************************)
(* Subscribing and unsubscribing one context (c is its record).            *)
(***************************************************************************)

Decrement(n) == IF n = 0 THEN 0 ELSE n - 1

\* dlr_device_subscribe_to_service_changes, once the context is chosen.
SubscribeServices(c) ==
    [s \in Service |->
        [c[s] EXCEPT !.flag = TRUE, !.live = TRUE,
                     !.notify = @ + 1, !.handlers = @ + 1]]

\* Variant of UnsubscribeServices: it does not look at the flags.
UnsubscribeServices_Always(c) ==
    [s \in Service |->
        [c[s] EXCEPT !.flag = FALSE, !.live = FALSE, !.retry = FALSE,
                     !.notify = @ - 1]]

\* prv_context_unsubscribe: the handlers stay connected.
UnsubscribeServices(c) ==
    [s \in Service |->
        IF c[s].flag
        THEN [c[s] EXCEPT !.flag = FALSE, !.live = FALSE, !.retry = FALSE,
                          !.notify = Decrement(@)]
        ELSE [c[s] EXCEPT !.retry = FALSE]]

\* dlr_device_subscribe_to_service_changes: on the preferred context.
SubscribePreferred(q, S) ==
    [S EXCEPT ![Preferred(q)] = SubscribeServices(@)]

\* Variant of SubscribeContext: the old subscription is left in place.
SubscribeContext_NoSwitch(q, S) ==
    IF Preferred(q) \in Flagged(S) THEN S ELSE SubscribePreferred(q, S)

\* prv_device_subscribe_context: move the subscription to the preferred
\* context, unless it is there already.
SubscribeContext(q, S) ==
    LET on == Flagged(S) \cap Range(q)
    IN  IF on = {} THEN SubscribePreferred(q, S)
        ELSE LET old == FirstOf(q, on)
             IN  IF old = Preferred(q) THEN S
                 ELSE SubscribePreferred(q,
                          [S EXCEPT ![old] = UnsubscribeServices(@)])

-----------------------------------------------------------------------------
(***************************************************************************)
(* Losing a subscription.  GUPnP clears its flag and emits                 *)
(* "subscription-lost" on the proxy; every handler connected to that proxy *)
(* runs.  A handler that finds no timer armed subscribes again and arms    *)
(* one; a handler that finds it armed gives the subscription up.  A second *)
(* handler of the same signal thus gives up what the first has just        *)
(* renewed.  The handlers of rc are connected to the proxy of av.          *)
(***************************************************************************)

\* Variant of HandledOn: the loss of cm is not handled.
HandledOn_NoCm(p) == IF p = "av" THEN {"av", "rc"} ELSE {}

\* The services whose lost-handlers are connected to the proxy of service p.
HandledOn(p) ==
    CASE p = "cm" -> {"cm"}
      [] p = "av" -> {"av", "rc"}
      [] OTHER    -> {}

\* Variant of RunHandlers: giving up does not clear the flag.
RunHandlers_KeepFlag(r, n) ==
    LET armed   == IF r.retry THEN 1 ELSE 0
        giveUps == (n + armed) \div 2
    IN  [r EXCEPT
           !.live   = @ \/ n > armed,
           !.notify = IF @ > giveUps THEN @ - giveUps ELSE 0,
           !.retry  = (n + armed) % 2 = 1]

\* n handlers in a row on the record r: every second one, beginning with the
\* first that finds the timer armed, gives up.
RunHandlers(r, n) ==
    LET armed   == IF r.retry THEN 1 ELSE 0
        giveUps == (n + armed) \div 2
    IN  [r EXCEPT
           !.live   = @ \/ n > armed,
           !.flag   = @ /\ giveUps = 0,
           !.notify = IF @ > giveUps THEN @ - giveUps ELSE 0,
           !.retry  = (n + armed) % 2 = 1]

\* prv_cm/av/rc_subscription_lost_cb, all those one emission runs.
LoseSubscription(c, p) ==
    [s \in Service |->
        LET r == IF s = p THEN [c[s] EXCEPT !.live = FALSE] ELSE c[s]
        IN  IF s \in HandledOn(p) THEN RunHandlers(r, r.handlers) ELSE r]

\* prv_re_enable_cm/av/rc_subscription: the retry timer of s fires.
ReEnable(c, s) == [c EXCEPT ![s].retry = FALSE]
=============================================================================
