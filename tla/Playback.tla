------------------------------- MODULE Playback -------------------------------
(***************************************************************************)
(* The cached playback properties of one renderer: device.c, from          *)
(* prv_props_update, prv_last_change_cb and prv_rc_last_change_cb to       *)
(* dlr_device_set_prop, dlr_device_play and dlr_device_open_uri.           *)
(*                                                                         *)
(* The properties come from three places: the service descriptions         *)
(* ("introspection"), fetched when the properties are first needed; the    *)
(* events of AVTransport and RenderingControl; and what clients set.  A    *)
(* fetch iterates the main loop, so events and calls are handled while it  *)
(* lasts and may start fetches of their own: frames is the stack of these  *)
(* synchronisations, of which only the last can go on.                     *)
(***************************************************************************)
EXTENDS Speeds, FiniteSets

CONSTANTS
    Caller,        \* clients: each has one call in progress at a time
    None,          \* no value
    Descriptions,  \* what a renderer may describe: speeds and greatest volume
    AvEvents,      \* the LastChange events of AVTransport
    Asked,         \* the rates clients ask for, in hundredths
    MaxEvents,     \* bound: the LastChange events of RenderingControl
    MaxFrames,     \* bound: synchronisations in progress
    MaxLosses      \* bound: contexts lost

\* An event of AVTransport has any of the actions allowed now, among them
\* possibly a list of DLNA speeds, the speed and the state.
ASSUME PlaybackAssumption ==
    /\ MaxEvents \in Nat /\ MaxFrames \in Nat /\ MaxLosses \in Nat
    /\ Caller \cap (1..MaxEvents) = {}
    /\ Asked \subseteq Int
    /\ Descriptions \subseteq [speeds : Seq(Speed), volume : Nat,
                               dlna15 : BOOLEAN]
    /\ \A e \in AvEvents :
          /\ DOMAIN e = {"actions", "speed", "state"}
          /\ e.speed = None \/ e.speed \in Speed
          /\ \/ e.actions = None \/ e.actions.ps = None
             \/ e.actions.ps \in Seq(Speed)

VARIABLES
    description,  \* the renderer's service descriptions (never changes)
    own,          \* transport_play_speeds, mpris_..., min_rate, max_rate
    dlna,         \* dlna_transport_play_speeds
    rate,         \* device->rate, the speed Play is sent with
    max_volume,   \* device->max_volume
    synced,       \* props.synced
    props,        \* props.player_props
    frames,       \* the synchronisations in progress, innermost last
    pending,      \* the RenderingControl events whose idle callback is to run
    arrived,      \* how many of them have arrived
    call,         \* the call of each client that waits for the renderer
    losses,       \* contexts lost
    listed        \* the last CurrentTransportActions (history)

vars == <<description, own, dlna, rate, max_volume, synced, props, frames,
          pending, arrived, call, losses, listed>>

\* An event is its number, the volume it carries is named by it; 0 stands for
\* the volume no event has set.
Event == 1..MaxEvents

\* A synchronisation: for an event or for the Get of a client, which service
\* it asks now, and whether the proxy it asks has gone.
Frame == [for : Event \cup Caller, service : {"av", "rc"}, lost : BOOLEAN]

\* A call: what it waits for, and the error in its task.  refused is the
\* history of a Set(Rate) that the code refused.
Call == [op : {"get", "uri", "open", "play", "done"}, error : BOOLEAN,
         refused : BOOLEAN]

CallTo(op) == [op |-> op, error |-> FALSE, refused |-> FALSE]

Init ==
    /\ description \in Descriptions
    /\ own = NoRates
    /\ dlna = <<>>
    /\ rate = One
    /\ max_volume = 0
    /\ synced = FALSE
    /\ props = [speeds |-> <<>>, min |-> 0, max |-> 0, rate |-> None,
                status |-> None, can |-> {}, volume |-> 0]
    /\ frames = <<>>
    /\ pending = <<>>
    /\ arrived = 0
    /\ call = [c \in Caller |-> None]
    /\ losses = 0
    /\ listed = None

\* prv_add_player_speed_props: what is 0 or missing leaves the property alone.
AddPlayerSpeedProps(p, rates) ==
    [p EXCEPT !.min = IF rates.min # 0 THEN rates.min ELSE @,
              !.max = IF rates.max # 0 THEN rates.max ELSE @,
              !.speeds = IF rates.mpris # <<>> THEN rates.mpris ELSE @]

-----------------------------------------------------------------------------
(***************************************************************************)
(* Events of AVTransport, handled when they arrive.                        *)
(***************************************************************************)

\* prv_add_dlna_speeds: the speed 1 is implied.  Prepending turns the list.
DlnaRates(ps) == RatesValues(SortSpeeds(Reverse(<<One>> \o ps)))

\* prv_add_actions: the properties Can... that the listed actions make true.
\* A renderer of DLNA 1.5 seeks by time only if it says so.
CanDo(actions) ==
    (actions \cap {"Play", "Pause", "Next", "Previous"})
    \cup {a \in {"Seek"} : /\ "Seek" \in actions
                           /\ description.dlna15 =>
                                 "X_DLNA_SeekTime" \in actions}
    \cup {a \in {"ByteSeek"} : {"Seek", "X_DLNA_SeekByte"} \subseteq actions}

\* prv_add_actions.
AddActions(p, actions) ==
    LET flags == [p EXCEPT !.can = CanDo(actions.can)]
    IN  IF actions.ps = None THEN flags
        ELSE AddPlayerSpeedProps(flags, DlnaRates(actions.ps))

\* Variant of MapTransportSpeed: any denominator will do.
MapTransportSpeed_NoCheck(s) == s

\* prv_map_transport_speed: the speed itself, unless its denominator is 0.
MapTransportSpeed(s) == IF s.den = 0 THEN One ELSE s

\* Variant of LastChange: the speed is shown and not kept.
LastChange_ShowsOnly(e) ==
    LET p == IF e.actions = None THEN props ELSE AddActions(props, e.actions)
        q == IF e.speed = None THEN p
             ELSE [p EXCEPT !.rate = MapTransportSpeed(e.speed)]
    IN  /\ props' = IF e.state = None THEN q ELSE [q EXCEPT !.status = e.state]
        /\ dlna' = IF e.actions # None /\ e.actions.ps # None
                   THEN DlnaRates(e.actions.ps).upnp ELSE dlna
        /\ listed' = IF e.actions = None THEN listed ELSE e.actions.can
        /\ UNCHANGED <<description, own, rate, max_volume, synced, frames,
                       pending, arrived, call, losses>>

\* prv_last_change_cb.
LastChange(e) ==
    LET p == IF e.actions = None THEN props ELSE AddActions(props, e.actions)
        q == IF e.speed = None THEN p
             ELSE [p EXCEPT !.rate = MapTransportSpeed(e.speed)]
    IN  /\ props' = IF e.state = None THEN q ELSE [q EXCEPT !.status = e.state]
        /\ dlna' = IF e.actions # None /\ e.actions.ps # None
                   THEN DlnaRates(e.actions.ps).upnp ELSE dlna
        /\ listed' = IF e.actions = None THEN listed ELSE e.actions.can
        /\ rate' = IF e.speed = None THEN rate ELSE e.speed
        /\ UNCHANGED <<description, own, max_volume, synced, frames,
                       pending, arrived, call, losses>>

-----------------------------------------------------------------------------
(***************************************************************************)
(* Events of RenderingControl, and synchronisations.                       *)
(***************************************************************************)

\* Variant of RcLastChange: the newest event is handled first.
RcLastChange_NewestFirst ==
    /\ arrived < MaxEvents
    /\ arrived' = arrived + 1
    /\ pending' = <<arrived'>> \o pending
    /\ UNCHANGED <<description, own, dlna, rate, max_volume, synced, props,
                   frames, call, losses, listed>>

\* prv_rc_last_change_cb: the work is left to an idle callback.
RcLastChange ==
    /\ arrived < MaxEvents
    /\ arrived' = arrived + 1
    /\ pending' = Append(pending, arrived')
    /\ UNCHANGED <<description, own, dlna, rate, max_volume, synced, props,
                   frames, call, losses, listed>>

\* prv_process_rc_last_change once the properties are known to be synced: the
\* volume is scaled by the greatest one, and ignored without.
ShowVolume(p, n, max) == IF max = 0 THEN p ELSE [p EXCEPT !.volume = n]

StartFrame(w) ==
    /\ Len(frames) < MaxFrames
    /\ frames' = Append(frames, [for |-> w, service |-> "av", lost |-> FALSE])

\* prv_process_rc_last_change, dispatched by whichever main loop runs.
ProcessRcLastChange ==
    /\ pending # <<>>
    /\ pending' = Tail(pending)
    /\ IF synced
       THEN props' = ShowVolume(props, Head(pending), max_volume)
            /\ UNCHANGED frames
       ELSE StartFrame(Head(pending)) /\ UNCHANGED props
    /\ UNCHANGED <<description, own, dlna, rate, max_volume, synced, arrived,
                   call, losses, listed>>

\* dlr_device_get_prop, dlr_device_get_all_props: of a property that must be
\* synced first.  A synced one is read and answered at once.
Get(c) ==
    /\ call[c] = None /\ ~synced
    /\ StartFrame(c)
    /\ call' = [call EXCEPT ![c] = CallTo("get")]
    /\ UNCHANGED <<description, own, dlna, rate, max_volume, synced, props,
                   pending, arrived, losses, listed>>

\* prv_get_av_service_states_values returns: with the description of the
\* service or, if ok is FALSE, without.
AvFetched(ok) ==
    /\ frames # <<>> /\ Last(frames).service = "av" /\ ~Last(frames).lost
    /\ own' = IF ok /\ description.speeds # <<>>
              THEN RatesValues(SortSpeeds(description.speeds)) ELSE own
    /\ frames' = [frames EXCEPT ![Len(frames)].service = "rc"]
    /\ UNCHANGED <<description, dlna, rate, max_volume, synced, props,
                   pending, arrived, call, losses, listed>>

\* The end of a synchronisation: an event goes on to show its volume, a Get
\* reads the property and is answered.
EndFrame(w, p) ==
    /\ frames' = Front(frames)
    /\ IF w \in Caller
       THEN props' = p /\ call' = [call EXCEPT ![w] = None]
       ELSE props' = ShowVolume(p, w, max_volume') /\ UNCHANGED call

\* prv_add_all_actions.
AllActions == {"Play", "Pause", "Seek", "Next", "Previous", "Control"}

\* prv_get_rc_service_states_values: the greatest volume, as it was if the
\* fetch failed.
FetchedVolume(ok) == IF ok THEN description.volume ELSE max_volume

\* It returns, and prv_props_update ends: the properties are those of the
\* descriptions, whatever events have said, and are never fetched again, even
\* if a fetch failed.
RcFetched(ok) ==
    /\ frames # <<>> /\ Last(frames).service = "rc" /\ ~Last(frames).lost
    /\ max_volume' = FetchedVolume(ok)
    /\ synced' = TRUE
    /\ EndFrame(Last(frames).for,
                [AddPlayerSpeedProps(props, own) EXCEPT
                    !.can = AllActions \cup (@ \cap {"ByteSeek"})])
    /\ UNCHANGED <<description, own, dlna, rate, pending, arrived, losses, listed>>

\* Variant of LostDevice: the lost proxy is not noticed.
LostDevice_Waits ==
    /\ frames # <<>> /\ Last(frames).lost
    /\ UNCHANGED vars

\* prv_props_update returns FALSE: the event is dropped, the Get fails.
LostDevice ==
    /\ frames # <<>> /\ Last(frames).lost
    /\ frames' = Front(frames)
    /\ call' = [c \in Caller |->
                   IF c = Last(frames).for THEN None ELSE call[c]]
    /\ UNCHANGED <<description, own, dlna, rate, max_volume, synced, props,
                   pending, arrived, losses, listed>>

\* A context goes while others are left.  The synchronisations in S ask its
\* proxies: each asks those of the context preferred when it began.
ContextLost(S) ==
    /\ losses < MaxLosses
    /\ losses' = losses + 1
    /\ frames' = [i \in DOMAIN frames |->
                     [frames[i] EXCEPT !.lost = @ \/ i \in S]]
    /\ UNCHANGED <<description, own, dlna, rate, max_volume, synced, props,
                   pending, arrived, call, listed>>

-----------------------------------------------------------------------------
(***************************************************************************)
(* Calls of the clients.                                                   *)
(***************************************************************************)

\* prv_get_rate_value_from_double: the list of values and the list of texts
\* it takes the position in.
RateList ==
    IF dlna # <<>> THEN [mpris |-> props.speeds, upnp |-> dlna]
    ELSE [mpris |-> own.mpris, upnp |-> own.upnp]

IndexOfRate(v) == IndexOfValue(RateList.mpris, v)

\* prv_set_rate with a value of the list.
SetRate(i) ==
    IF RateList.upnp[i] = rate THEN UNCHANGED <<rate, props>>
    ELSE /\ rate' = RateList.upnp[i]
         /\ props' = [props EXCEPT
                         !.rate = [num |-> RateList.mpris[i], den |-> 100]]

\* Whether the renderer has to be told: dlr_device_set_prop goes on to Play.
PlayIfPlaying(c, refused) ==
    call' = [call EXCEPT ![c] =
                IF props.status = "Playing"
                THEN [op |-> "play", error |-> refused, refused |-> refused]
                ELSE None]

\* dlr_device_set_prop of Rate, the value being in the list.  A position that
\* the list of texts has not is read all the same: what the code does with
\* what it finds there is not followed.
SetRateTo(c, v) ==
    /\ call[c] = None
    /\ IndexOfRate(v) \in DOMAIN RateList.upnp
    /\ SetRate(IndexOfRate(v))
    /\ PlayIfPlaying(c, FALSE)
    /\ UNCHANGED <<description, own, dlna, max_volume, synced, frames,
                   pending, arrived, losses, listed>>

\* dlr_device_set_prop of Rate, the value being refused.
SetRateRefused(c, v) ==
    /\ call[c] = None
    /\ IndexOfRate(v) = 0
    /\ PlayIfPlaying(c, TRUE)
    /\ UNCHANGED <<description, own, dlna, rate, max_volume, synced, props,
                   frames, pending, arrived, losses, listed>>

\* dlr_device_play, which other commands are like; dlr_device_open_uri for
\* OpenUri and for SetUri or OpenNextUri.
Begin(c, op) ==
    /\ call[c] = None /\ op # "get"
    /\ call' = [call EXCEPT ![c] = CallTo(op)]
    /\ UNCHANGED <<description, own, dlna, rate, max_volume, synced, props,
                   frames, pending, arrived, losses, listed>>

\* Variant of ResetTransportSpeedProps: the DLNA speeds stay.
ResetTransportSpeedProps_KeepsDlna ==
    /\ dlna' = dlna
    /\ rate' = One
    /\ props' = LET p == IF props.speeds = own.mpris THEN props
                         ELSE AddPlayerSpeedProps(props, own)
                IN  IF rate = One THEN p ELSE [p EXCEPT !.rate = One]

\* Variant of ResetTransportSpeedProps: the limits stay.
ResetTransportSpeedProps_KeepsLimits ==
    /\ dlna' = <<>>
    /\ rate' = One
    /\ props' = LET p == IF props.speeds = own.mpris \/ own.mpris = <<>>
                         THEN props ELSE [props EXCEPT !.speeds = own.mpris]
                IN  IF rate = One THEN p ELSE [p EXCEPT !.rate = One]

\* prv_reset_transport_speed_props: back to the renderer's own speeds, if
\* they are known, and to the speed 1.
ResetTransportSpeedProps ==
    /\ dlna' = <<>>
    /\ rate' = One
    /\ props' = LET p == IF props.speeds = own.mpris THEN props
                         ELSE AddPlayerSpeedProps(props, own)
                IN  IF rate = One THEN p ELSE [p EXCEPT !.rate = One]

\* prv_open_uri_cb with the renderer's agreement.
UriSet(c) ==
    /\ call[c] # None /\ call[c].op \in {"uri", "open"}
    /\ ResetTransportSpeedProps
    /\ call' = [call EXCEPT ![c] = IF @.op = "open" THEN CallTo("play")
                                                    ELSE None]
    /\ UNCHANGED <<description, own, max_volume, synced, frames, pending,
                   arrived, losses, listed>>

\* Variant of Played: success clears the error.
Played_ClearsError(c, ok) ==
    /\ call[c] # None /\ call[c].op = "play"
    /\ call' = [call EXCEPT ![c] = [@ EXCEPT !.op = "done", !.error = ~ok]]
    /\ UNCHANGED <<description, own, dlna, rate, max_volume, synced, props,
                   frames, pending, arrived, losses, listed>>

\* prv_simple_call_cb: success leaves an earlier error where it is.
Played(c, ok) ==
    /\ call[c] # None /\ call[c].op = "play"
    /\ call' = [call EXCEPT ![c] =
                   [@ EXCEPT !.op = "done", !.error = call[c].error \/ ~ok]]
    /\ UNCHANGED <<description, own, dlna, rate, max_volume, synced, props,
                   frames, pending, arrived, losses, listed>>

\* prv_open_uri_cb with the renderer's refusal.
UriRefused(c) ==
    /\ call[c] # None /\ call[c].op \in {"uri", "open"}
    /\ call' = [call EXCEPT ![c] = [@ EXCEPT !.op = "done", !.error = TRUE]]
    /\ UNCHANGED <<description, own, dlna, rate, max_volume, synced, props,
                   frames, pending, arrived, losses, listed>>

\* prv_async_task_complete: the client has its answer.
Complete(c) ==
    /\ call[c] # None /\ call[c].op = "done"
    /\ call' = [call EXCEPT ![c] = None]
    /\ UNCHANGED <<description, own, dlna, rate, max_volume, synced, props,
                   frames, pending, arrived, losses, listed>>

-----------------------------------------------------------------------------
Next ==
    \/ \E e \in AvEvents : LastChange(e)
    \/ RcLastChange
    \/ ProcessRcLastChange
    \/ \E ok \in BOOLEAN : AvFetched(ok) \/ RcFetched(ok)
    \/ LostDevice
    \/ \E S \in SUBSET (DOMAIN frames) \ {{}} : ContextLost(S)
    \/ \E c \in Caller :
          \/ Get(c)
          \/ \E v \in Asked : SetRateTo(c, v) \/ SetRateRefused(c, v)
          \/ \E op \in {"play", "uri", "open"} : Begin(c, op)
          \/ UriSet(c) \/ UriRefused(c)
          \/ \E ok \in BOOLEAN : Played(c, ok)
          \/ Complete(c)

\* The main loop dispatches the idle callbacks, and a fetch ends with an
\* answer or an error.
Fairness ==
    /\ WF_vars(ProcessRcLastChange)
    /\ WF_vars(\E ok \in BOOLEAN : AvFetched(ok))
    /\ WF_vars(\E ok \in BOOLEAN : RcFetched(ok))
    /\ WF_vars(LostDevice)

Spec == Init /\ [][Next]_vars /\ Fairness

-----------------------------------------------------------------------------
(***************************************************************************)
(* Properties.                                                             *)
(***************************************************************************)

\* Every variable keeps its type.
TypeOK ==
    /\ description \in Descriptions
    /\ own.upnp \in Seq(Rational) /\ own.mpris \in Seq(Int)
    /\ dlna \in Seq(Rational)
    /\ rate \in Speed
    /\ max_volume \in Nat
    /\ synced \in BOOLEAN
    /\ props.speeds \in Seq(Int) /\ props.volume \in 0..MaxEvents
    /\ props.rate \in Rational \cup {None}
    /\ frames \in Seq(Frame) /\ Len(frames) <= MaxFrames
    /\ pending \in Seq(Event)
    /\ call \in [Caller -> Call \cup {None}]

\* The list exposed is the one that Set(Rate) takes the speed text from.
SpeedsAgree ==
    props.speeds = IF dlna # <<>>
                   THEN [i \in DOMAIN dlna |-> Hundredths(dlna[i])]
                   ELSE own.mpris

\* The Can... properties are those of the last CurrentTransportActions.
ActionsAgree == listed # None => props.can = CanDo(listed)

\* API.txt on TransportPlaySpeeds: each value exposed is accepted, and asks
\* the renderer for a speed of that value.
ExposedRatesAreAccepted ==
    \A v \in Range(props.speeds) :
        /\ IndexOfRate(v) \in DOMAIN RateList.upnp
        /\ MeansValue(RateList.upnp[IndexOfRate(v)], v)

\* As long as the two lists are the same, that is so, and what is accepted is
\* never sent as another speed.
AgreedRatesAreAccepted ==
    SpeedsAgree =>
        /\ ExposedRatesAreAccepted
        /\ \A v \in Asked : IndexOfRate(v) # 0 =>
               /\ IndexOfRate(v) \in DOMAIN RateList.upnp
               /\ MeansValue(RateList.upnp[IndexOfRate(v)], v)

\* Only two things part the lists: a synchronisation, which does not know of
\* the DLNA speeds, and a new uri while the renderer's own are not known.  A
\* new uri joins them again otherwise.  The Can... properties stray from what
\* the renderer lists by a synchronisation only.
OnlySyncOverrides ==
    [][LET sync   == \E ok \in BOOLEAN : AvFetched(ok) \/ RcFetched(ok)
           newUri == \E c \in Caller : UriSet(c)
       IN  /\ SpeedsAgree \/ newUri =>
                 SpeedsAgree' \/ sync \/ (newUri /\ own = NoRates)
           /\ ActionsAgree => ActionsAgree' \/ sync]_vars

\* The Rate a client sees is the speed the next Play is sent with: events,
\* new uris and Set(Rate) keep the two together, unless Set(Rate) finds the
\* lists parted.
RateIsTheSpeedSent ==
    [][LET shown == props.rate # None =>
               AbsValue(100 * MapTransportSpeed(rate).num * props.rate.den
                        - 100 * props.rate.num * MapTransportSpeed(rate).den)
               <= props.rate.den * MapTransportSpeed(rate).den
       IN  SpeedsAgree /\ shown => shown']_vars

\* Every speed exposed lies between MinimumRate and MaximumRate, whichever of
\* the lists is exposed after any events, synchronisations and new uris.  A
\* list whose least or greatest speed has the value 0 breaks this, since 0
\* stands for a limit that is not known: the instances have no such list.
RatesWithinRange ==
    \A v \in Range(props.speeds) : props.min <= v /\ v <= props.max

\* A Set(Rate) that the code refuses fails, though Play is sent all the same
\* and succeeds.
RefusedSetFails ==
    \A c \in Caller : call[c] # None /\ call[c].refused => call[c].error

\* Volume goes back to that of an earlier event only at the end of a
\* synchronisation begun for that event, in whose main loop the later one
\* was handled.
VolumeGoesBackInFramesOnly ==
    [][props'.volume < props.volume =>
          \E i \in DOMAIN frames : frames[i].for = props'.volume]_vars

\* Every event of RenderingControl is handled and every synchronisation ends,
\* nested in others or not, whatever contexts are lost meanwhile.
SynchronisationsEnd ==
    /\ \A n \in Event :
          n \in Range(pending) ~> n \notin Range(pending)
    /\ \A w \in Event \cup Caller :
          (\E i \in DOMAIN frames : frames[i].for = w)
              ~> ~(\E i \in DOMAIN frames : frames[i].for = w)
=============================================================================
