# TLA+ models of dleyna-renderer

dleyna-renderer is a D-Bus service that finds the UPnP/DLNA media renderers of
the local networks and lets its clients control them.  This directory holds
TLA+ modules of its core, TLC configurations that check them, and theorems that
TLAPS checks.  Line numbers below are those of `src/libdleyna/renderer/`.

The process is single threaded: everything runs as a callback of one GLib main
loop.  What interleaves is therefore callbacks: reports of the network, answers
to UPnP actions, idle callbacks, timers and D-Bus method calls.  One action of
a model is one callback, with all it calls.  (The one place where the program
iterates the main loop inside a callback, the fetching of service descriptions,
is modelled as several actions, see Tasks and Playback.)

## 1. Inventory

| component | code | state | operations | what is hard |
|---|---|---|---|---|
| Discovery | `upnp.c` 39-400 | `server_udn_map` (listed devices), `server_uc_map` (under construction), a queue of service tasks per device under construction | device available / unavailable on a network, end of a construction chain, subscribe timer | a renderer on several networks that come and go between the steps of its construction; timers that outlive what they point to |
| Contexts and subscriptions | `device.c` 135-597, 895-914 | `device->contexts`, three subscription flags, proxies, handlers and retry timers for each | choose the preferred context, move the subscription, lose and renew a subscription | the state is spread over flags, GUPnP proxies, signal handlers and timers, updated separately |
| Construction | `device.c` 617-874 | `construct_step`, `ids` | GetProtocolInfo, subscribe, publish | restarted in the middle on another context |
| Method calls and tasks | `server.c`, `task.c`, `async.c`, `upnp.c` 430-819 | tasks in dleyna-core queues (one for each client and object), invocation, cancellable, pending idle callbacks, `watchers` | method calls, processing, completion, Cancel, Release, loss of a client or of a renderer, quitting | many ways to end a task that race with each other; exactly one answer |
| Operations on a renderer | `device.c` 1758-2007, 2342-3391 | the action in flight, the proxy (weak pointer) | Play, Pause, ..., Seek, OpenUri, Get, GetAll, Set, GetIcon | two actions in a row; introspection that iterates the main loop; proxies destroyed under an action |
| Host service | `host-service.c`, `device.c` 3209-3257 | servers by interface, files with their clients and mappings | HostFile, RemoveFile, client lost, GET, HEAD | sharing between clients, interfaces that change, removal during a download |
| Playback properties and rates | `device.c` 211-294, 916-1526, 1527-1760, 2009-2430 | `props`, two lists of play speeds, `rate`, `max_volume`, `synced`, RenderingControl events waiting in idle callbacks | LastChange, synchronisation, Set(Rate), OpenUri, volume | properties used before they are known, overwritten by several sources; synchronisations nested in each other's main loops |
| Positions and seeking | `device.c` 1311-1391, 1762-2007, 2680-2772, 3035-3207 | `Position`, `BytePosition`, the seek in the task | Get, GetAll, Seek, ByteSeek, SetPosition, SetBytePosition | two actions in a row with others' between; signs, units and widths |
| Manager object, settings | `manager.c` | settings, white list | Get, Set | several copies of a setting; write failures |
| Durations, rationals | `device.c` 1311-1365, 2009-2122 | none | conversions, order and lists of speeds | boundaries |
| Start and stop | `server.c` 705-740, 1095-1178, `server/daemon.c` | the context of the process | start, stop | tear-down with tasks in flight |

How they interact: GUPnP calls Discovery, which owns the devices and calls
Contexts and Construction.  A listed device is announced through `server.c`
(FoundRenderer); a lost one is withdrawn, and `server.c` then removes the task
queues of that renderer.  A method call becomes a task; its processing looks
the renderer up in `server_udn_map` and calls an operation, which uses the
preferred context and, for HostFile and RemoveFile, the host service.  When a
client goes, its queues and its hosted files go, and with the last client the
process.

What makes each correct:

- Discovery: a device has one owner; its contexts are what the network
  announces; construction ends; clients learn of a renderer once and of its
  loss at once.
- Contexts: the preferred context, and no other, is subscribed to; the flags
  tell the truth; a switch of context or a lost subscription never leaves a
  renderer deaf.
- Tasks: each call is answered exactly once and in order; a callback never
  runs on a freed task or renderer; Cancel is exact; the service ends with its
  last client and not before.
- Host service: a file is hosted as long as a client wants it and no longer; a
  url names one file; a mapping outlives its readers.
- Playback: a speed shown can be asked for, and is the speed that is sent; the
  limits bound the speeds; events win over what was known before, in order;
  a refusal reaches the client; synchronisations end.
- Positions: a seek leads where it says; an answer is not older than its call.
- Settings: the file, the filter of networks and what clients know agree.

The hazards these properties are for are listed, with their lines, in
`PROJECT.json`.

## 2. Modules

| module | models | kind |
|---|---|---|
| `DeviceContexts` | contexts and subscriptions of one device | operators |
| `Discovery` | discovery and construction, on top of `DeviceContexts` | state machine |
| `RendererDirectory` | what clients see of discovery | abstract specification |
| `Tasks` | method calls, tasks, clients, quitting | state machine |
| `ClientCalls` | what clients see of their calls | abstract specification |
| `HostService` | hosted files, servers, downloads | state machine |
| `Speeds` | rational speeds, their order and lists | operators |
| `Playback` | properties, events, synchronisations, rates | state machine |
| `Positions` | positions and seeks, with the renderer | state machine |
| `Manager` | settings, white list, start and stop | state machine |
| `MCDiscovery`, `MCTasks`, `MCHostService`, `MCPlayback`, `MCPositions`, `MCManager` | instances for TLC | |
| `DeviceContextsProofs`, `DiscoveryProofs`, `TasksProofs`, `ClientCallsProofs`, `HostServiceProofs`, `PlaybackProofs`, `PositionsProofs`, `ManagerProofs` | theorems | |

Each modelled definition is preceded by the name of the function it stands for;
`PROJECT.json` maps it to its lines.  Definitions called `X_Something` just
before `X` are faulty variants of `X`, each of which breaks the property it is
paired with in `PROJECT.json`.

### DeviceContexts and Discovery

A context is named by its address, a renderer by its UDN.  `contexts[u]` is
`device->contexts`, in order; `subs[u][ip][s]` is the subscription of service
`s` (`av`, `cm`, `rc`) on that context: the flag of `device.c`, the state of
GUPnP's proxy (`live`), its notify callbacks, its subscription-lost handlers
and its retry timer.  The code never disconnects those handlers, so one loss
may run several in a row: `RunHandlers` gives the result of n of them, each of
which renews the subscription if no retry timer is armed and gives it up if one
is.  `HandledOn` says on which proxy a handler is connected: the handler of
`rc` is connected to the proxy of `av` (line 592).

`chain[u]` is the queue of service tasks: the context it was started on, the
tasks left, and whether GetProtocolInfo awaits its answer.  `GetProtocolInfo`,
`GetProtocolInfoDone`, `Subscribe`, `Declare` and `DeclareFails` run its tasks;
`ServerAvailable` and `ServerUnavailable` are the two callbacks of the control
point, with every branch they take; `SubscribeTimeout` is the timer that
subscribes one second after a context was lost; `SubscriptionLost` and
`RetryTimeout` are the loss of a subscription and the timer after it.
`construct_step` counts in the code without bound; it is compared with 1 and 3
only, so the model stops at 3 (`Bump`).

`visible` is the network: an address is withdrawn only after it was announced.
`RendererDirectory` has `listed` and `reachable` only; `Discovery` implements
it with `listed <- server_udn_map`, `reachable <- visible`.

### Tasks and ClientCalls

Calls are numbered as they arrive.  `queue_of[c]` is the queue of dleyna-core
(client and object), so a queue is the set of its tasks and its head the
smallest.  `task[c]` is a record of what matters of `dlr_async_task_t`: whether
it is the current task of its queue, whether its invocation is open, whether
its cancellable is cancelled and connected, what it waits for (`doing`), the
actions left, and how many `dlr_async_task_complete` idle callbacks are
pending.  `replies[c]` counts the answers sent for the invocation.

`Process` is the idle callback that starts a task; a synchronous one ends
there, a setting is changed, an operation on a renderer begins its actions, or
starts with the introspection, or completes.  `LastAnswer`, `NextAnswer` and
`Completed` are the callbacks that follow.  `Introspected` is the second half
of a Get or GetAll that had to fetch the introspection: GUPnP iterates the main
loop there (the comment at `device.c` 2140-2146 says so), so anything may
happen in between.

`CancelTask` follows `g_cancellable_cancel` to `dlr_async_task_cancelled`: it
cancels the action (whose callback is then not called) and queues a completion.
`LoseProxy` is what the destruction of a context does to a task: the action is
dropped without a callback ("dropped").  `DeviceLost` destroys the proxies and
then removes the queues of the renderer; `RemoveClient` is
`prv_remove_client`.  `deferred` are queues that dleyna-core removes when their
current task ends, together with the tasks added since, which are answered with
an error.

An operation is represented by its kind: `command` begins one action,
`open_uri` two, `get_icon` none or one, `host_uri` none, `get_prop` none after
an optional introspection, `get_all_props` none, one or two after an optional
introspection.  `Actions` says which operations each kind stands for.  Whether
the properties were synchronised is not tracked: a Get may fetch the
introspection at any time, which allows more behaviours than the code.

`ClientCalls` is a set of open calls: a call is made, refused or answered, and
calls are answered with all earlier ones of their queue or after them.

### HostService

One record for each hosted file: its number (the url), its clients and its
`mapped_count`.  `responses` are GETs being answered, which keep a pointer to
the entry (`freed` when it dangles).  `ip_of` is the address of a renderer's
preferred context, which `SwitchContext` changes.  `users` are the clients the
service watches (any call makes one), `urls` is a history variable: the urls
given out by the servers that run.

### Speeds and Playback

A speed text is its numerator and denominator, a rate on D-Bus an integer
number of hundredths.  `RatesValues` is `prv_get_rates_values`: the texts to
send, the values to expose, one for each, the least and the greatest.  Its loop
is a recursive function of the texts taken so far, `TakeSpeed` one turn of it;
`SortSpeeds` inserts the speeds one by one.

There are two such lists.  `own` is made from the service description when the
properties are first needed, and is what `transport_play_speeds`,
`mpris_transport_play_speeds`, `min_rate` and `max_rate` hold; `dlna` is made
from an event that lists DLNA speeds, and only its texts are kept.  What
clients see, `props.speeds`, is a third copy, written by both and by
`ResetTransportSpeedProps` after a new uri.  `RateList` is the list Set(Rate)
looks in.  `SpeedsAgree` says when the copies agree; the properties are about
how they come to disagree, and what holds as long as they do not.

A fetch of a description iterates the main loop, from where other callbacks
may begin fetches of their own; only the innermost can return.  `frames` is
that stack of calls of `prv_props_update`, with the service each asks and
whether the proxy it asks has been destroyed (the weak pointer of lines 2147
and 2215).  `ProcessRcLastChange` is the idle callback of an event of
RenderingControl (`pending`, in order), `Get` a Get or GetAll that needs the
properties.  Volumes are named by the event that brought them, which is what
the ordering properties compare.

### Positions

The renderer is part of the model: a track, a place that moves, actions that
succeed, fail or say that the time is not counted.  `call[c]` is a client's
call, with the action in flight (`asks`), its target, and the reply on its way
back.  `DurationToInt64` and `Int64ToDuration` are the two conversions with the
width of their arithmetic, `Unsigned` the sharing of a `guint64` by signed
offsets and unsigned counts.  `Meaning` and `Written` are the renderer's
reading and writing, against which the conversions are checked.  What a renderer
says that is neither a duration nor a count is read as 0 (`RelCount`).

### Manager

`settings` is the settings file, `white_list` the filter of GUPnP, `told` what
a client knows that read the properties and follows the signals.  One action
for each settable property, with the early return for an unchanged value and
the write that may fail (`ok`); `StartService(P)` publishes the interfaces P
and goes on only with the Manager interface; `StopService` undoes both kinds of
start.  A setting of the wrong type is read as FALSE by
`g_variant_get_boolean`; only the entries are checked.

## 3. Runs

Passing runs:

| run | instance | shows |
|---|---|---|
| `networks` | 1 renderer, 3 addresses (1 loopback), 3 services, of which `av` may be dropped | `ContextsTrackNetwork`, `ConstructionOnLiveContext`, `OnlyPreferredSubscribed`, `SubscribedOrTimerArmed`; `Resubscribed`; refinement of `RendererDirectory` |
| `failures` | 1 renderer, 3 addresses (1 loopback), `av` and `cm` may be dropped, publication may fail, up to 2 handlers accumulated when a context is reported | `TypeOK`, `OwnedOnce`, `ContextsTrackNetwork`, `FlagMeansLive`, `FlagMeansNotified`; `ConstructionEnds` |
| `calls` | 2 clients, 1 renderer, 3 calls on the renderer, Get and GetAll among them, contexts may fail | `TypeOK`, `AnsweredOnce`, `OneContinuation`, `TasksFindDevice` |
| `progress` | 2 clients, 1 renderer, 2 calls, on all three objects, of every control (a Get and a command do less than a GetAll and an OpenUri), contexts may fail, NeverQuit changes | refinement of `ClientCalls`, `CancelIsExact`, `LastClientEndsService`, `EventuallyAnswered`, `EventuallyStops` |
| `files` | 2 clients, 1 renderer, 2 addresses, 2 files, whose hosting may fail, 2 responses | `TypeOK`, `FilesHaveClients`, `UrlNamesOneFile`, `OthersKeepTheirFiles`, `ResponsesKeepMapping` |
| `playback` | 2 service descriptions, 4 events of AVTransport, 3 rates asked for, 1 client, 2 nested synchronisations | `TypeOK`, `AgreedRatesAreAccepted`, `RatesWithinRange`, `RefusedSetFails`, `OnlySyncOverrides`, `RateIsTheSpeedSent`, `VolumeGoesBackInFramesOnly`, `SynchronisationsEnd` |
| `positions` | 2 clients, a track of over an hour, offsets ahead and back, counts beyond both ends | `TypeOK`, `SeeksLand`, `AnswersAreFresh`, `CallsAreAnswered` |
| `settings` | 3 entries, a value of another type | `ServiceOK`, `PlacesAgree` |

Runs that find a disagreement between the code and what `API.txt` promises
(details in `PROJECT.json`, "findings"):

| run | property | what happens |
|---|---|---|
| `unpublished` | `ListedArePublished` | a construction restarted twice is announced without D-Bus objects |
| `rc_loss` | `FlagMeansLive` | the loss of the RenderingControl subscription is not noticed |
| `release` | `QuitsWithLastClient` | a Release that was not owed takes another client's count |
| `speeds` | `ExposedRatesAreAccepted` | a speed that is exposed is refused after a new uri, or looked up in the wrong list after a synchronisation |

### Bounds

- `Ip`: the code compares at most two contexts at a time (the lost one and the
  preferred one of those left); with three, one of them loopback, every order
  of preference and loss occurs.
- `Udn`: renderers share only the two maps, whose entries are disjoint by key;
  one is checked, and the theorems are for any number of them.
- `MaxHandlers`: a proxy with that many handlers sees no new context, which
  bounds the handlers a loss can run.  The effect of n handlers depends on the
  parity of n and on whether the timer is armed; 2 has both.  In `networks`
  it is 4, so that the repetition of the same switches ends later.
- `LossyService`: `networks` drops `av`, so that a context is also lost with only
  some of its services subscribed to; `failures` drops `cm` too, so that the
  handlers of two services accumulate.
- `PublishMayFail`: in `failures` only, since `RendererDirectory` has no renderer
  that is announced on a network and forgotten.
- `MaxCalls`: two calls on a queue make a running and a waiting task; the third
  is made after one of them ended, was refused, or belongs to another client.
- `Device` in Tasks: paths are not used again by a renderer that comes back,
  so one renderer gives found, lost and not yet found.  (In the code the path
  is derived from the UDN; a renderer that returns is one whose queues were
  removed when it was lost.)
- `MaxId`, `MaxMapped`, `Response`: `MaxId` bounds the numbers taken on the
  servers that run: enough for a file to be removed and hosted again beside
  another one, and for a failure in between.  Two responses share a mapping.
- `MaxEvents`, `MaxFrames`, `MaxLosses` in Playback: two events can be
  overtaken, two synchronisations nest, one of them may lose its proxy.  The
  two descriptions are a renderer with speeds of its own, unsorted, one of them
  invalid, and one without; one client's calls overlap events and fetches, and
  calls share nothing else; the events carry a list of DLNA speeds, a list
  without, a speed that makes no sense and a negative one.  Both lists have a
  speed with a denominator of 0, which the code skips.
- `MaxSeeks`: one seek, beside the reads of two clients.  Seeks share no state
  of the program, only the renderer's place, which `PlayOn` moves between the
  two actions of a seek as another client's seek would.
- `Second` in Positions is two microseconds, a machine word just holds the
  track, and the track has one byte for each second: the arithmetic is the
  program's, in smaller numbers.  The offsets are more than a minute back and a
  few seconds ahead, with half a second to lose; the track passes an hour, so
  every field of a duration carries.
- `CHECK_DEADLOCK FALSE` where it is used: the service stops, and the
  bounds on calls and numbers end the behaviours.

### Fairness

- Discovery: weak fairness of the idle callbacks that run the tasks of a chain,
  of the answer to GetProtocolInfo (GUPnP answers each action, if only with an
  error or a timeout) and of the subscribe timer.  None for the network: it may
  stop reporting at any time.  `ConstructionEnds` is for renderers that stop
  losing contexts, since each loss of the construction context starts again.
- Tasks: weak fairness of each idle callback, of the answers to actions and
  downloads and of the end of an introspection, and of the end of the main loop.
  None for clients or renderers.  `EventuallyAnswered` excludes an action whose
  proxy was destroyed: the program has no timeout of its own, and only Cancel,
  Release or the loss of the client or renderer frees that queue.
- Playback: weak fairness of the idle callbacks of events, of the return of a
  fetch (GUPnP ends it with a description or an error) and of the return from a
  fetch whose proxy is gone.  None for events, clients or losses.
- Positions: weak fairness of the answer to each action, which may be an error,
  and of its callback.

## 4. Proofs

Every invariant and action property of the passing runs, and the two
refinements, are also theorems.  They are for arbitrary values of the constants,
under the named assumptions of the modules, which say what the constants are:
`ContextsAssumption`, `DiscoveryAssumption`, `TasksAssumption`,
`HostServiceAssumption`, `OtherTypeAssumption`, `PlaybackAssumption` (the shapes
of descriptions and events), `MarksAssumption` (what stands for no value is no
value) and `PositionsAssumption` (the track fits a machine word, and twice the
track a long one).  Four theorems need more; the hypothesis is in the statement
and the reason in this section: one on publication, two on lost subscriptions
and one on limits of 0.

**Discovery** (`DeviceContextsProofs`, `DiscoveryProofs`).  `IInv` is the
inductive invariant: the types, a device is in one map only, what is not in a
map has no state, a known device has contexts which are those the network
announces, each once, a construction has tasks left on a context that exists,
and the published objects belong to listed devices.  Ownership is not
inductive by itself: the steps of a chain list the device, so the invariant
must know that only devices under construction have a chain; and a step that
subscribes needs a context for `Preferred` to choose, so it must know that the
contexts of a known device are not empty.  The tasks left matter for
publication: no step but the last of a chain may publish, so "declare" only
occurs as the last task.  `DeviceContextsProofs` has the lemmas on sequences of
contexts (removing one from a sequence without repetition, the preferred one is
one of them) and on the type of the subscription operators.  From `IInv`:
`TypeCorrect`, `DevicesOwnedOnce`, `ContextsAreTracked`, `ConstructionIsLive`
and `DirectoryIsImplemented`, the refinement of
`RendererDirectory` (assuming publication does not fail: otherwise a device is
forgotten that the network still announces).

The subscriptions have an invariant of their own, `SubsInv`, on top of `IInv`.
It says where the records of a device may differ from fresh ones (only a context
of the device has a history, only the preferred one looks subscribed), that the
parts of a record agree (a flag has a callback, and a handler on the proxy whose
loss it is told of), that the services of a context are subscribed to together,
and that a device whose subscription task is done has its preferred context
subscribed to or the timer armed.  None of these is inductive alone: a switch of
context finds out from the flags of the lost context whether it has to move
anything, so the last part needs the third, which needs the second through
every loss and retry; the construction needs to know that an unanswered
GetProtocolInfo is the first task of its chain.  `RunHandlers` is dealt with once,
by what any number of handlers does to a record (`DeviceContextsProofs`).  From it
`OneContextSubscribed`, `FlagsHaveCallbacks`, `FlagsAreLive` and
`SubscriptionsMove`.  `FlagsAreLive` is for a network that keeps the subscription to
RenderingControl, whose loss the code does not notice: the run `rc_loss` shows
that it must be kept.  `SubscriptionsMove` is for one that keeps the subscription to
AVTransport or that to ConnectionManager (`Telling`): `prv_server_unavailable_cb`
asks those two flags only, so a context that lost both for good and still had
RenderingControl is not seen to have been subscribed to, and no timer is
armed.  TLC finds that in eleven steps without the hypothesis.

**Tasks** (`TasksProofs`).  `AnswersInv` says of each call where it stands: not
made; waiting, with its invocation open and no answer; or cancelled or over,
with one.  Every action but a new call is shown to be a step that answers some
set C of the live calls (`StepAnswers(C)`): the tasks of C end or close their
invocation, all others keep theirs.  `AnswersKept` shows once that such a step
keeps the account.  From it `TypeCorrect` and `CallsAnsweredOnce`.

What a task may be doing is `TasksInv` (`ClientCallsProofs`): a pending task is
as it was made, a running one (a cancelled GetAll aside) waits for one callback, which is that of
its action if and only if its cancellable is connected and not cancelled; the
task of a lost renderer is answered and away from the proxies; and the running
task of a queue is its first.  The steps of one task are all `Advances` of its
record, those of a queue or a renderer cancel sets of tasks, and each kind is
shown once to keep the invariant.  From it `NoTaskIsStuck`, `QueuesRunInOrder`,
`TasksHaveOneContinuation`, `TasksLeaveLostDevices`, the action property
`CancelAnswersItsCalls`, and `TasksImplementCalls`: Tasks implements
`ClientCalls`, for which the order of a queue is what matters, that an answer
leaves no earlier call of its queue behind.  `OneContinuation` and
`TasksFindDevice` name their one exception, `Overtaken`: a GetAll that is cancelled
while its introspection is fetched is completed, then begins its action
(`device.c` 1991) and so waits for two callbacks.  The theorems hold of every
other task, whoever calls GetAll or Cancel beside it.

`LastClientQuits` has a small invariant, `WatchInv`: `watchers` never exceeds the
number of clients watched.  It may be less, which is what the run `release` is
about.

**HostService** (`HostServiceProofs`).  `IInv` adds two facts to the invariants
the run checks: the numbers of the urls of a server are below its counter
(`UrlsNumbered`), without which the next number could be an old one, and a
response whose entry is not freed reads a file that is hosted
(`ReadersReadHosted`), without which a file hosted anew, whose mapping counts
none, could have readers.  RemoveFile, Release and the loss of a client are all
steps `Removes(F, S, k)`, which take client k out of some entries, the entries
without clients out of F and the servers S without files away; `RemovesKeeps`
and `RemovesReaders` say once what such a step leaves, and `RemovesKeepInv`
that the invariant is kept.  The steps of the web server change one count:
`CountChanges`.  From `IInv`: `TypeCorrect`, `FilesAreWanted`,
`UrlsNameOneFile`, `MappingsOutliveReaders`; and from `RemovesKeeps` the action
property, `OthersKeepFiles`.  The only fact about sizes is that few responses
are sent at a time (`IsFiniteSet(Response)`).

**Playback** (`PlaybackProofs`).  Half of it is about lists, none of it by
assumption.  A recursive function is shown to exist, and its equation to hold,
by gluing its finite beginnings (`RecursionExists`); induction is a least
counterexample, which the order of the naturals provides (`Least`, `Induct`).  So
`SortedOK`: `SortSpeeds` returns a list of the same length and the same members, in
ascending order if no denominator is 0 (the order, by cross products, is then
total and transitive; with denominators of 0 it is not).  And `RatesValuesOK`: of
any list `RatesValues` makes texts and values of the same length, each value
that of its text, none invalid, all between the least and the greatest where
these are known.  `IInv` has three parts: `ValuesInv`, each copy of the
lists is such a list or empty; `WorkInv`, frames, idle callbacks and calls are
what they are; `OrderInv`, the events that wait are in order, after the one
that is shown and those that synchronisations were begun for.  From it
`TypeCorrect`; `AgreedRates`, a value exposed is found at its own index, whose
text is sent; `RefusedRatesFail`; `VolumesAdvance`, which is where `OrderInv` is
needed: an event may only be overtaken by a synchronisation begun before it;
`OverriddenBySync`, the only two ways the lists part; `RateIsKept`, with the
arithmetic of a quotient in hundredths that is multiplied out again
(`CloseToItself`, `CloseToHundredths`); and `RatesLieWithinLimits`.  The last is for
descriptions and events none of whose lists has a limit of 0 (`NoZeroLimits`):
the code takes a limit of 0 for no limit and leaves the property alone
(`device.c` 2090), so after an event whose least speed was 1 a synchronisation
with the described speeds 0, 1/2 and 1 exposes 1/2 with a MinimumRate of 1.

**Positions** (`PositionsProofs`).  `IInv` says of each call in flight what its
action asks, that an answer on its way back tells one place of the renderer,
that the target of a seek was computed from its argument and the place read,
and what a GetAll that asks for the time left of the byte position.  Lemmas on
division give what each conversion does: what the renderer writes is read as
the second it was at (`WrittenIsRead`), microseconds are sent as a duration less
than a second away (`DurationMeans`), and the unsigned sum of a signed offset and
a place on the track is the sum if that is on the track (`ModNegative`, `ModAdd`).
From it `TypeCorrect`, `GetAllIsFresh` and `SeeksLandThere`:
for any length of track, any unit of time and any other calls in between.

**Manager** (`ManagerProofs`).  `PlacesAgree` is inductive with the types
(`ServiceCorrect`, of `ServiceOK`, which also says that the service serves only
with its Manager interface published): each setter changes all the places of a setting or none, and a start copies the file
to a new filter.

What stays with TLC: liveness under fairness, which the provers here do not
reach (`Resubscribed`, `ConstructionEnds`, `EventuallyAnswered`, `EventuallyStops`,
`SynchronisationsEnd`, `CallsAreAnswered`), and the four counterexamples.

## 5. Assumptions on what is not in this repository

- GUPnP: after `gupnp_service_proxy_cancel_action`, or the destruction of a
  proxy, the callback of an action is not called.  A lost subscription clears
  the proxy's flag before its signal is emitted.  Availability is reported for
  an address, and withdrawn only after it was reported.
- GLib: `g_cancellable_connect` on a cancelled cancellable calls the handler at
  once; handlers run once.
- dleyna-core: a queue processes its tasks one at a time, from idle callbacks,
  in order; cancelling a queue cancels its current task and deletes the others;
  removing queues defers those with a current task; quitting cancels all
  queues and ends the main loop from an idle callback when no task runs.
- libsoup: a deleted server gives its responses up; a download is answered.

## 6. Limits

What the code does beside the properties, as the models show it; no run is kept
for these:

- Two notify callbacks on one proxy, when a context is appended within the
  second of the subscribe timer (`upnp.c` 322-328); a context subscribed to
  RenderingControl only, whose loss arms no timer (`upnp.c` 278).
- A GetAll that is cancelled while its introspection is fetched is completed,
  and then begins its action all the same (`device.c` 1991): what the callback
  does with the freed task is undefined.  It is the named exception of
  `OneContinuation` and `TasksFindDevice` (`Overtaken`); the runs reach it.
- A server whose first file could not be hosted runs on without files until a
  client goes (`host-service.c` 481).
- RemoveFile looks on the interface the renderer is reached through now
  (`device.c` 3249): a file hosted before the interface changed is not found,
  and stays until its client goes.  No property rules this out;
  `FilesHaveClients` says how long it lasts.
- A response that keeps the entry of a removed file (`host-service.c` 540-541);
  what it does with it is undefined, and such a response stops there in the
  model.
- A list of speeds that begins with the invalid speed 0 may leave the least
  rate as it was (`device.c` 2090).  `RatesWithinRange` does not claim such lists:
  they are not among the instances, and are the hypothesis `NoZeroLimits` of
  `RatesLieWithinLimits`.
- After a description that could not be fetched the properties count as
  synchronised (`device.c` 2417).  The properties say that the lists are aligned
  then too, not that a failed fetch differs from an empty description.
- The stop of the service leaves `g_context.manager` and the object numbers as
  they were (`server.c` 719-736); the next start writes them before any call
  reads them, so `StopService` clears what it models.
- A context whose subscriptions to AVTransport and ConnectionManager were given
  up, and that to RenderingControl was not, is lost without the subscription
  moving to another one (`Telling` in section 4).
- The sign of a duration is that of its hours: "-00:00:10" is read as ten
  seconds ahead (`device.c` 1311-1343).  Renderers do not write positions with
  a sign, and `Written` does not.

Data that is abstracted:

- Rates are hundredths; in the code they are doubles, compared exactly.
- Texts of speeds have no negative denominators, which UPnP AV does not have; a
  denominator of 0 is there, and such a speed is skipped.  Where a list has
  several of them the comparison is no order, and the model sorts as an insertion
  sort does.  A list all of whose speeds are invalid, for which the code exposes
  an empty array, is the empty list of the model, as one that was never given.
- A volume is named by its event; its scaling by `max_volume`, and Set(Volume),
  which sends 0 before the first synchronisation (`device.c` 2456), change no
  state of the program and are left out.
- An event of RenderingControl that finds its device gone stays in
  `rc_event_handlers` (`device.c` 1697-1699) as a number that is not used again.
- BytePosition is exposed as an unsigned number; API.txt has it signed.  Both
  have the same values for tracks below 2^63 bytes.

Not modelled, because nothing but a copy would be: track metadata and counts,
Mute, the sink protocol info, GotoTrack, MIME types and DLNA headers, logging,
the introspection text, the parsing of arguments.  The end of the process frees
everything, tasks and constructions in flight included; `Tasks` ends where the
main loop ends.

## 7. Plan

1. Compositions: Discovery with Tasks (found and lost renderers, proxies of the
   preferred context) and Discovery with HostService (the interface of a
   renderer), so that `DeviceLost`, `ContextLost` and `SwitchContext` are those
   of Discovery.
2. `Service`: tear-down with constructions in flight.
3. Theorems: that the compositions implement their parts, so that the theorems
   of the parts hold of them.
