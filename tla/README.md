# AudioManagerPlugins: TLA+ models, model checking and proofs

The repository holds the plugins of the GENIVI Audio Manager: controllers, which decide what
is connected to what, routing plugins, which carry it out, and command plugins, which talk to
the user interface. The daemon that loads them, its event loop (`CAmSocketHandler`), its
database and `CAmSerializer` are not part of the repository.

## 1. Inventory

### The generic controller (`PluginControlInterfaceGeneric`)

| Part | State | Operations | What makes it correct |
|---|---|---|---|
| Action engine: `CAmActionContainer`, `CAmActionCommand`, `CAmRootAction`, `CAmEventSubject` | per action: status, error, index, children, timeout, execution time | `execute`, `update`, `undo`, `cleanup`, `timeout` | commands in order, one request at a time, complete rollback in reverse order, nothing stuck, nothing leaked |
| Trigger queue and `CAmControllerPlugin::iterateActions` | two lists of triggers | `queue`, `queueWithPriority`, `dequeue`, ~60 hooks, ~15 `cbAck*` | every trigger handled, one after the other, state changes first |
| Handle store, timers: `CAmHandleStore`, `CAmTimerEvent` | map handle -> action, list of timer clients | save, clear, notify; set, remove, fire | no late answer or timer reaches an action that is through or deleted |
| Main connections, routes and their actions: `CAmMainConnectionElement`, `CAmMainConnectionAction*`, `CAmAction{Connect,Disconnect,Suspend}`, `CAmRouteAction*`, `CAmSourceActionSetState` | connection state, ongoing transitions, route state, source state | connect, disconnect, suspend, their undo, dispose | the state shown agrees with the routes; transitions registered are unregistered; shared routes survive the disconnect of one user |
| Rundown: `CAmActionRundown` | domains and connections still to be offered | offer, reject, accept | the controller confirms the rundown in the end |
| Volumes: `CAmActionSetVolumeCore`, `CAmActionLimit`, `CAmActionMute`, `CAmRoutePointElement` | volume, offset, limits, mute of each element | set, ramp, limit, unlimit, mute | the volume set respects every limit in force and comes back when it is lifted |
| Main sound properties: `CAmSourceSinkActionSetSoundPropert{y,ies}`, `upadateDB` | main and routing side's properties of each element | set one or a list, undo, report | the database has what is played, the last request wins |
| Classes and elements: `CAmClassElement`, `CAm{Sink,Source,Gateway,Domain,System}Element` | registry, stack of connections, last volumes | register, deregister, create and dispose connections | elements agree with the daemon's database |
| Policy engine: `CAmPolicyEngine`, `CAmPolicyFunctions`, `CAmPolicy{Send,Receive,Action}` | the configuration | conditions -> list of actions | a trigger gives the actions configured for it |
| Persistence: `CAmPersistenceDefault` | maps to be written, file, dirty flag | read, write, erase | what was written is read after a restart |
| Configuration: XML parser | - | parse | pure data conversion |

Everything here runs on the daemon's one thread. The event loop calls a hook, a `cbAck*` or a
timer callback, and each of them ends in `iterateActions()`. Concurrency is therefore the
interleaving of these handlers while requests are under way on the routing side, which may
answer in any order of events, late, with an error, or never.

### The asynchronous routing plugin (`PluginRoutingInterfaceAsync`)

A pool of 10 threads (`CAmWorkerThreadPool`) carries out the jobs the daemon's thread hands
over (`async*`). State: per thread `busy`, the worker object and two semaphores; a map of
handles, a map of connections, the tables of sinks, sources and domains, each under its mutex.
Results return through a `CAmSerializer`. Hard here: all the interleavings of `startWork`,
`asyncAbort`, the ends of the jobs and `finishedWork`, and the timed wait against the abort.

### The other plugins

| Plugin | State | What makes it correct |
|---|---|---|
| `PluginControlInterface`: a simple controller | the flow under way and its step, lists of open connects, disconnects and volume changes | a flow never waits for an answer that does not come; of the players one is left |
| `PluginRoutingInterfaceCAPI`, `...Dbus`: the way to routing clients in other processes | `CAmLookupData`: proxies or bus addresses of domains, sinks, sources, connections and handles; counts of the ready and rundown handshake | a lookup finds the client the thing belongs to, or none; the rundown is confirmed after the last client, once |
| `PluginCommandInterfaceCAPI`, `...Dbus`: the way to user applications | readiness; the message a handler works on | lists and signals give an application the daemon's picture; messages have the types of the introspection files |
| `PluginRoutingAdapterALSA`: streams on sound cards | a database of sinks and sources, proxy and ramp threads, a detector of USB cards | no thread outlives its object, nobody waits for ever, elements follow the cards |

Common-API and the threads of its runtime, `libdbus`, ALSA and udev are external: they are modelled
by what the plugins use of them.

## 2. The modules

| Module | What it is |
|---|---|
| `Saga` | abstract: a list of steps applied in order, compensated in reverse order when one fails |
| `ActionEngine` | the action engine, trigger queue, handle store and timers of the generic controller |
| `MCActionEngine` | its instance for TLC, and the refinement mapping onto `Saga` |
| `ActionEngine_proofs` | theorems about `ActionEngine`: types, stores, completeness of the handlers |
| `Rollback_proofs` | the rollback of the engine, for containers without time limits; extends `ActionEngine_proofs` |
| `ConnectionLife` | abstract: what a main connection promises: CONNECTED only with the whole route in force, gone only with nothing left behind |
| `MainConnection` | main connections, routes and sources, and the actions that connect and disconnect them; extends `ActionEngine` with what their hooks do |
| `MCMainConnection` | its instances for TLC, and the refinement mapping onto `ConnectionLife` |
| `MainConnection_proofs` | theorems about `MainConnection`, extends `ActionEngine_proofs` |
| `PolicyEngine`, `PolicyConfigurations` | from a user's request over the configured processes to the list of actions, and the actions as they select connections; three XML configurations of the repository |
| `Registry` | registration of domains, sinks, sources and gateways, and the implicit actions it leads to |
| `VolumeControl` | set volume, limit and mute with their rollback |
| `SoundProperties` | main sound properties: requests, rollback, reports of the routing side |
| `Persistence` | what survives a rundown, in which file, and how it comes back |
| `Rundown` | the offering of connections to the domains that outlive the daemon |
| `SimpleController` | the whole of the simple controller |
| `Controllers_proofs` | theorems about `VolumeControl`, `SoundProperties`, `Persistence`, `Registry` and `Rundown` |
| `SimpleController_proofs` | theorems about `SimpleController` |
| `MCControllers` | instances of the last seven components |
| `AsyncService` | abstract: accepted requests are answered once, a confirmed connect is in force |
| `AsyncWorkerPool` | the thread pool and the jobs of the asynchronous routing plugin, and the refinement mapping onto `AsyncService` |
| `AsyncWorkerPool_proofs` | theorems about it, the refinement among them |
| `MCAsyncWorkerPool` | its instances |
| `AdapterThread` | the base class of the ALSA adapter's threads |
| `AlsaAdapter` | its connections, source states and volume ramps; extends `AdapterThread` |
| `UsbCards` | its detector of USB cards |
| `AlsaAdapter_proofs` | theorems about `AlsaAdapter` and `UsbCards` |
| `MCThreads` | instances of everything with threads: `AsyncWorkerPool`, `AlsaAdapter`, `UsbCards` |
| `RoutingDaemon` | the daemon as the routing plugins see it, with handles that are used again |
| `CapiRouting`, `DbusRouting` | the lookup data of the two plugins for routing clients; both work against `RoutingDaemon` |
| `RoutingHandshake` | ready and rundown between the daemon, these plugins and their clients |
| `CommandClients` | a user application that follows the daemon through a command plugin |
| `DbusMessages` | the messages of the two D-Bus plugins, against their introspection files |
| `RoutingClients_proofs` | theorems about `CapiRouting`, `DbusRouting`, `RoutingHandshake` and `CommandClients` |
| `MCRoutingClients` | instances of the last five components |

### `ActionEngine`

The variables are the members of the C++ objects: `status`, `error`, `index`, `children`,
`timeout`, `executionTime` of the actions, `handles` (`CAmHandleStore::mMapHandles`),
`timers` (`CAmTimerEvent::mListClients`), `queue` and `priority` (`CAmTriggerQueue`). An object
that does not exist has the status `FREE`; `delete` gives it back, so a plan can be carried
out any number of times.

The code is recursive: `execute()` of a container calls `execute()` of a child, whose end
calls `update()` of the parent, and so on. The model takes one function activation per step.
`call` says which is next, `result` is the argument of a pending `update()`, and `cont` is
where control goes when the chain of `update()` calls is over. No stack is needed since an
action is called by its parent only, and a chain of notifications only ever climbs. Between
two handlers `call` is `idle`.

| Code | Actions |
|---|---|
| hooks | `RaiseTrigger` |
| `cbAck*` / `notifyAsyncResult` | `Answer`, `UnknownAnswer` |
| `timerCallback`, `CAmActionCommand::timeout` | `Timeout` |
| `CAmActionContainer::execute` | `StartContainer`, `ResumeContainer`, `LoopChildren`, `Executed` |
| `CAmActionCommand::execute` | `StartLeaf`, `ResumeLeaf` |
| `CAmActionContainer::update` | `Update` (`CAmActionCommand::update` is `LeafUpdate`, part of `Answer` and `Timeout`) |
| `CAmActionContainer::undo` | `UndoContainer`, `LoopUndo`, `Undone` |
| `CAmActionCommand::undo` | `UndoLeaf`, `SkipUndoLeaf` |
| `CAmActionContainer::cleanup`, `delete` | `CleanupChild`, `CleanupSelf`, `Delete` |
| `iterateActions`, `dequeue`, `setListActions` | `Executed(Root)`, `Dispatch`, `Return` |

What the concrete actions do is a parameter. `Plans[n]` are the lists of children the
`_execute()` of a container may append before it returns success or an error; a leaf returns
any result, or leaves a request if it is not in `Synchronous`; `PolicyActions[t]` is what the
policies may answer a trigger with; `StateTriggers[n]` are the connection state changes the
container reports with priority. Error codes are numbers as in the code: 0 is `E_OK`, -1 is
`E_WAIT_FOR_CHILD_COMPLETION`, positive ones are failures. Times are abstract units; the time
a container's own `_execute()` needs counts as zero.

Two assumptions about the daemon: an answer is delivered as an event of the loop and never
inside the request it belongs to, and a handle is not given out twice while it waits.

### `MainConnection`

`ActionEngine` decides when `_execute()`, `_update()` and `_undo()` of an action run; this module
says what they do for connections. Each of its actions is an action of the engine together with
the hook the code calls there. The tree is that of the code: a policy's list, `CAmActionConnect`
or `CAmActionDisconnect` below it, below these `CAmMainConnectionActionConnect` and
`...Disconnect` and the volume action, and below those one command for each segment and source.
Which children are appended, and so what is requested of the routing side, follows from
the states that are found when `_execute()` runs.

| Variable | In the code |
|---|---|
| `connection` | the connection state in the daemon's database; `NONE` when there is no connection |
| `transitions`, `dangling` | `mOngoingTransitions`: the actions registered, and whether one of them has been deleted since |
| `segment` | `CAmRouteElement::mState` |
| `source` | the source state in the daemon's database |
| `oldState`, `selected`, `disposable` | `mOldState`, `mListMainConnections`, `mDisposeMainConnection` of the actions |
| `up` | what the routing side has really connected (no variable of the code) |

| Code | Definitions |
|---|---|
| `hookUserConnectionRequest`, `hookUserDisconnectionRequest`, `createMainConnection` | `Request` |
| `CAmActionConnect::_execute`, `_selectConnection`, `_update` | `ConnectExecute`, `ConnectUpdate` |
| `CAmActionDisconnect::_execute`, `_update` | `DisconnectExecute`, `DisconnectUpdate` |
| `CAmMainConnectionActionConnect`: constructor, `_execute`, `_update`, `_undo` | `ConnectBegins`, `Register`, `McConnectExecute`, `McConnectUpdate`, `UndoHook` |
| `CAmMainConnectionActionDisconnect` likewise | `DisconnectBegins`, `McDisconnectExecute`, `TeardownCommands`, `McDisconnectUpdate` |
| `CAmRouteActionConnect`, `CAmRouteActionDisconnect`, `CAmSourceActionSetState` | `LeafExecute`, `LeafUndo`, `LeafAnswer` |
| `updateState`, `permitsDispose`, `disposeConnection` | `StateFromRoute`, `PermitsDispose`, `Dispose` |

A destructor that runs while its action is registered leaves a pointer behind, which is never
compared equal to a living action again unless an address is reused: `Forget` turns it into
`dangling`. The routing side (`Perform`) is external: a successful answer means that the
request has been carried out, a failed or missing one that nothing has changed.

Left out: suspend and push, connects and disconnects that name no source or sink, lists of more
than one action, segments without a domain, volumes (the volume action is one command that may
fail), answers that come after the timeout, and sinks and sources that appear or vanish.

### `AsyncWorkerPool`

An action is what a thread does between two points where another thread can see it: a region
under a mutex, a semaphore operation, a call of the serializer. `main` is what the daemon's
thread is in the middle of: between `startWork()` and the insertion of the handle (`save`), and
between the lookup of a handle and `cancelWork()` (`cancel`). The worker classes differ in what
they do at their end and when they are cancelled, and in which order: `Completion` and
`Cancellation` give that list for each kind of job, and `Do` takes one item of it at a time.
The iterator `asyncAbort()` uses after it has released the mutex may be dangling by then;
reading it gives any thread, or none.

| Code | Actions |
|---|---|
| `async*`, `setDomainState`, `startWork` | `Request`, `SaveHandle` |
| `asyncAbort`, `CAmWorkerThreadPool::cancelWork` | `FindHandle`, `CancelWork` |
| `CAmSerializer` (external) | `Deliver` |
| `CAmWorkerThread`, `start2work`, `timedWait` | `Wake`, `TimedOut`, `Cancelled`, `Do` |
| `finishedWork` | `Finish` |

Left out: the registration worker and the lists it replaces, the volume ticks, an interrupted
`sem_timedwait()`, the destruction of the pool.

### `PolicyEngine`

One step takes a trigger and evaluates all processes; one starts an action, one is an answer. How
a connection comes up is `MainConnection`; here it is a start and an answer that may be an error.

| Code | Definitions |
|---|---|
| `hookUser(Dis)ConnectionRequest` | `UserConnectionRequest`, `UserDisconnectionRequest`, `Hookable` |
| `getActions`, `_evaluateConditionSet`, `_isConditionTrue` | `GetActions`, `WithProcess`, `EvaluateConditionSet`, `IsConditionTrue` |
| the functions of `CAmPolicyFunctions` | `Outputs`, `Fails`, `Compares`, `ConnectionList` |
| `CAmPolicyAction`, `CAmActionConnect`, `...Disconnect`, `...Suspend`: their `_execute()` | `ExecuteActionConnect`, `ExecuteActionDisconnect`, `ExecuteActionSuspend`, `Connects`, `Discards`, `Suspends` |
| `CAmClassElement`: the ordered list | `QueueUpdated`, `Newest`, `Listed` |
| `update`, `undo`, disposal | `ConnectAnswered`, `DisconnectAnswered`, `RollsBack`, `Undone`, `Disposed`, `Complete` |

The configurations are those of `doc/policyhandling.dox`, `configuration_test.xml` and
`generic.xml`: a call that suspends the player, an announcement, and class priorities with
interruption and queueing.

### `Registry`

| Code | Definitions |
|---|---|
| `hookSystemRegister*`, `hookSystemDeregister*` | `RegRegisterDomain`, `RegDeregisterDomain`, `RegRegisterEnd`, `RegDeregisterEnd`, `RegRegisterGateway`, `RegDeregisterGateway`, and what they do after `iterateActions()`: `HookEnds` |
| `CAmPolicyEngine`: implicit actions | `TakeTrigger`, `ActionsFor`, `UsersOf`, `UsersOfDomain`, `Disconnects`, `Registers` |
| `CAmSystemActionRegister` | `ExecuteRegister`, `StaticGateways` |
| `hookUser(Dis)ConnectionRequest`, `createMainConnection` | `RegUserConnects`, `RegUserDisconnects`, `InDatabase` |
| the actions for connections | `ExecuteConnect`, `ExecuteDisconnect`, `RegAnswer` |

A hook changes the daemon's database, queues its trigger and runs `iterateActions()`; when an action
waits for an answer the trigger is evaluated in a later hook.

### `VolumeControl`

| Code | Definitions |
|---|---|
| `CAmActionSetVolume`, `CAmActionLimit`, `CAmActionMute`: `_execute()` | `SetVolume`, `SetElementVolume`, `Limit`, `LimitElement`, `Mute`, `MuteElement` |
| `CAmActionSetVolumeCore` | `Involved`, `Requested`, `Wanted`, `Balanced`, `Calculated`, `Children`, `Start` |
| limits of classes and connections | `LimitState`, `WithLimit`, `AbsoluteLimit`, `Resolved`, `Lowest` |
| `CAmActionSetElementVolume` | `Child`, `AckVolume`, `RefuseVolume`, `AckUndo` |

An action reaches more connections than it addresses: `Involved` are those of `mConnectionMap`, into which
`_setupVolumeMatrix()` puts every connection that shares an element with one that is there. Relative limits act
between all of them, and they take part in the balance as they are. `Requested` is the main volume's change with
its compensation in the offset. `routed` is what the routing side plays; `loosened` (no variable of the code) are the
connections whose offset the code need not keep under their limits, see `LimitHolds`. Left out: ramps and their durations, interrupt states.

### `SoundProperties`

| Code | Definitions |
|---|---|
| `hookUserSetMain{Sink,Source}SoundPropert{y,ies}` | `UserSetSinkProperty`, `UserSetSinkProperties`, `UserSetSourceProperty`, `UserSetSourceProperties`, `Queues`, `Saturated` |
| `iterateActions`, the policy's actions for the trigger | `Iterated`, `AtOnce`, `Noted`, `Started`, `PolicyTargets` |
| `CAmSourceSinkActionSetSoundPropert{y,ies}` | `ExecuteFrom`, `OldValues`, `Ordered`, `SettingAnswered`, `UndoFrom`, `Convertible`, `Settable`, `Unmapped` |
| `cbAckSet*SoundPropert*`, `timeout` | `TakeAnswer`, `Times` |
| `hookSystemUpdate{Sink,Source}`, `upadateDB` | `TakeReport`, `SoundReported`, `MainReported` |
| the routing side (external) | `Answers`, `Reports` |

Which elements a policy sets for a request is the constant `PolicyTargets`, so a request may be several actions that
are undone together. Where `ActionEngine` takes each call of the engine as a step, here a callback is one step:
a flat list of commands. `iterateActions()` takes triggers from the queue until an action waits; the triggers it
takes before leave only writes to the database (`Noted`), so that one definition says where it stops.
The routing side sends answers and reports in the order they arise.

### `Persistence`

| Code | Definitions |
|---|---|
| `CAmClassElement`, `CAmSystemElement`: what is collected | `ClassVolume`, `LinkVolume`, `StoredLinks`, `SetLinkVolume`, `SetSinkVolume`, `SetProperty`, `SetSystemProperty` |
| `setControllerRundown`, `CAmPersistenceDefault::write` | `RundownStores`, `Written`, `WrittenProperties` |
| `read`, `_load` | `Startup`, `ReadVolumes`, `ReadProperties`, `ReadSystem`, `Buffer` |
| domain registration complete, and the timer for it | `DomainComplete`, `DomainTimeout`, `RestoredLinks`, `Restored` (what fails there is remembered in `unrouted`, no variable of the code) |
| a crash (external) | `Crash` |

### `Rundown`, `SimpleController`

`SetControllerRundown` is the hook with the whole of `CAmActionRundown`; `AckTransfer` is
`cbAckTransferConnection()` with `update()` of the container. In `SimpleController` the handlers call one
another, so the controller is one record: the functions `DoStep`, `CallFlow`, `Connect`, `Disconnect`,
`Acked` and `VolumeAcked` give it after a call, `UserConnects`, `UserDisconnects`, `UserSetsVolume`,
`UserMutes`, `UserSetsSound` and `RoutingAnswers` are the handlers; `UserConnectsAgain` is what a second request for a
connection leaves of the first.

### `AdapterThread`, `AlsaAdapter`, `UsbCards`

`AdapterThread` takes one access to `mState` per step, since it is read without the mutex:
the daemon's thread is in `startThread`, `stopThread` or `joinThread` (a table of the states each
waits for), the worker in `InitThread`, `Work`, `Check`, `Stopped`, `Test`, `LoopLeft`, `DeinitThread`. A
thread that calls what the destructor has already destroyed is `Undefined`, and the behaviour ends
there (`Defined`).

| Code | Definitions |
|---|---|
| `asyncConnect`, `asyncDisconnect`, `asyncSetSourceState` | `Connect`, `Disconnect`, `Disconnected`, `SetSourceState`, `SourceStateSet` |
| `asyncSetVolumes` and the single requests | `SetVolumes`, `SetVolumeAtOnce`, `StartFading`, `Fading` |
| `asyncAbort`, `asyncDeleteVolume` | `Abort`, `AbortGoesOn`, `AsyncDeleteVolume`, `VolumeDeleted` |
| `CAmRoutingAdapterALSAVolume`, the proxy | `RampInit`, `RampWorks`, `RampDeinit`, `ProxyWorks`, `Acknowledged` |
| the USB card detector and its database | `EnumerateAndRegister`, `ReceiveData`, `Registered`, `Deregistered`, `Labelled` |

### `RoutingDaemon`, `CapiRouting`, `DbusRouting`, `RoutingHandshake`

| Code | Definitions |
|---|---|
| `CAmRoutingReceiver` as it is used (external) | `RegisterDomain`, `RegisterElement`, `DeregisterDomain`, `DeregisterElement`, `FreeHandle`, `Accepted`, `Refused`, `Answered` |
| `CAmLookupData` | `ProxyBuilt`, `Inserted`, `WithLookup`, `WithoutValue`, `Checked`, `Do` |
| `CAmRoutingService`, `CAmRoutingSenderCAPI` | `CapiRegister*`, `CapiDeregister*`, `StatusEvent`, `CapiConnect`, `CapiDisconnect`, `CapiSetElement`, `CapiForward`, `CapiCrossFade`, `CapiSetVolumes`, `CapiAck`, `CallFails`, `LateAnswer` |
| `CAmRoutingSenderDbus`, `IAmRoutingReceiverShadow` | `DbusRegister*`, `DbusDeregister*`, `DbusConnect`, `DbusDisconnect`, `DbusSetElement`, `DbusTransfer`, `DbusAck`, `DbusLost`, `DbusNotHandled`, `FunctionMap` |
| `setRoutingReady`, `confirmRoutingReady`, `setRoutingRundown`, `confirmRoutingRundown` | `SetReady*`, `ConfirmReady`, `SetRundown*`, `GotRundown`, `ConfirmRundown` |

### `CommandClients`, `DbusMessages`

`CommandClients`: an application asks for a list (`Fetch`, `Handle`, `Reply`), elements come, go and change
(`Appears`, `Disappears`, `Changes`), and `CapiSignal` or `DbusSignal` says which signal goes out under which
name; `Believes` is what the application makes of them.

`DbusMessages` compares two descriptions of the same messages. `RoutingHandlers`, `CommandHandlers`, `Signals`
and `RoutingRequests` are what the code reads, getter by getter, and appends; `AckMethods`, `ElementMethods`,
`RegistrationMethods`, `HookMethods`, `CommandMethods`, `CommandSignals` and `ClientMethods` are the
introspection files. A type is what `dbus_message_iter_get_arg_type()` says, an array has one of `ArraySizes`
entries, and `ReadAll` moves the iterator as the getters do: those that read another type leave it at its place.
`exchange` is the message on the bus, `errorName` is the handler's `mErrorName`.


## 3. What the runs check

Every property is one that a plausible slip in the code would break: `PROJECT.json` names such a slip for
each (the definitions that begin with `Mut`), and TLC finds the property violated with it.

| Run | States | Shows |
|---|---|---|
| `engine` (`ActionEngine.cfg`) | 62,609 | `TypeOK`; handle store and timers know exactly the waiting leaves; nothing is left when the controller goes idle; rollback is complete and in reverse order; `Saga` is implemented; every trigger is handled and every action list ends although the routing side may never answer |
| `connection` (`Connection.cfg`) | 203,304 | two rivals of one class; connects, sources, volumes and the creation may fail or be unavailable: one of a class is active; routes come down whatever went wrong; a disconnect removes the connection; `ConnectionLife` is implemented |
| `connection_shared` (`ConnectionShared.cfg`) | 79,013 | two classes over a shared segment; connects and volumes work, disconnects may fail: what is CONNECTED is in force, and the segment comes down with the last user |
| `connection_live` (`ConnectionLive.cfg`) | 20,479 | every CS_CONNECTING and CS_DISCONNECTING comes to an end |
| `controllers` (`Controllers.cfg`) | 1,123,889 | the policy engine (`CallGoesFirst`, `PlayerResumes`, `ActiveOnTop`), registration (`NoUserLeftBehind`), volumes and limits that bite, through connections of other classes too (`TracksRouting`, `LimitHolds`), persistence over restarts and crashes (`VolumesSurvive`, `ConnectionsComeBack`), main sound properties (`PropertiesAgree`), the rundown (`OneDomainTakesOver`) and the simple controller (`FlowGoesOn`, `OnePlayerLeft`) |
| `pool` (`AsyncWorkerPool.cfg`) | 160,791 | a source state, a connect and a disconnect: a job is answered exactly once, whatever is aborted when; `AsyncService` is implemented |
| `threads` (`Threads.cfg`) | 155,962 | the pool with two volume jobs and a job without a handle (`VolumesMatchAnswers`, `EveryJobIsAnswered`); proxies and ramps of the ALSA adapter (`SilentWhenOff`, `NoThreadLeftBehind`, `OpsAreAlive`, `CallsReturn`); USB cards (`ElementsFollowCards`) |
| `clients` (`RoutingClients.cfg`) | 857,035 | lookups of both routing plugins (`CapiStaysInReach`; `DbusStaysInReach`, for D-Bus clients of an address of their own and for domains that share one), the rundown handshake (`RundownNotEarly`), a user application (`CapiClientsFollow`), all D-Bus messages (`MessagesMatch`) |
| `pool_abort`, `registry_domain`, `sound_reports`, `volume_limits` | | violations, see Findings |

`controllers`, `threads` and `clients` hold several components each. These share no step and no variable:
the variable `part` is chosen in the initial state, the others stay as they are, and a behaviour is one of one
component. `RegistryDomain.cfg` and `SoundReports.cfg` are the same instance as `controllers` with one part (the latter without time-outs),
`VolumeLimits.cfg` is that with the volumes and two of their connections.

### Instances and bounds

`engine`: a policy action with a nested action of finite duration that sets a volume and connects (a container
with two commands), a synchronous command after it, a second policy action, two user triggers and one state
change with priority. That is the shape of `CAmActionConnect`, and it is enough for a failure before, in and
after a nested container, for a timeout at every command, for a rollback that is itself interrupted by waiting,
timeouts or failures, and for triggers that arrive meanwhile. A trigger is not queued twice at a time; answers
that come in time take no time (`Latency`), timers are accepted up to `MaxTimer`.

`connection*`: two connections, rivals of one class and sink, the first over a gateway (two segments and two
sources), or of two classes that share the segment behind the gateway. Two are enough for each rule of the code,
which looks at one other connection at a time (`_selectConnection`, the two `_checkShared*` functions,
`disposeConnection`); two segments are enough for a route that is half set up or half torn down. At most `MaxQueued`
requests of the user wait; timers may fire whenever they run. Which requests may fail is the constant `Errors`,
because some properties hold only as long as some requests do not fail (see Further observations).

`controllers`:
* policy engine: three configurations with two to four connections and `MaxUserRequests` = 4 requests, enough to
  connect two rivals, interrupt both, and end the interruption while something waits;
* registration: four ends in two domains, a gateway, two connections, one over the gateway; `MaxHooks` = 8 calls,
  enough to register everything a connection needs, connect it, and take one thing after another away;
* volumes: three connections to one sink, of one element of its own, of two, and of none, the last of the class of the
  second; limits of -2 absolute and -1 relative under two patterns that overlap, and `MaxActions` = 3: one action
  limits, one makes a linked connection quiet or loud, and the third has to act on what they left, with failures and
  undo. The elements can be turned down to -8, further than any limit asks for;
* sound properties: a sink whose property the policy passes on to a source, and the source by itself; two mapped types
  and one that is not; `MaxPropertyRequests` = 2, so that one waits behind the other, `MaxReports` = 1 report and
  `MaxAborts` = 1 time-out at any point of them;
* persistence: two connections, two classes, two domains, `MaxRuns` = 2 runs with `MaxChanges` = 2 changes each;
* rundown: two domains and two connections, the least for a refusal that is offered on while another offer is open;
* simple controller: two players, one over a gateway, and a navigation source; four handles, two disconnects
  of the user and one volume change at a time. The routing side accepts each request (`CallsAreAccepted`), though it
  may report no change at the ramp up.

`pool`, `threads`: two threads and three jobs are the smallest pool that can be full, where a job can meet the
token meant for the previous one of its thread, and where the first entry of the map of handles need not be the one
that is aborted. Each semaphore holds at most `MaxTokens` cancel tokens. The ALSA adapter has two connections of one
source, each with a proxy, `MaxStates` = 3 changes of its state, and two requests that ramp the same element in
`MaxRounds` = 1 step; two cards are plugged in and out `MaxPlugs` = 6 times in all, enough for one of them to
return twice.

`clients`: two domains with an element each, a crossfader, one connection, two handles: a handle is used again
after its first use, and a domain leaves while a request to the other is under way. Three clients in the handshake, the
least for one to leave while one has answered and one has not. Each of the two domains chooses one of two addresses
when it registers with the D-Bus plugin, its own or that of the other; its client is a process of its own either way,
which does all that one common process could do, and more. One element with two possible data and
`MaxUpdates` = 2 changes for the application. The messages are all that are declared, each with arrays of 0, 1 or 2
entries and, for calls from outside, with the last argument missing; `MaxExchanges` = 2 messages one after the other,
the least for one to suffer from the iterator or the error name the one before has left.

The runs whose configuration says `CHECK_DEADLOCK FALSE` are those where the bounds, or the end of all clients, jobs
and requests, leave nothing to do.

### Fairness

`ActionEngine`: a handler that runs goes on (`WF_vars(Step)`, one thread without blocking
calls), and a timer that is due is served however many events come in between
(`SF_vars(Timeout(l))`, the loop serves the expired timers in each turn). Nothing is assumed of
the routing side or the user.

`MainConnection`: the engine's steps and timers as above (`SF` for some timer that is due), and the
routing side does answer what tears a route down (`SF` for `TeardownAnswer`): these requests are
without a time limit in the run. It may be silent about everything else.

`AsyncWorkerPool`: threads are scheduled and `sem_timedwait()` returns, calls of the plugin
return, and the loop serves the serializer's pipe in each turn (`SF_vars(Deliver)`, strong
because between two turns the daemon may call the plugin again and again).

`AlsaAdapter`: threads are scheduled (`WF` of each thread), and the daemon's thread goes on with what it has
begun and serves its serializers (`WF` of `DaemonThread`); new requests of the daemon are not owed.

## 4. Findings

Each is a run that TLC ends with a counterexample.

1. **`asyncAbort()` cancels somebody else** (`pool_abort`). It checks that the handle is in the map but
   cancels the worker of the map's first entry (`CAmRoutingSenderAsync.cpp:263`).
2. **The users of a domain stay connected** (`registry_domain`). `hookSystemDeregisterDomain()` empties the
   database before the policy engine asks it which connections are to be disconnected
   (`CAmControllerPlugin.cpp:906`, `CAmPolicyEngine.cpp:574`).
3. **Reported sound properties are not kept** (`sound_reports`). `upadateDB()` assigns a reported value to the
   report instead of the list it then writes to the database (`CAmSinkElement.cpp:222`, `CAmSourceElement.cpp:243`); only
   the main sound property follows.
4. **A limited connection gets louder than its limit** (`volume_limits`). When the main volume changes,
   `_compensateMainVolumeChange()` starts from the limit and adds the difference to the actual offset
   (`CAmActionSetVolume.cpp:250`): where the actual offset lies below the limit, the new one ends above it. A connection at
   -1 that is limited to -2, turned up to 0 and back to -1 is at -1, against `include/CAmActionLimit.h:17`.

### Further observations

Defined in the modules and violated, but not the property of a run; or held only because of the constant that is
named. Paths are those of the plugin of the heading.

**Action engine, main connections**

| Property | When it is violated | Why |
|---|---|---|
| `RollbackIsComplete` | `ActionEngine.cfg` with `Latency` > 0: answers that overrun an outer container with a time limit | `undo()` skips a container that is still `AS_EXECUTING` (`CAmActionContainer.cpp:290`) |
| `EveryTriggerIsHandled` | durations above `MaxTimer` | `setTimer()` refuses more than 10 s (`CAmTimerEvent.cpp:107`) and `execute()` ignores that: a missing answer then stops the controller for good |
| `ConnectedMeansInForce` | a shared gateway whose source has a state: `Stateless = {}` in `ConnectionShared.cfg` | `_checkSharedSourceDisconnected()` looks for other segments from the source, not for other users of the same one (`CAmMainConnectionActionDisconnect.cpp:188`) |
| `ConnectedMeansInForce` | connects on shared segments that fail | `CAmRouteActionConnect::_undo()` disconnects whatever is connected (line 90) |
| `DisconnectedIsRemoved` | `Connection.cfg` with disconnects that fail, or are not started since one before failed | `mActionCompleted` is false (`CAmMainConnectionActionDisconnect.cpp:131`): the transition stays registered and the connection CS_DISCONNECTING |
| `NoSegmentLeftUp` | `ConnectionShared.cfg` with volumes that fail | a disconnect spares a segment for a connection that exists but has connected nothing (`CAmMainConnectionActionDisconnect.cpp:166`) |
| `RequestedConnectionExists` | `Connection.cfg` | the disposal after a rollback (`CAmActionConnect.cpp:143`) does not ask `permitsDispose()` |

Not in a property: with a main source without a state a connect ends SUSPENDED with its route in force
(`CAmMainConnectionActionConnect.cpp:136`); the key of a handle is `(type << 10) + number`, so that numbers above 1023
would collide (`CAmHandleStore.cpp:66`).

**Policy engine**

* `state` of a domain is documented in `doc/function_table.dox` but never returns a value (`CAmPolicyFunctions.cpp:1771`),
  and a condition with NE or EXC is false when a function fails.
* A push has no own order: in `generic.xml` a push followed by a connect of the class reconnects the link that was
  pushed, not the one that was asked for. `connectionState` of ACTION_RESUME is ignored. In
  `configuration_test.xml` a new player that is requested during an announcement resumes the suspended one.
* A connect that fails disposes of its connection even if another request for it is queued
  (`CAmActionConnect.cpp:139`); a later connect that names the class finds nothing. A phone call whose connect fails
  leaves the pushed player disconnected.
* A disconnect that fails, or is not started since one before it failed, leaves its transition registered
  (`CAmMainConnectionActionDisconnect.cpp:131`).

**Registry**

* `NoUserLeftBehind` needs a database that refuses to remove what is absent (`AbsentIsOk = FALSE`,
  `CAmElement.h:302`). Gateways after the first that cannot be registered wait, names are searched as parts of
  strings, and registering again returns the old element, which never enters the database.
* `hookSystemRegisterEarlyMainConnection()` assigns to a temporary (`CAmControllerPlugin.cpp:989`), and no policy handles
  its trigger. A trigger of a domain that has gone is evaluated with an invalid element.

**Volumes**

* `MutedIsSilent`: an unmute of one pattern ends the mute of another (`include/CAmActionMute.h`).
* `MainVolumeIsCurrent`: the volume actions leave the main volume of connections they do not name.
* `TracksRouting` needs a routing side that takes back what it has done (`UndoIsRefused = FALSE`); the limits
  themselves are not undone.
* `AbsoluteLimitHolds` is finding 4, and has a second cause: a limit that is set through one of several connections of
  a class does not reach the others. `LimitHolds` sets both aside: it excepts a connection whose main volume was
  changed from an offset below its limit (`loosened`), and the other connections of a class that was limited through one,
  until the next action on the connection. It also sets aside mutes (`MutedIsSilent`), what follows an undo or a
  volume of a single element (`bypassed`), and connections without an element of their own, which nothing can turn down
  (`Adjustable`).

**Persistence**

* `SoundPropertiesSurvive`: `_lastMainSoundPropertyStruct()` cuts the value to its first character
  (`CAmPersistenceDefault.cpp:810`); the sample in `doc/persistence.dox` has the values 10 and 16.
* The output buffer is never cleared in `_structTostring()`; properties of an element that is not there at the
  rundown are lost; the order of connections is lost; a completion after the timeout restores twice. The second
  time finds what the first has created and changes nothing `ConnectionsComeBack` speaks of; nothing else is claimed of it.

**Main sound properties**

* `AskedIsInRange`: the loops of `hookUserSetMain{Sink,Source}SoundProperties()` saturate copies of the values
  (`CAmControllerPlugin.cpp:537`, `632`), against the comment above them; a list goes to the routing side as it is.
* A type that is not mapped to a sound property: the rest of its list is dropped silently, only the property itself is
  written to the database (`CAmSourceSinkActionSetSoundProperties.h:117`), and the request counts as done.
* An undo that is refused, or a request that times out and has been carried out all the same, leaves database and routing
  side apart (`strayed`); `PropertiesAgree` and `ReportsAreKept` are about the other elements.
* Values the routing side reports are not remembered for the next run. `CAmSystemActionSetProperties` asks for an undo
  but has none.

**Rundown, simple controller**

* `RundownCompletes`: only `setControllerRundown()` executes the action, which is no child of the root
  (`CAmControllerPlugin.cpp:308`): after the first answer nobody continues it, against
  `include/CAmActionRundown.h:19`.
* `FlowGoesOn` needs a routing side that does not refuse a request at once (`CallsAreAccepted = TRUE`): the flow takes its
  step whatever `setSinkVolume()` and `setSourceState()` return (`CAmControlSenderBase.cpp:687`, `691`, `703`), and nobody answers then.
  `OnePlayerLeft` holds in the same instance with `CallsAreAccepted = FALSE` too.
* `NoListLeftOver`, `SourceOnAfterRoute` of the simple controller: an answer to another request takes the flow
  further. A second request for navigation finds the step where the first has left it; a mute during a volume change
  restores the old volume; `NAVC_RAMP_DOWN_AGAIN` reads `sinkData` uninitialised; `setControllerRundown(2)` confirms
  twice (`CAmControlSenderBase.cpp:574`).

**Asynchronous routing plugin**

* `DisconnectedIsGone`: the disconnect worker inserts the connection (`CAmRoutingSenderAsync.cpp:1002`), and
  `removeConnectionSafe()` is never called.
* The handle is inserted after the job has been started (lines 324 and 402): a job that is through by then has tried
  to remove it already, and it stays in the map.

**ALSA adapter**

* `EndsByDeinit`: `asyncAbort()` deletes a ramp's object while its thread runs
  (`CAmRoutingAdapterALSASender.cpp:411`); the thread then calls functions that are pure by then, against
  `include/CAmRoutingAdapterThread.h:133`. The other properties speak of behaviours up to there.
* `RemovalIsSurvived`: the removal of a card that has never got an element makes `at()` throw
  (`CAmRoutingAdapterALSADeviceDetector.cpp:239`). `ElementsFollowCards` needs cards that do not come between the
  monitor's start and the enumeration (`EarlyPlugs = FALSE`).
* `OpsAreAlive` needs requests for one volume (`MaxVolumes = 1`): with two, `asyncDeleteVolume()` works on a copy of the
  list and leaves the map as it was until the copy is empty (`CAmRoutingAdapterALSASender.cpp:437`), so an abort meets
  the ramp that was deleted.
* Errors of `initThread()` are ignored, a second connection of a source is not started, the stored volume is the
  target even if the ramp fails, a proxy is leaked when `openStreaming()` fails, and E_ABORTED is never sent.

**Plugins for routing clients**

* `CapiReachesOwner`: `asyncSetVolumes()` sends a list to the owner of its first entry.
* `CapiStaysInReach` and `DbusStaysInReach` need handles that are not given out twice (`HandlesWrap = FALSE`).
* Deregistration of a domain clears the maps of the D-Bus plugin by bus address (`CAmRoutingSenderDbus.cpp:384`), and nothing
  keeps two domains from having one: the one that stays loses its open requests and its connections, which can be
  neither aborted nor disconnected any more. `DbusStaysInReach` says that no other loses any (`orphaned`).
* `RundownConfirmedOnce`: the Common-API plugin confirms at once and again after the last client, where
  `CAmRoutingInterfaceCAPITests.cpp:178` expects one call; `RundownConfirmed`: without domains, or when a client's
  ready arrives during the rundown and raises the count, the D-Bus plugin never confirms.
* `DbusAnswersArrive`: `createMap()` lacks `ackTransferConnection` and `updateGateway`, `updateConverter`,
  `updateSink`, `updateSource`, which `RoutingReceiver.xml` declares (`IAmRoutingReceiverShadow.cpp:1000`).

**D-Bus messages.** `MessagesMatch` holds but for the messages its definitions list:

* `NotInMap`: the methods above, and `registerEarlyConnection`, `registerConverter`, `deregisterConverter`; of the
  command plugin four notification methods that `createMap()` knows by another name.
* `SinksCanLeave`: `deregisterSink` reads a signed 16 bit integer where `RoutingReceiver.xml:122` declares an unsigned one
  (`IAmRoutingReceiverShadow.cpp:502`): it deregisters sink 0 and answers this call and, as the error name is never
  cleared, all later ones with an error.
* `OtherTypes`: signed getters for unsigned arguments (`deregisterSink`, `deregisterSource`,
  `deregisterCrossfader`, four hooks); `registerSink` and `registerSource`, which take the status of a
  notification from the place of its parameter (`CAmDbusMessageHandler.cpp:459`, `534`); list getters that advance
  the outer iterator (line 1085); the replies of `ackSetVolumes`, written to the message before. Of the requests,
  `asyncAbort` and `asyncTransferConnection` have other types than in `RoutingSender.xml`.
* `NeverAnswered`: `sendChangedData`; nor do four of the hooks above send a reply.
* `deregisterDomain` takes the first of its arguments, a handle, for the id of the domain: the types agree.
* An empty array is read as one entry, and a call that could not be read is carried out with default
  values all the same.

**Command plugins**

* `DbusClientsFollow`: `cbSourceUpdated` sends `SinkUpdated` (`CAmCommandSenderDbus.cpp:338`), and the change of a
  main source's notification configuration goes out as that of a sink (line 391).
* `ListsArrive`: after one mismatched request every reply is an error (`CAmDbusMessageHandler.cpp:90`).
* With `EarlyFetch = TRUE` an application that asks before `setCommandReady()` misses the changes until then.

## 5. What is proved

The theorems below hold for every value of the constants that satisfies the assumptions the modules name
(`ErrorAssumption`, `TimeAssumption`, `TreeAssumption`, `TriggerAssumption`, `RouteAssumption`, `ActionAssumption`,
`PoolAssumption`, `AlsaAssumption`, `UsbAssumption`, `RoutingAssumption`, `CapiAssumption`, `AddressAssumption`,
`HandshakeAssumption`, `CommandAssumption`, `RundownAssumption`, `VolumeAssumption`, `PersistenceAssumption`,
`RegistryAssumption`, `SoundPropertyAssumption`, `SimpleAssumption`; TLC evaluates each in the runs of its module). What a theorem needs beyond that stands in
front of it as a hypothesis. Each proof has one lemma or one step for every action, and below it one step
for every part of the invariant the action can disturb; the last step joins them with `PTL`.

| Theorem | States | Hypothesis |
|---|---|---|
| `TypeCorrect` | `TypeOK` of the action engine | |
| `StoresAgree` | `HandlesMatchWaitingLeaves` | |
| `HandlersComplete` | `NothingLeftBehind` | |
| `RollbackCompletes` | `RollbackIsComplete` | containers have no time limit |
| `ConnectionsRunOnEngine` | `MainConnection` implements `ActionEngine` | |
| `ConnectionStoresAgree`, `ConnectionsComplete` | the same of main connections | |
| `ElementsCorrect` | `ElementsOK` of the elements of main connections | |
| `VolumesTracked` | `TracksRouting` | an undo is not refused |
| `VolumesComeBack`, `ConnectionsRestored` | `VolumesSurvive`, `ConnectionsComeBack` (an action property) | |
| `WithdrawnIsUnused` | `NoUserLeftBehind` | the database refuses to remove what is absent |
| `TakenOverOnce` | `OneDomainTakesOver` | |
| `PropertiesMeet` | `PropertiesAgree` | |
| `FlowsGoOn`, `OnePlayerIsLeft` | `FlowGoesOn`, `OnePlayerLeft` of the simple controller | no request is refused at once |
| `PoolTypeCorrect`, `PoolAnswersOnce`, `VolumesAgree` | `TypeOK`, `AnsweredOnce`, `VolumesMatchAnswers` of the pool | |
| `PoolImplementsService` | the pool implements `AsyncService` | each connection has an ID of its own |
| `NoThreadLeft`, `OffIsSilent` | `NoThreadLeftBehind`, `SilentWhenOff` | |
| `ListedObjectsExist` | `OpsAreAlive` | a request changes one volume |
| `CardsAreFollowed` | `ElementsFollowCards` | no card between the monitor's start and the enumeration |
| `CapiKeepsReach` | `CapiStaysInReach` | no handle is given out twice |
| `DbusKeepsReach` | `DbusStaysInReach`, however the domains share their addresses | the same |
| `RundownWaitsForClients` | `RundownNotEarly` | |
| `CapiClientsKeepUp` | `CapiClientsFollow` | lists are fetched when the plugin is ready |

Where a hypothesis is missing the property is false, and section 4 says how TLC breaks it; the exceptions are
`RollbackCompletes`, discussed below, `PoolImplementsService`, whose hypothesis describes the daemon, and
`OnePlayerIsLeft`, which rests on the invariant that makes `FlowGoesOn` true and takes its hypothesis with it.

### Action engine

`TypeOK` is inductive. Its one subtle conjunct is that no container ever has the error
`E_WAIT_FOR_CHILD_COMPLETION`: results below zero never reach an `update()`, which is why the comparison
`result > 0` there is enough to tell failures.

`HandlesMatchWaitingLeaves` is not, since deleting a leaf would leave its handle: `NoDangling` adds that a leaf about
to be deleted does not wait, and that no chain of notifications continues with a deletion.

`NothingLeftBehind` needs `EngineInv`. The difficulty is that a time limit may end an outer container while an inner one
goes on: parts of the tree may be in any state, and their answers start chains of notifications that end in a
container that knows nothing of them. `EngineInv` therefore says nothing about the inside of the tree except
on the way the handler is on. `ChildrenFit`: a child is in the list of its parent, the root has one child at
most; `ControlFits`: the activation that runs next was called by an action in the right state, and an undo by a
chain of containers that are being undone up to the root (a set of containers closed under `Parent`, since a path would
need induction); `ContFits`: the same of what continues after a chain of notifications; `RootFits`: the root agrees with
its only child; and either a leaf waits or the handler goes on (`GoesOn`).

`RollbackIsComplete` speaks of the inside of the tree, and with time limits of containers it needs an argument about
sums of execution times along a branch, which is induction over data; it also fails when answers are late enough
(section 4). The theorem covers containers without time limits (`CAmActionContainer`'s default),
over trees of any depth, with commands that fail or run into their own time limits in both directions.
`RollbackInv` is the conjunction of `Untimed`; `Listed`: exactly the objects that exist are in the list of their
parent, once; `TreeFits`: what the status and the index of a container say of each child, before, at and after the
index; and `CallsFit`: what the next activation may rely on, among it that an object is cleaned up only below
containers that have all reached their end. The run `engine`, which has a container with a time limit, is the
complement: it checks that case with `Latency = 0`.

### Main connections

Each action of `MainConnection` conjoins an action of the engine; only an answer needs an invariant (that the handle it
belongs to is a request). So `ConnectionSpec => Spec`, and what is proved of the engine holds here. `ElementsOK` is
inductive: one lemma for each hook. Beyond the ranges it says that nothing is registered with a connection that does
not exist, which rests on what the constructors of the children register (`RegisterElements`) and on
`disposeConnection()` taking the element with all it knows; and that `updateState()` gives a connection the state of a
segment that exists, which needs the well-ordering of the positions.

### Controllers

* `VolumeInv`: what is heard of every element is what the elements keep (`Tracked`); every child of an action knows the
  volume its element had before (`ChildrenKnow`); and elements the action has not reached, or has undone, are
  unchanged (`Progress`).
* `PersistenceInv`: reading the file gives what the last orderly rundown held (`FileFits`), which is the round trip of
  the format for volumes and connections; what a run holds before the first change is what it has read (`Unchanged`).
* `RegistryInv`: who is in the database has an element (`EndsFit`), who is used has one (`UsersFit`), and a connection
  that uses a withdrawn sink or source is pursued: by a trigger that is queued or a disconnect that is to
  be done (`UsersPursued`).
* `RundownInv`: children before the current one are completed and those after it untouched (`Executed`), an offer is
  one of the current child (`OffersFit`), and what is taken over belongs to a
  completed child and was taken over once (`TakenFit`).
* `SoundInv`, for `PropertiesAgree`, is about what has not arrived yet. `FlightFits`: every request and every answer on
  its way is that of the action under way, or its element has strayed. `Follows`: what is played of an
  element that has not strayed is what the database would have after all messages on their way upwards, in their order
  (`Overwritten`: of a sequence of writes the last one that has the type counts). `LatestFits`: as long as nothing
  was refused, given up or reported, what was asked for last is what the database would have after the
  rest of the action and the queue (`Outcome`). So an answer moves a write from the messages to the database, a trigger
  that starts moves one from the queue to the action, and neither changes the sum. The lemmas on `Overwritten` say
  how such a sequence is cut in two.

### Simple controller

The difficulty is that answers are not told apart: one that belongs to an earlier request takes the flow a step
on before its own request is answered. `SimpleInv` therefore does not say which answer a step waits
for, only that some is due (`Due`), and two where the next step will take one and ask for nothing (`Spare`). With that
go what the lists of open requests hold (`ListsFit`), what a connect or an announcement may rely on at its step
(`ConnectFits`, `AnnouncementFits`), that the flows that are not under way are at their ends (`Rested`), and
`PlayersFit`: of the players only the one that was connected last is not asked to disconnect, with the exception of
the one that the connect under way is about to replace. The functions of the controller call one another; the proof
has one lemma for each function and what it is called with, and the handlers follow.

### Asynchronous routing plugin

`Scheduled` says who owns a job: a busy thread has an accepted one that nobody else works on, a thread that is
not busy is blocked and has not been posted, and an accepted job has a thread. `Accounted` adds that a job is
silent until its thread has been through the "answer" of its list, and has one answer, in the mailbox or
delivered, from then on. `VolumesReported`: the volume in the table is one that a job has reported last. The
refinement is proved step by step: each action of a thread or of the daemon is a step of `AsyncService` or a
stutter. A connect answered with E_OK has to be in the table, so `ConnectsHold` follows it from the "apply" of
its thread. The table has IDs, the abstract service has requests: with two connects of one ID a single insertion
would put two of them in force, which no step of the service does, hence the hypothesis.

### ALSA adapter

`AlsaInv` puts the three parties in relation: what `mState` says of where a thread is (`WorkerFits`), which
states the daemon's thread can meet at each place of `startThread`, `stopThread` and `joinThread` (`CallFits`),
what a request is in the middle of (`RequestFits`), which objects exist (`ObjectsFit`), and that of the proxies
of a source only the first has a thread (`SourcesFit`). `OpsFit` adds, for `OpsAreAlive`, that the list of a
handle holds one living ramp. `CardsInv` of `UsbCards` relates the lists of the detector to one another
(`ListsFit`) and to the queue of events (`EventsFit`): the events of a card alternate, the last one agrees with
what is plugged, an `add` that comes first finds no element, and a card without events has the elements it
should have.

### Plugins for clients

`CapiInv` and `DbusInv` are the property, the ranges and the fact that handles and connections that were never used
are in no map; both stand on `DaemonInv`. That a shared address keeps apart what belongs to each domain rests on
`orphaned` growing with each deregistration by exactly what goes with the address. `HandshakeInv` counts: the domains
still to confirm and the clients that have confirmed are together at least as many as there were domains at the
rundown. `CommandInv` is about the messages on their way: there is a sequence of pictures, one after each message,
that ends in the daemon's list (`WillFollow`).

### Only model-checked

* Liveness and what rests on `ENABLED`: `EveryTriggerIsHandled`, `EveryTransitionEnds` and the like, deadlock freedom.
* `ImplementsSaga` and `ImplementsLife`: their mappings are in the MC modules. `Saga`'s needs the order of the leaves of
  the tree, a recursive operator.
* `OnePerClass`, `RoutesComeDown`, `DisconnectedIsRemoved`, `ConnectedMeansInForce`, `NoSegmentLeftUp` of
  `MainConnection`: they depend on which requests may fail and which segments are shared.
* `LimitHolds`: offsets, sums and new volumes are computed by folds over the elements and connections, whose values need
  induction over data.
* `PolicyEngine`: its properties are about particular configurations.
* `DbusMessages`: it uses RECURSIVE operators.
* `RollbackIsComplete` with time limits of containers.

## 6. Not modelled

* The XML parsers of the generic controller and of the ALSA adapter: data conversion at start-up, without state
  that lives on.
* Of the generic controller: interrupt states, ramps of volumes, the search for routes in the topology, the hooks that
  pass a change on (availability, notifications), policy functions about volumes, properties and notifications.
* Of `MainConnection`: suspend (`PolicyEngine` has it at its coarser grain), requests that name only a class, segments
  without a domain, volumes kept per connection.
* Of the asynchronous plugin: the registration worker, which replaces the tables of sinks and sources with copies it
  took when it was created (`CAmRoutingSenderAsync.cpp:1330`), and the volume ticks.
* Of the routing plugins: early data and notifications, which go through the same maps; the values of D-Bus messages.
* Of the command plugins: the effect of the requests that are passed on unchanged.
* Of the ALSA adapter: PCM and mixer devices, sound properties.

## 7. Plan

What could be proved next, in the order of its weight:

1. `MainConnection`: `OnePerClass`, over the control facts of `EngineInv` and `RollbackInv` carried along
   `ConnectionsRunOnEngine`; then its implementation of `ConnectionLife`, for routes without shared segments.
2. `ActionEngine`: that it implements `Saga`, with the mapping moved out of the MC module and stated without recursion.
3. `VolumeControl`: `LimitHolds`, with the lowest limit characterised instead of folded.
