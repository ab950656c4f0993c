---------------------------- MODULE DbusMessages ----------------------------
(***************************************************************************)
(* The messages of the D-Bus plug-ins: PluginRoutingInterfaceDbus towards  *)
(* the routing clients, PluginCommandInterfaceDbus towards the user        *)
(* applications.  What a method takes and returns is declared in three     *)
(* introspection files; the clients are generated from them.  The plug-ins *)
(* spell it out a second time, getter by getter and append by append.      *)
(*                                                                         *)
(* A message is the tree of the types of its values; the values themselves *)
(* are left out.  A handler is the list of what it reads, step by step     *)
(* with the moves of its iterators, and of what it appends to its answer.  *)
(* Each plug-in has one message handler for all calls: its error name,     *)
(* once set by a getter, is never cleared.                                 *)
(* libdbus, the bus and the clients are external.                          *)
(***************************************************************************)
EXTENDS Naturals, Sequences, TLC

CONSTANTS
    ArraySizes,   \* lengths of the arrays clients send
    MaxExchanges  \* bound: calls and messages in a behaviour

ASSUME DbusMessagesAssumption == ArraySizes \subseteq Nat /\ MaxExchanges \in Nat

VARIABLES
    mErrorName,  \* plug-in -> a getter of its message handler has failed
    exchange,    \* the last call or message and what became of it
    exchanges

messageVars == <<mErrorName, exchange, exchanges>>

-----------------------------------------------------------------------------
(* Types, and the steps a handler reads a message by *)

Type(t, in) == [t |-> t, in |-> in]

UInt16 == Type("q", <<>>)
Int16 == Type("n", <<>>)
Int32 == Type("i", <<>>)
Text == Type("s", <<>>)
Bool == Type("b", <<>>)
Struct(fields) == Type("r", fields)
ArrayOf(type) == Type("a", <<type>>)
AtEnd == Type("end", <<>>)

\* The messages of a sequence of types: every array gets n elements.
RECURSIVE Filled(_, _)
Filled(types, n) ==
    [k \in 1..Len(types) |->
        IF types[k].t = "a"
        THEN Type("a", [j \in 1..n |-> Filled(types[k].in, n)[1]])
        ELSE Type(types[k].t, Filled(types[k].in, n))]

\* A step: the type it checks, the steps inside, whether the iterator moves on.
Get(type) == [t |-> type.t, in |-> <<>>, next |-> TRUE]
Stay(step) == [step EXCEPT !.next = FALSE]
Recurse(steps) == [t |-> "r", in |-> steps, next |-> TRUE]
Each(step) == [t |-> "a", in |-> <<Stay(step)>>, next |-> TRUE]
AnyType == [t |-> "any", in |-> <<>>, next |-> TRUE]

\* A getter that finds another type than it checks sets the error name and
\* leaves the iterator where it is.  The loops over arrays are do-while: an
\* empty array is read once.
RECURSIVE ReadAll(_, _)
StepReads(step, it) ==
    LET here == IF it.at <= Len(it.args) THEN it.args[it.at] ELSE AtEnd
        fits == step.t \in {here.t, "any"}
        inside == \A k \in 1..(IF step.t = "a" /\ here.in # <<>> THEN Len(here.in) ELSE 1) :
                      ReadAll(step.in, [args |-> here.in, at |-> k, ok |-> TRUE]).ok
    IN  [it EXCEPT !.at = IF fits /\ step.next THEN @ + 1 ELSE @,
                   !.ok = @ /\ fits /\ inside]

ReadAll(steps, it) ==
    IF steps = <<>> THEN it ELSE ReadAll(Tail(steps), StepReads(Head(steps), it))

\* initReceive() is an error of its own when there are no arguments.
ReadsWell(steps, args) ==
    args # <<>> /\ ReadAll(steps, [args |-> args, at |-> 1, ok |-> TRUE]).ok

-----------------------------------------------------------------------------
(* CAmRoutingDbusMessageHandler: getters *)

\* getUInt(), getInt(), getInt32(), getString(), getBool().
GetUInt == Get(UInt16)
GetInt == Get(Int16)
GetInt32 == Get(Int32)
GetString == Get(Text)
GetBool == Get(Bool)

\* The last field of a structure is read without moving on.
Fields(steps) ==
    Recurse([k \in 1..Len(steps) |-> IF k = Len(steps) THEN Stay(steps[k]) ELSE steps[k]])

GetAvailability == Fields(<<GetInt, GetInt>>)

GetDomainData ==
    Fields(<<GetUInt, GetString, GetString, GetString, GetBool, GetBool, GetInt>>)

GetRouteData ==
    <<GetUInt, GetUInt, Each(Fields(<<GetUInt, GetUInt, GetUInt, GetUInt>>))>>

\* The second array is neither checked nor left.
GetEarlyData ==
    <<Each(Fields(<<GetUInt, GetUInt, GetInt>>)),
      Stay(Each(Fields(<<GetUInt, GetUInt, Fields(<<GetInt, GetInt>>)>>)))>>

\* Sinks and sources end alike.  The parameter of a notification
\* configuration is read without moving on, so its status is read from the
\* parameter's place.
GetLists ==
    LET properties == Each(Fields(<<GetInt32, GetInt>>))
        configurations == Each(Recurse(<<GetInt32, Stay(GetInt32), GetInt>>))
    IN  <<properties, Each(GetInt32), properties, configurations, configurations>>

GetSourceData ==
    Fields(<<GetUInt, GetUInt, GetString, GetUInt, GetInt32, GetInt, GetBool,
             Fields(<<GetInt32, GetInt32>>), GetUInt>> \o GetLists)

GetSinkData ==
    Fields(<<GetUInt, GetString, GetUInt, GetInt32, GetInt, GetBool,
             Fields(<<GetInt32, GetInt32>>), GetInt, GetInt>> \o GetLists)

GetFormats == <<Each(GetInt32), Each(GetInt32), Each(GetBool)>>

GetGatewayData ==
    Fields(<<GetUInt, GetString, GetUInt, GetUInt, GetUInt, GetUInt, GetUInt>> \o GetFormats)

GetConverterData ==
    Fields(<<GetUInt, GetString, GetUInt, GetUInt, GetUInt>> \o GetFormats)

GetCrossfaderData ==
    Fields(<<GetUInt, GetString, GetUInt, GetUInt, GetUInt, GetUInt>>)

GetNotificationPayload == Fields(<<GetInt, GetInt>>)

\* getListconnectionFormats(), getListBool(), and the lists of properties,
\* which move another iterator on than the one they read the list with.
GetListConnectionFormats == Each(GetUInt)
GetListBool == Each(GetBool)
GetListProperties == Stay(Each(Fields(<<GetInt, GetInt>>)))

-----------------------------------------------------------------------------
(* IAmRoutingReceiverShadowDbus: the handlers of the calls *)

\* What a handler reads and appends, whether it calls initReceive() and
\* whether it answers at all.
Handler(reads, appends) ==
    [reads |-> reads, appends |-> appends, receives |-> TRUE, answers |-> TRUE]
Silent(reads) == [Handler(reads, <<>>) EXCEPT !.answers = FALSE]
Unread(appends) == [Handler(<<>>, appends) EXCEPT !.receives = FALSE]

ConnectionAcks ==
    [m \in {"ackConnect", "ackDisconnect"} |-> Handler(<<GetUInt, GetUInt, GetUInt>>, <<>>)]

MutVolumeAcks ==
    [m \in {"ackSetSinkVolume", "ackSetSourceVolume"} |->
        Handler(<<GetUInt, GetUInt, GetUInt>>, <<>>)]
    @@ [m \in {"ackSetSourceState"} |-> Handler(<<GetUInt, GetUInt>>, <<>>)]
    @@ [m \in {"ackSinkVolumeTick", "ackSourceVolumeTick"} |->
            Handler(<<GetUInt, GetUInt, GetInt>>, <<>>)]

VolumeAcks ==
    [m \in {"ackSetSinkVolume", "ackSetSourceVolume"} |->
        Handler(<<GetUInt, GetInt, GetUInt>>, <<>>)]
    @@ [m \in {"ackSetSourceState"} |-> Handler(<<GetUInt, GetUInt>>, <<>>)]
    @@ [m \in {"ackSinkVolumeTick", "ackSourceVolumeTick"} |->
            Handler(<<GetUInt, GetUInt, GetInt>>, <<>>)]

PropertyAcks ==
    [m \in {"ackSetSinkSoundProperty", "ackSetSourceSoundProperty",
            "ackSetSinkSoundProperties", "ackSetSourceSoundProperties"} |->
        Handler(<<GetUInt, GetUInt>>, <<>>)]
    @@ [m \in {"ackCrossFading"} |-> Handler(<<GetUInt, GetInt, GetUInt>>, <<>>)]

\* The error is appended as an unsigned integer.
Id == UInt16
Error == UInt16

RegistrationCalls ==
    [registerDomain |-> Handler(<<GetDomainData, GetString, GetString, GetString>>, <<Id, Error>>),
     registerEarlyConnection |-> Handler(<<GetUInt>> \o GetRouteData \o <<GetUInt>>, <<Error>>),
     ackTransferConnection |-> Handler(<<GetUInt, GetUInt>>, <<>>)]

ElementCalls ==
    [registerSource |-> Handler(<<GetSourceData>>, <<Id, Error>>),
     registerSink |-> Handler(<<GetSinkData>>, <<Id, Error>>),
     registerGateway |-> Handler(<<GetGatewayData>>, <<Id, Error>>),
     registerConverter |-> Handler(<<GetConverterData>>, <<Id, Error>>),
     hookDomainRegistrationComplete |-> Handler(<<GetUInt>>, <<>>)]

PeekCalls ==
    [m \in {"peekDomain", "peekSink", "peekSource"} |-> Handler(<<GetString>>, <<Id, Error>>)]
    @@ [m \in {"deregisterDomain", "deregisterGateway", "deregisterConverter"} |->
            Handler(<<GetUInt>>, <<Error>>)]
    @@ [m \in {"deregisterSink", "deregisterSource"} |-> Handler(<<GetInt>>, <<Error>>)]

ClassCalls ==
    [m \in {"peekSourceClassID", "peekSinkClassID"} |-> Handler(<<GetString>>, <<Id, Error>>)]
    @@ [m \in {"getDomainOfSource", "getDomainOfSink"} |-> Handler(<<GetUInt>>, <<Id, Error>>)]
    @@ [registerCrossfader |-> Handler(<<GetCrossfaderData>>, <<Id, Error>>),
        deregisterCrossfader |-> Handler(<<GetInt>>, <<Error>>)]

HookCalls ==
    [m \in {"hookSinkAvailablityStatusChange", "hookSourceAvailablityStatusChange"} |->
        Silent(<<GetInt, GetAvailability>>)]
    @@ [hookInterruptStatusChange |-> Handler(<<GetUInt, GetUInt>>, <<>>),
        hookDomainStateChange |-> Silent(<<GetUInt, GetInt>>),
        hookTimingInformationChanged |-> Silent(<<GetInt, GetInt>>),
        sendChangedData |-> Silent(GetEarlyData)]

ReadyCalls ==
    [m \in {"confirmRoutingReady", "confirmRoutingRundown"} |-> Handler(<<GetUInt>>, <<>>)]
    @@ [getRoutingReadyState |-> Unread(<<Bool>>)]

UpdateCalls ==
    [m \in {"updateGateway", "updateConverter"} |->
        Handler(<<GetInt, GetListConnectionFormats, GetListConnectionFormats, GetListBool>>,
                <<Error>>)]
    @@ [m \in {"updateSink", "updateSource"} |->
            Handler(<<GetInt, GetInt, GetListProperties, GetListConnectionFormats,
                      GetListProperties>>, <<Error>>)]
    @@ [ackSetVolumes |-> Unread(<<Error>>)]

NotificationCalls ==
    [m \in {"ackSinkNotificationConfiguration", "ackSourceNotificationConfiguration"} |->
        Handler(<<GetUInt, GetUInt>>, <<>>)]
    @@ [m \in {"hookSinkNotificationDataChange", "hookSourceNotificationDataChange"} |->
            Handler(<<GetUInt, GetNotificationPayload>>, <<>>)]

\* createMap() leaves out eight of the handlers.
RoutingHandlers ==
    LET all == ConnectionAcks @@ VolumeAcks @@ PropertyAcks @@ RegistrationCalls @@ ElementCalls
               @@ PeekCalls @@ ClassCalls @@ HookCalls @@ ReadyCalls @@ UpdateCalls
               @@ NotificationCalls
    IN  [m \in DOMAIN all \ {"ackTransferConnection", "registerEarlyConnection",
                             "registerConverter", "deregisterConverter", "updateGateway",
                             "updateConverter", "updateSink", "updateSource"} |-> all[m]]

-----------------------------------------------------------------------------
(* The command plug-in: CAmDbusMessageHandler, IAmCommandReceiverShadow *)

\* getProperty() and getNotificationConfiguration() take the fields of the
\* structure without a look at their types.
GetProperty == Recurse(<<AnyType, Stay(AnyType)>>)
GetNotificationConfiguration == Recurse(<<AnyType, AnyType, Stay(AnyType)>>)

\* append() of structures.
SinkType ==
    Struct(<<UInt16, Text, Struct(<<Int16, Int16>>), Int16, Int16, UInt16>>)
SourceType == Struct(<<UInt16, Text, Struct(<<Int16, Int16>>), UInt16>>)
PropertyType == Struct(<<Int16, Int16>>)
MainConnectionType == Struct(<<UInt16, UInt16, UInt16, Int16, Int16>>)
NotificationType == Struct(<<Int16, Int16, Int16>>)

\* append() of lists.
ConnectionList == ArrayOf(MainConnectionType)
SinkList == ArrayOf(SinkType)
SourceList == ArrayOf(SourceType)
PropertyList == ArrayOf(PropertyType)
ClassList == ArrayOf(Struct(<<UInt16, Text, PropertyList>>))
NotificationList == ArrayOf(NotificationType)

\* The result comes first, as a signed integer.
Result == Int16

SettingCalls ==
    [Connect |-> Handler(<<GetUInt, GetUInt>>, <<Result, UInt16>>),
     Disconnect |-> Handler(<<GetUInt>>, <<Result>>),
     SetSystemProperty |-> Handler(<<GetProperty>>, <<Result>>),
     getVolume |-> Handler(<<GetUInt>>, <<Result, Int16>>)]
    @@ [m \in {"SetVolume", "VolumeStep", "SetSinkMuteState"} |->
            Handler(<<GetUInt, GetInt>>, <<Result>>)]
    @@ [m \in {"SetMainSinkSoundProperty", "SetMainSourceSoundProperty"} |->
            Handler(<<GetUInt, GetProperty>>, <<Result>>)]

ListCalls ==
    [GetListMainConnections |-> Unread(<<Result, ConnectionList>>),
     GetListMainSinks |-> Unread(<<Result, SinkList>>),
     GetListMainSources |-> Unread(<<Result, SourceList>>),
     GetListSystemProperties |-> Unread(<<Result, PropertyList>>),
     GetTimingInformation |-> Handler(<<GetUInt>>, <<Result, Int16>>)]
    @@ [m \in {"GetListSourceClasses", "GetListSinkClasses"} |->
            Unread(<<Result, ClassList>>)]
    @@ [m \in {"GetListMainSinkSoundProperties", "GetListMainSourceSoundProperties"} |->
            Handler(<<GetUInt>>, <<Result, PropertyList>>)]

\* createMap() knows these under names of its own.
ConfigurationCalls ==
    [m \in {"getListSinkMainNotificationConfigurations",
            "getListSourceMainNotificationConfigurations"} |->
        Handler(<<GetUInt>>, <<Result, NotificationList>>)]
    @@ [m \in {"setSinkMainNotificationConfiguration",
               "setSourceMainNotificationConfiguration"} |->
            Handler(<<GetUInt, GetNotificationConfiguration>>, <<Result>>)]

CommandHandlers == SettingCalls @@ ListCalls @@ ConfigurationCalls

\* CAmCommandSenderDbus: the callbacks of the daemon, with the name of the
\* signal each sends and what it appends.
Signal(name, appends) == [name |-> name, appends |-> appends]

ElementSignals ==
    [cbNewMainConnection |-> Signal("NewMainConnection", <<MainConnectionType>>),
     cbRemovedMainConnection |-> Signal("RemovedMainConnection", <<UInt16>>),
     cbNewSink |-> Signal("SinkAdded", <<SinkType>>),
     cbRemovedSink |-> Signal("SinkRemoved", <<UInt16>>),
     cbNewSource |-> Signal("SourceAdded", <<SourceType>>),
     cbRemovedSource |-> Signal("SourceRemoved", <<UInt16>>),
     cbNumberOfSinkClassesChanged |-> Signal("NumberOfSinkClassesChanged", <<>>),
     cbNumberOfSourceClassesChanged |-> Signal("NumberOfSourceClassesChanged", <<>>),
     cbMainConnectionStateChanged |-> Signal("MainConnectionStateChanged", <<UInt16, Int16>>)]

PropertySignals ==
    [cbMainSinkSoundPropertyChanged |->
         Signal("MainSinkSoundPropertyChanged", <<UInt16, PropertyType>>),
     cbMainSourceSoundPropertyChanged |->
         Signal("MainSourceSoundPropertyChanged", <<UInt16, PropertyType>>),
     cbSinkAvailabilityChanged |-> Signal("SinkAvailabilityChanged", <<UInt16, PropertyType>>),
     cbSourceAvailabilityChanged |-> Signal("SourceAvailabilityChanged", <<UInt16, PropertyType>>),
     cbVolumeChanged |-> Signal("VolumeChanged", <<UInt16, Int16>>),
     cbSinkMuteStateChanged |-> Signal("SinkMuteStateChanged", <<UInt16, Int16>>),
     cbSystemPropertyChanged |-> Signal("SystemPropertyChanged", <<PropertyType>>),
     cbTimingInformationChanged |-> Signal("TimingInformationChanged", <<UInt16, Int16>>)]

UpdateSignals ==
    [m \in {"cbSinkUpdated", "cbSourceUpdated"} |->
        Signal("SinkUpdated", <<UInt16, UInt16, PropertyList>>)]
    @@ [m \in {"cbMainSinkNotificationConfigurationChanged",
               "cbMainSourceNotificationConfigurationChanged"} |->
            Signal("SinkMainNotificationConfigurationChanged", <<UInt16, NotificationType>>)]
    @@ [cbSinkNotification |-> Signal("SinkNotification", <<UInt16, PropertyType>>),
        cbSourceNotification |-> Signal("SourceNotification", <<UInt16, PropertyType>>)]

Signals == ElementSignals @@ PropertySignals @@ UpdateSignals

-----------------------------------------------------------------------------
(* CAmRoutingSenderDbus and CAmRoutingDbusSend: the daemon calls a client *)

\* What is appended, and the types send() expects in the answer; sendAsync()
\* waits for none.  The route is opened as an array of arrays.
Asks(appends, expects) == [appends |-> appends, expects |-> expects]

RoutingRequests ==
    [m \in {"asyncSetSinkVolume", "asyncSetSourceVolume"} |->
        Asks(<<UInt16, UInt16, Int16, Int16, UInt16>>, <<>>)]
    @@ [m \in {"asyncSetSinkSoundProperties", "asyncSetSourceSoundProperties"} |->
            Asks(<<UInt16, UInt16, PropertyList>>, <<>>)]
    @@ [m \in {"asyncSetSinkSoundProperty", "asyncSetSourceSoundProperty"} |->
            Asks(<<UInt16, UInt16, PropertyType>>, <<>>)]
    @@ [asyncConnect |-> Asks(<<UInt16, UInt16, UInt16, UInt16, Int32>>, <<>>),
        asyncDisconnect |-> Asks(<<UInt16, UInt16>>, <<>>),
        asyncSetSourceState |-> Asks(<<UInt16, UInt16, Int32>>, <<>>),
        asyncTransferConnection |->
            Asks(<<UInt16, UInt16, ArrayOf(ArrayOf(Struct(<<Text, Text>>))), Int32>>, <<>>),
        asyncAbort |-> Asks(<<UInt16>>, <<Int32>>),
        setDomainState |-> Asks(<<UInt16, UInt16>>, <<Int32>>)]

-----------------------------------------------------------------------------
(* The interfaces as declared: RoutingReceiver.xml, CommandInterface.xml,   *)
(* RoutingSender.xml                                                       *)

Method(in, out) == [in |-> in, out |-> out]

AckMethods ==
    [m \in {"ackConnect", "ackDisconnect"} |-> Method(<<UInt16, UInt16, UInt16>>, <<>>)]
    @@ [m \in {"ackSetSinkVolume", "ackSetSourceVolume", "ackCrossFading"} |->
            Method(<<UInt16, Int16, UInt16>>, <<>>)]
    @@ [m \in {"ackSinkVolumeTick", "ackSourceVolumeTick"} |->
            Method(<<UInt16, UInt16, Int16>>, <<>>)]
    @@ [m \in {"ackTransferConnection", "ackSetSourceState", "ackSetSinkSoundProperties",
               "ackSetSinkSoundProperty", "ackSetSourceSoundProperties",
               "ackSetSourceSoundProperty", "ackSinkNotificationConfiguration",
               "ackSourceNotificationConfiguration"} |-> Method(<<UInt16, UInt16>>, <<>>)]
    @@ [ackSetVolumes |->
            Method(<<UInt16, ArrayOf(Struct(<<Int16, UInt16, UInt16, Int16, UInt16>>)), UInt16>>,
                   <<>>)]

ElementMethods ==
    LET properties == ArrayOf(Struct(<<Int32, Int16>>))
        configurations == ArrayOf(Struct(<<Int32, Int32, Int16>>))
        ends == <<properties, ArrayOf(Int32), properties, configurations, configurations>>
        availability == Struct(<<Int32, Int32>>)
        formats == <<ArrayOf(Int32), ArrayOf(Int32), ArrayOf(Bool)>>
        ids(n) == [k \in 1..n |-> UInt16]
    IN  [registerSink |->
             <<UInt16, Text, UInt16, Int32, Int16, Bool, availability, Int16, Int16>> \o ends,
         registerSource |->
             <<UInt16, UInt16, Text, UInt16, Int32, Int16, Bool, availability, UInt16>> \o ends,
         registerGateway |-> <<UInt16, Text>> \o ids(5) \o formats,
         registerConverter |-> <<UInt16, Text>> \o ids(3) \o formats,
         registerCrossfader |-> <<UInt16, Text>> \o ids(4)]

RegistrationMethods ==
    [m \in DOMAIN ElementMethods |-> Method(<<Struct(ElementMethods[m])>>, <<Id, Error>>)]
    @@ [m \in {"peekDomain", "peekSink", "peekSource", "peekSourceClassID", "peekSinkClassID"} |->
            Method(<<Text>>, <<Id, Error>>)]
    @@ [m \in {"getDomainOfSource", "getDomainOfSink"} |-> Method(<<UInt16>>, <<Id, Error>>)]
    @@ [m \in {"deregisterGateway", "deregisterConverter", "deregisterSource",
               "deregisterCrossfader"} |-> Method(<<UInt16>>, <<Error>>)]
    @@ [deregisterSink |-> Method(<<UInt16>>, <<Int32>>),
        deregisterDomain |-> Method(<<UInt16, UInt16, UInt16>>, <<Error>>),
        registerDomain |->
            Method(<<Struct(<<UInt16, Text, Text, Text, Bool, Bool, Int16>>), Text, Text, Text>>,
                   <<Id, Error>>),
        registerEarlyConnection |->
            Method(<<UInt16, UInt16, UInt16, ArrayOf(Struct(<<UInt16, UInt16, UInt16, UInt16>>)),
                     UInt16>>, <<Error>>)]

HookMethods ==
    [m \in {"hookInterruptStatusChange", "hookDomainStateChange"} |->
        Method(<<UInt16, UInt16>>, <<>>)]
    @@ [m \in {"hookDomainRegistrationComplete", "confirmRoutingReady",
               "confirmRoutingRundown"} |-> Method(<<UInt16>>, <<>>)]
    @@ [m \in {"hookSinkAvailablityStatusChange", "hookSourceAvailablityStatusChange",
               "hookSinkNotificationDataChange", "hookSourceNotificationDataChange"} |->
            Method(<<UInt16, PropertyType>>, <<>>)]
    @@ [m \in {"updateGateway", "updateConverter"} |->
            Method(<<UInt16, ArrayOf(Struct(<<UInt16>>)), ArrayOf(Struct(<<UInt16>>)),
                     ArrayOf(Struct(<<Bool>>))>>, <<>>)]
    @@ [m \in {"updateSink", "updateSource"} |->
            Method(<<UInt16, UInt16, PropertyList, ArrayOf(Struct(<<UInt16>>)), PropertyList>>,
                   <<>>)]
    @@ [hookTimingInformationChanged |-> Method(<<UInt16, Int16>>, <<>>),
        sendChangedData |->
            Method(<<ArrayOf(Struct(<<UInt16, UInt16, Int16>>)),
                     ArrayOf(Struct(<<UInt16, UInt16, PropertyType>>))>>, <<>>),
        getRoutingReadyState |-> Method(<<>>, <<Bool>>)]

CommandMethods ==
    [Connect |-> Method(<<UInt16, UInt16>>, <<Int16, UInt16>>),
     Disconnect |-> Method(<<UInt16>>, <<Int16>>),
     SetSystemProperty |-> Method(<<PropertyType>>, <<Int16>>),
     GetListMainConnections |-> Method(<<>>, <<Int16, ConnectionList>>),
     GetListMainSinks |-> Method(<<>>, <<Int16, SinkList>>),
     GetListMainSources |-> Method(<<>>, <<Int16, SourceList>>),
     GetListSystemProperties |-> Method(<<>>, <<Int16, PropertyList>>)]
    @@ [m \in {"SetVolume", "VolumeStep", "SetSinkMuteState"} |->
            Method(<<UInt16, Int16>>, <<Int16>>)]
    @@ [m \in {"SetMainSinkSoundProperty", "SetMainSourceSoundProperty"} |->
            Method(<<UInt16, PropertyType>>, <<Int16>>)]
    @@ [m \in {"getVolume", "GetTimingInformation"} |-> Method(<<UInt16>>, <<Int16, Int16>>)]
    @@ [m \in {"GetListMainSinkSoundProperties", "GetListMainSourceSoundProperties"} |->
            Method(<<UInt16>>, <<Int16, PropertyList>>)]
    @@ [m \in {"GetListSourceClasses", "GetListSinkClasses"} |-> Method(<<>>, <<Int16, ClassList>>)]
    @@ [m \in {"GetListSinkMainNotificationConfigurations",
               "GetListSourceMainNotificationConfigurations"} |->
            Method(<<UInt16>>, <<Int16, NotificationList>>)]
    @@ [m \in {"setMainSinkNotificationConfiguration", "setMainSourceNotificationConfiguration"} |->
            Method(<<UInt16, NotificationType>>, <<Int16>>)]

CommandSignals ==
    [m \in {"RemovedMainConnection", "SinkRemoved", "SourceRemoved"} |-> <<UInt16>>]
    @@ [m \in {"NumberOfSinkClassesChanged", "NumberOfSourceClassesChanged"} |-> <<>>]
    @@ [m \in {"MainConnectionStateChanged", "VolumeChanged", "SinkMuteStateChanged",
               "TimingInformationChanged"} |-> <<UInt16, Int16>>]
    @@ [m \in {"MainSinkSoundPropertyChanged", "MainSourceSoundPropertyChanged",
               "SinkAvailabilityChanged", "SourceAvailabilityChanged", "SinkNotification",
               "SourceNotification"} |-> <<UInt16, PropertyType>>]
    @@ [m \in {"SinkUpdated", "SourceUpdated"} |-> <<UInt16, UInt16, PropertyList>>]
    @@ [m \in {"SinkMainNotificationConfigurationChanged",
               "SourceMainNotificationConfigurationChanged"} |-> <<UInt16, NotificationType>>]
    @@ [NewMainConnection |-> <<MainConnectionType>>,
        SinkAdded |-> <<SinkType>>,
        SourceAdded |-> <<SourceType>>,
        SystemPropertyChanged |-> <<PropertyType>>]

ClientMethods ==
    [m \in {"asyncSetSinkVolume", "asyncSetSourceVolume"} |->
        Method(<<UInt16, UInt16, Int16, Int16, UInt16>>, <<>>)]
    @@ [m \in {"asyncSetSinkSoundProperties", "asyncSetSourceSoundProperties"} |->
            Method(<<UInt16, UInt16, PropertyList>>, <<>>)]
    @@ [m \in {"asyncSetSinkSoundProperty", "asyncSetSourceSoundProperty"} |->
            Method(<<UInt16, UInt16, PropertyType>>, <<>>)]
    @@ [asyncAbort |-> Method(<<UInt16>>, <<Int16>>),
        asyncConnect |-> Method(<<UInt16, UInt16, UInt16, UInt16, Int32>>, <<>>),
        asyncDisconnect |-> Method(<<UInt16, UInt16>>, <<>>),
        asyncSetSourceState |-> Method(<<UInt16, UInt16, Int32>>, <<>>),
        asyncTransferConnection |->
            Method(<<UInt16, UInt16, ArrayOf(Struct(<<Text, Text>>)), UInt16>>, <<>>),
        setDomainState |-> Method(<<UInt16, UInt16>>, <<Int32>>)]

Declared ==
    [routing |-> AckMethods @@ RegistrationMethods @@ HookMethods, command |-> CommandMethods]
Handlers == [routing |-> RoutingHandlers, command |-> CommandHandlers]

-----------------------------------------------------------------------------
(* Calls, answers, signals                                                 *)

NoExchange == [what |-> "none"]

MessagesInit ==
    /\ mErrorName = [side \in DOMAIN Handlers |-> FALSE]
    /\ exchange = NoExchange
    /\ exchanges = 0

\* receiveCallbackDelegate(): what has no entry in the map is left to libdbus,
\* which tells the client that the method is unknown.  The daemon is called
\* with what has been read, misread or not.  sendMessage() answers with an error
\* as soon as the error name is set; a handler that never calls initReceive()
\* has no message to send the error to.
Call(side, m, args, n) ==
    LET handler == Handlers[side][m]
        misread == handler.receives /\ ~ReadsWell(handler.reads, args)
        failed == mErrorName[side] \/ misread
        answer == IF ~handler.answers \/ (failed /\ ~handler.receives) THEN "none"
                  ELSE IF failed THEN "error" ELSE "values"
        mapped == m \in DOMAIN Handlers[side]
    IN  /\ mErrorName' = IF mapped THEN [mErrorName EXCEPT ![side] = failed] ELSE mErrorName
        /\ exchange' =
               [what |-> "call", side |-> side, method |-> m, n |-> n,
                declared |-> args = Filled(Declared[side][m].in, n),
                understood |-> mapped /\ ~misread,
                answer |-> IF mapped THEN answer ELSE "unknown",
                values |-> IF mapped THEN handler.appends ELSE <<>>]

\* A client calls a method as it is declared ...
DeclaredCall ==
    \E side \in DOMAIN Declared, n \in ArraySizes : \E m \in DOMAIN Declared[side] :
        Call(side, m, Filled(Declared[side][m].in, n), n)

\* ... or leaves its last argument out.
ShortCall ==
    \E side \in DOMAIN Declared : \E m \in DOMAIN Declared[side] :
        LET in == Declared[side][m].in
        IN  in # <<>> /\ Call(side, m, Filled(SubSeq(in, 1, Len(in) - 1), 1), 1)

\* A callback of the daemon becomes a signal: its message handler is another.
SendSignal ==
    /\ \E cb \in DOMAIN Signals :
           exchange' = [what |-> "signal", signal |-> Signals[cb].name,
                        values |-> Signals[cb].appends]
    /\ UNCHANGED mErrorName

\* A request of the daemon becomes a call of a client.
SendRequest ==
    /\ \E m \in DOMAIN RoutingRequests :
           exchange' = [what |-> "request", method |-> m, values |-> RoutingRequests[m].appends,
                        expects |-> RoutingRequests[m].expects]
    /\ UNCHANGED mErrorName

MessagesNext ==
    /\ exchanges < MaxExchanges
    /\ exchanges' = exchanges + 1
    /\ (DeclaredCall \/ ShortCall \/ SendSignal \/ SendRequest)

-----------------------------------------------------------------------------
(* Properties                                                              *)

\* Where plug-in and declaration are known to disagree: not in the plug-in's
\* map; read as another type, or past the place; answered by another type or
\* not at all.
NotInMap ==
    {"ackTransferConnection", "registerEarlyConnection", "registerConverter",
     "deregisterConverter", "updateGateway", "updateConverter", "updateSink", "updateSource",
     "GetListSinkMainNotificationConfigurations", "GetListSourceMainNotificationConfigurations",
     "setMainSinkNotificationConfiguration", "setMainSourceNotificationConfiguration"}
OtherTypes ==
    {"deregisterSink", "deregisterSource", "deregisterCrossfader", "registerSink",
     "registerSource", "hookSinkAvailablityStatusChange", "hookSourceAvailablityStatusChange",
     "hookDomainStateChange", "hookTimingInformationChanged", "ackSetVolumes"}
NeverAnswered ==
    {"sendChangedData"}

HasArray(types) ==
    \E k \in 1..Len(types) :
        \/ types[k].t = "a"
        \/ types[k].t = "r" /\ \E j \in 1..Len(types[k].in) : types[k].in[j].t = "a"

\* The call at hand was understood, and answered as declared unless an earlier
\* one has left the error name set.
AsDeclared ==
    /\ exchange.understood
    /\ exchange.answer = "values" => exchange.values = Declared[exchange.side][exchange.method].out
    /\ exchange.answer = "none" => mErrorName[exchange.side]

\* Every call a client makes as it is declared is understood by the plug-in and
\* answered with the declared values, but for those above and for empty arrays;
\* signals and requests have the types declared for them, but for two requests.
MessagesMatch ==
    /\ exchange.what = "call" =>
           \/ ~exchange.declared
           \/ exchange.method \in NotInMap \cup OtherTypes \cup NeverAnswered
           \/ exchange.n = 0 /\ HasArray(Declared[exchange.side][exchange.method].in)
           \/ AsDeclared
    /\ exchange.what = "signal" =>
           /\ exchange.signal \in DOMAIN CommandSignals
           /\ exchange.values = CommandSignals[exchange.signal]
    /\ exchange.what = "request" =>
           \/ exchange.method \in {"asyncAbort", "asyncTransferConnection"}
           \/ Method(exchange.values, exchange.expects) = ClientMethods[exchange.method]

\* A client leaves with a sink by its id: "<arg name="sinkID" type="q"
\* direction="in" />" (RoutingReceiver.xml:122).  Violated: deregisterSink()
\* reads a signed integer, takes the id for 0, and answers this and every later
\* call with an error; deregisterSource() and deregisterCrossfader() do the same.
SinksCanLeave ==
    exchange.what = "call" /\ exchange.declared /\ exchange.method = "deregisterSink"
        => exchange.understood
=============================================================================
