------------------------- MODULE PolicyConfigurations -------------------------
(***************************************************************************)
(* The configurations module PolicyEngine is checked with: the processes   *)
(* for connection and disconnection requests of three of the repository's  *)
(* XML files.                                                              *)
(***************************************************************************)
\* A function of a condition, and the conditions the configurations use.
Function(name, category, of, which) == [name |-> name, category |-> category, of |-> of, which |-> which]
Condition(left, operation, right) == [left |-> left, operation |-> operation, right |-> right]
Value(v) == Function("value", "", v, "")
ClassIs(c) == Condition(Function("name", "CLASS", "REQUESTING", ""), "EQ", Value(c))
SourceIs(l) == Condition(Function("name", "SOURCE", "REQUESTING", ""), "EQ", Value(l))
SourceIn(l, s) == Condition(Function("connectionState", "CONNECTIONOFSOURCE", l, ""), "INC", Value(s))
ClassHas(c, which, s) == Condition(Function("connectionState", "CONNECTIONOFCLASS", c, which), "INC", Value(s))
OthersFirst ==
    Condition(Function("priority", "CONNECTIONOFCLASS", "REQUESTING", "OTHERS"), "LT",
              Function("priority", "CONNECTION", "REQUESTING", ""))

Action(type, class, source) ==
    [type |-> type, class |-> class, source |-> source, exact |-> FALSE]
Volume == Action("volume", "", "")
Exactly(type) == [type |-> type, class |-> "", source |-> "REQUESTING", exact |-> TRUE]
OfClass(type) == Action(type, "REQUESTING", "")

Process(conditions, actions) == [conditions |-> conditions, actions |-> actions, break |-> FALSE]
Break(conditions, actions) == [conditions |-> conditions, actions |-> actions, break |-> TRUE]

-----------------------------------------------------------------------------
\* doc/policyhandling.dox
CallConfiguration ==
    [classes |-> <<"BASE", "PHONE">>,
     class |-> [media |-> "BASE", phone |-> "PHONE"], priority |-> [media |-> 1, phone |-> 1],
     processes |->
       [connect |-> <<Process(<<SourceIs("phone"), SourceIn("media", "CONNECTED")>>,
                              <<Action("push", "", "media")>>),
                      Break(<<SourceIs("media"), SourceIn("phone", "CONNECTED")>>,
                            <<Action("push", "", "media")>>),
                      Process(<<>>, <<Volume, Exactly("connect"), Volume>>)>>,
        disconnect |-> <<Process(<<>>, <<Exactly("disconnect")>>),
                         Process(<<SourceIs("phone")>>, <<Action("connect", "", "media")>>)>>]]

\* conf/configuration_test.xml
AnnouncementConfiguration ==
    [classes |-> <<"BASE", "TRAFFIC">>,
     class |-> [media |-> "BASE", radio |-> "BASE", traffic |-> "TRAFFIC"],
     priority |-> [media |-> 1, radio |-> 1, traffic |-> 1],
     processes |->
       [connect |-> <<Process(<<ClassIs("BASE"), ClassHas("REQUESTING", "OTHERS", "CONNECTED")>>,
                              <<Volume, Action("disconnect", "BASE", "")>>),
                      Process(<<ClassIs("TRAFFIC"), ClassHas("BASE", "ALL", "CONNECTED")>>,
                              <<Action("suspend", "BASE", "")>>),
                      Process(<<>>, <<Volume, OfClass("connect"), Volume>>)>>,
        disconnect |-> <<Process(<<>>, <<Volume, Exactly("disconnect"), Volume>>),
                         Process(<<ClassIs("TRAFFIC"), ClassHas("BASE", "ALL", "SUSPENDED")>>,
                                 <<Action("connect", "BASE", "")>>)>>]]

\* conf/generic.xml, the navigation with the higher priority
GenericConfiguration ==
    [classes |-> <<"BASE", "INT", "PHONE">>,
     class |-> [media |-> "BASE", navi |-> "INT", tts |-> "INT", phone |-> "PHONE"],
     priority |-> [media |-> 2, navi |-> 1, tts |-> 2, phone |-> 2],
     processes |->
       [connect |-> <<Process(<<ClassIs("BASE"), ClassHas("REQUESTING", "OTHERS", "CONNECTED")>>,
                              <<Action("disconnect", "BASE", "")>>),
                      Break(<<ClassIs("BASE"), ClassHas("PHONE", "ALL", "CONNECTED")>>,
                            <<Exactly("disconnect")>>),
                      Process(<<ClassIs("BASE"), ClassHas("INT", "ALL", "CONNECTED")>>, <<Volume>>),
                      Process(<<ClassIs("INT"), ClassHas("BASE", "ALL", "CONNECTED")>>, <<Volume>>),
                      Break(<<ClassIs("INT"), ClassHas("REQUESTING", "OTHERS", "CONNECTED"), OthersFirst>>,
                            <<Action("push", "INT", "")>>),
                      Process(<<ClassIs("INT"), ClassHas("REQUESTING", "OTHERS", "CONNECTED")>>,
                              <<Action("push", "INT", "")>>),
                      Break(<<ClassIs("INT"), ClassHas("PHONE", "ALL", "CONNECTED")>>,
                            <<Volume, OfClass("connect")>>),
                      Process(<<ClassIs("PHONE"), ClassHas("BASE", "ALL", "CONNECTED")>>,
                              <<Action("disconnect", "BASE", "")>>),
                      Process(<<ClassIs("PHONE"), ClassHas("INT", "ALL", "CONNECTED")>>, <<Volume>>),
                      Process(<<>>, <<Volume, OfClass("connect"), Volume>>)>>,
        disconnect |-> <<Process(<<>>, <<Exactly("disconnect")>>),
                         Process(<<ClassIs("INT"), ClassHas("BASE", "ALL", "CONNECTED")>>, <<Volume>>),
                         Process(<<ClassIs("INT"), ClassHas("REQUESTING", "OTHERS", "CONNECTED")>>,
                                 <<Action("connect", "INT", "")>>),
                         Process(<<ClassIs("PHONE"), ClassHas("INT", "ALL", "CONNECTED")>>, <<Volume>>)>>]]
MCConfigurations ==
    [call |-> CallConfiguration, announcement |-> AnnouncementConfiguration, generic |-> GenericConfiguration]
=============================================================================
