------------------------------ MODULE UsbCards ------------------------------
(***************************************************************************)
(* USB sound cards in the ALSA routing adapter: the device detector learns *)
(* of cards from the monitor of udev and, when the adapter becomes ready,  *)
(* from an enumeration, and registers a source and a sink per card         *)
(* (CAmRoutingAdapterALSADeviceDetector).  Built with WITH_DEVICE_DETECTOR *)
(* and one template per direction in the configuration.                    *)
(***************************************************************************)
EXTENDS Naturals, Sequences, FiniteSets, SequencesExt

CONSTANTS
  Cards,
  Captures,    \* cards with a capture device
  Playbacks,   \* cards with a playback device
  EarlyPlugs,  \* cards may be plugged in after the start and before the enumeration
  MaxPlugs     \* bound on the number of times cards are plugged in or out

ASSUME UsbAssumption ==
  /\ IsFiniteSet(Cards) /\ Captures \cup Playbacks \subseteq Cards
  /\ EarlyPlugs \in BOOLEAN /\ MaxPlugs \in Nat

VARIABLES
  plugged,     \* cards that are there
  events,      \* what the monitor of udev has for the detector
  enumerated,  \* setRoutingReady() has been called
  nameOf,      \* mapCardToSourceName, mapCardToSinkName: the names by card
  listed,      \* lSourceInfo, lSinkInfo of the USB domain: <<card, "id">>, or <<card, "none">>
  elements,  \* elements <<direction, card>> of the daemon
  thrown,      \* an exception nobody catches
  plugs

usbVars == <<plugged, events, enumerated, nameOf, listed, elements, thrown, plugs>>

Directions == {"source", "sink"}
Devices == [source |-> Captures, sink |-> Playbacks]

UsbInit ==
  /\ plugged \in SUBSET Cards
  /\ events = <<>> /\ enumerated = FALSE /\ thrown = FALSE /\ plugs = 0
  /\ nameOf = [d \in Directions |-> [c \in Cards |-> <<>>]]
  /\ listed = [d \in Directions |-> <<>>]
  /\ elements = {}

\* The kernel and udev.
Plug(c) ==
  /\ plugs < MaxPlugs /\ plugs' = plugs + 1
  /\ enumerated \/ EarlyPlugs
  /\ \/ c \notin plugged /\ plugged' = plugged \cup {c} /\ events' = Append(events, <<"add", c>>)
     \/ c \in plugged /\ plugged' = plugged \ {c} /\ events' = Append(events, <<"remove", c>>)
  /\ UNCHANGED <<enumerated, nameOf, listed, elements, thrown>>

\* getAlsaInfo(), registerSource() and registerSink() for the cards of the set: a card
\* that has gone has no label.  The daemon refuses a name it has, and the entry of the
\* list is left without an identifier.
Labelled(d, C) == C \cap plugged \cap Devices[d]

Registered(C) ==
  /\ nameOf' = [d \in Directions |-> [c \in Cards |->
        IF c \in Labelled(d, C) THEN Append(nameOf[d][c], c) ELSE nameOf[d][c]]]
  /\ listed' = [d \in Directions |-> listed[d] \o
        SetToSeq({<<c, IF <<d, c>> \in elements THEN "none" ELSE "id">> : c \in Labelled(d, C)})]
  /\ elements' = elements \cup UNION {{d} \X Labelled(d, C) : d \in Directions}
  /\ UNCHANGED thrown

\* findElement(): the first entry with the name of the card.
Entry(d, c) == SelectInSeq(listed[d], LAMBDA x : x[1] = c)
Found(d, c) == nameOf[d][c] # <<>> /\ Entry(d, c) # 0

WithoutEntry(d, c) == IF Found(d, c) THEN RemoveAt(listed[d], Entry(d, c)) ELSE listed[d]

MutWithoutElementAfterErase(R, d, c) ==
  R \ {<<d, listed[d][i][1]>> : i \in {Entry(d, c) + 1} \cap DOMAIN listed[d]}
WithoutElement(R, d, c) ==
  IF Found(d, c) /\ listed[d][Entry(d, c)][2] = "id" THEN R \ {<<d, c>>} ELSE R

\* deregisterSource(), then deregisterSink(); at() throws where the card has no name.
Deregistered(c) ==
  LET gone == {d \in Directions : nameOf[d][c] # <<>> /\ (d = "sink" => nameOf["source"][c] # <<>>)}
  IN /\ nameOf' = [d \in Directions |-> [nameOf[d] EXCEPT ![c] = <<>>]]
     /\ thrown' = (gone # Directions)
     /\ listed' = [d \in Directions |-> IF d \in gone THEN WithoutEntry(d, c) ELSE listed[d]]
     /\ elements' = LET less == IF "source" \in gone THEN WithoutElement(elements, "source", c)
                                  ELSE elements
                      IN IF "sink" \in gone THEN WithoutElement(less, "sink", c) ELSE less

\* enumerateAndRegister()
EnumerateAndRegister ==
  /\ ~enumerated /\ ~thrown
  /\ enumerated' = TRUE
  /\ Registered(plugged)
  /\ UNCHANGED <<plugged, events, plugs>>

\* manageDetection() and parseSysPath()
ReceiveData ==
  /\ events # <<>> /\ ~thrown
  /\ events' = Tail(events)
  /\ LET c == Head(events)[2] IN
       \/ Head(events)[1] = "add" /\ Registered({c})
       \/ Head(events)[1] = "remove" /\ Deregistered(c)
  /\ UNCHANGED <<plugged, enumerated, plugs>>

UsbNext == EnumerateAndRegister \/ ReceiveData \/ \E c \in Cards : Plug(c)

UsbSpec == UsbInit /\ [][UsbNext]_usbVars

\* "USB soundcards will be dynamic Sources and Sinks" (03_scope.dox): when the detector
\* has seen all events the daemon has the elements of the cards that are there, those of
\* a card that came and went several times among them.
ElementsFollowCards ==
  enumerated /\ events = <<>> /\ ~thrown =>
    elements = UNION {{d} \X (plugged \cap Devices[d]) : d \in Directions}

\* A card that is pulled out does not stop the daemon.  (Violated: the map's at() throws.)
RemovalIsSurvived == ~thrown
=============================================================================
