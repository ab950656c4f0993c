--------------------------- MODULE ConnectionLife ---------------------------
(***************************************************************************)
(* What a main connection promises its users.  Segments are connected for  *)
(* a connection that is being set up, and disconnected for one that is     *)
(* being torn down and never from under an established one.  A connection  *)
(* is only called CONNECTED when its whole route is in force, and is only  *)
(* taken out of the database when nothing of it is left behind.            *)
(***************************************************************************)
EXTENDS Sequences, SequencesExt

CONSTANTS Connections, Route

VARIABLES
    state,     \* the connection state the daemon shows
    inForce    \* the segments the routing side has connected

lifeVars == <<state, inForce>>

RouteOf(m) == ToSet(Route[m])
To(m, c) == state' = [state EXCEPT ![m] = c]

LifeInit == state = [m \in Connections |-> "NONE"] /\ inForce = {}

Create(m) == state[m] = "NONE" /\ To(m, "UNKNOWN") /\ UNCHANGED inForce

SetUp(m) == /\ state[m] \in {"NONE", "UNKNOWN", "DISCONNECTED", "DISCONNECTING", "SUSPENDED"}
            /\ To(m, "CONNECTING")
            /\ UNCHANGED inForce

Establish(m, c) == /\ state[m] = "CONNECTING"
                   /\ c = "CONNECTED" => RouteOf(m) \subseteq inForce
                   /\ To(m, c)
                   /\ UNCHANGED inForce

TearDown(m) == /\ state[m] # "DISCONNECTING"
               /\ To(m, "DISCONNECTING")
               /\ UNCHANGED inForce

\* A suspended connection is preferred to one that has just been created in its place.
Replace(m, k) == /\ state[m] = "SUSPENDED" /\ state[k] = "UNKNOWN"
                 /\ state' = [state EXCEPT ![m] = "CONNECTING", ![k] = "DISCONNECTING"]
                 /\ UNCHANGED inForce

TornDown(m) == state[m] = "DISCONNECTING" /\ To(m, "DISCONNECTED") /\ UNCHANGED inForce

\* What of its route is still in force is used by another connection.
Leave(m) ==
    /\ state[m] \in {"CONNECTING", "DISCONNECTING", "DISCONNECTED"}
    /\ \A r \in RouteOf(m) \cap inForce :
          \E k \in Connections \ {m} : state[k] # "NONE" /\ r \in RouteOf(k)
    /\ To(m, "NONE")
    /\ UNCHANGED inForce

ConnectSegment(r) ==
    /\ \E m \in Connections : state[m] = "CONNECTING" /\ r \in RouteOf(m)
    /\ inForce' = inForce \cup {r}
    /\ UNCHANGED state

DisconnectSegment(r) ==
    /\ r \in inForce
    /\ \E m \in Connections : state[m] = "DISCONNECTING" /\ r \in RouteOf(m)
    /\ ~\E m \in Connections : state[m] \in {"CONNECTED", "SUSPENDED"} /\ r \in RouteOf(m)
    /\ inForce' = inForce \ {r}
    /\ UNCHANGED state

LifeNext ==
    \/ \E m \in Connections :
          \/ Create(m) \/ SetUp(m) \/ TearDown(m) \/ TornDown(m) \/ Leave(m)
          \/ \E c \in {"CONNECTED", "SUSPENDED"} : Establish(m, c)
          \/ \E k \in Connections : Replace(m, k)
    \/ \E r \in UNION {RouteOf(m) : m \in Connections} :
          ConnectSegment(r) \/ DisconnectSegment(r)

LifeSpec == LifeInit /\ [][LifeNext]_lifeVars
=============================================================================
