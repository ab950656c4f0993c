------------------------------ MODULE MCThreads ------------------------------
(***************************************************************************)
(* The adapters with threads of their own, with what they have to wait     *)
(* for: the worker pool of the asynchronous plug-in, the streams and the   *)
(* volumes of the ALSA adapter, and its USB cards.  They share no object:  *)
(* a behaviour is about one of them.  Both links of the ALSA adapter are   *)
(* of one source.                                                          *)
(***************************************************************************)
EXTENDS MCAsyncWorkerPool, AlsaAdapter, UsbCards

CONSTANT Parts

VARIABLE part

MCSourceOf == [c \in AConnections |-> "s"]
MCThreads == Proxies \cup Ramps

ThreadsInit ==
    /\ part \in Parts
    /\ Init /\ AlsaInit /\ UsbInit
    /\ part # "cards" => plugged = {}

ThreadsNext ==
    \/ part = "pool" /\ Next /\ UNCHANGED <<alsaVars, usbVars, part>>
    \/ part = "streams" /\ AlsaNext /\ UNCHANGED <<vars, rampVars, usbVars, part>>
    \/ part = "volumes" /\ AlsaNext /\ UNCHANGED <<vars, linkVars, usbVars, part>>
    \/ part = "cards" /\ UsbNext /\ UNCHANGED <<vars, alsaVars, part>>

ThreadsSpec ==
    /\ ThreadsInit /\ [][ThreadsNext]_<<vars, alsaVars, usbVars, part>>
    /\ Fairness /\ AlsaFairness
=============================================================================
