------------------------- MODULE MCAsyncWorkerPool -------------------------
(***************************************************************************)
(* Two threads and three jobs, so that the pool can be full.  First: the   *)
(* connect and the disconnect of one connection, and a source state with a *)
(* lower handle.  Second: two volume jobs of one sink, one of which may be *)
(* there already, and a domain state, which has no handle.                 *)
(***************************************************************************)
EXTENDS AsyncWorkerPool, TLC

MCWorkers == {1, 2}

MCJobs == 1 .. 3

ConnectKind == <<"state", "connect", "disconnect">>
ConnectSubject == <<"source", "c", "c">>
ConnectTarget == <<0, 0, 0>>

VolumeKind == <<"volume", "domain", "volume">>
VolumeSubject == <<"sink", "domain", "sink">>
VolumeTarget == <<0, 0, 2>>
=============================================================================
