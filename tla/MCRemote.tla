------------------------------- MODULE MCRemote -------------------------------
(* Small instances of Remote.                                               *)
EXTENDS Remote, TLC

CONSTANTS c1, c2, c3, d1, d2, n1, bad

\* Three Connects and a Disconnect of one name, and a Disconnect of a name that
\* makes no object path. Threads of different names share nothing but the mutex.
MCNameOf == (c1 :> n1) @@ (c2 :> n1) @@ (c3 :> n1)
MCTargetOf == (d1 :> n1) @@ (d2 :> bad)
=============================================================================
