------------------------------ MODULE MCBackend3 ------------------------------
(* Small instances of Backend3.                                             *)
EXTENDS Backend3, TLC

CONSTANTS c1, c2, c3, b1

\* Two calls of one backend, so that one may outlive the child it was made for
\* and meet the next one, and a call of a backend that is not known.
MCBackendOf == (c1 :> b1) @@ (c2 :> b1) @@ (c3 :> None)
=============================================================================
