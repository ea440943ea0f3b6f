-------------------------- MODULE MCExecutorThreads --------------------------
(* A small instance of ExecutorThreads.                                     *)
EXTENDS ExecutorThreads, TLC

CONSTANTS c1, c2, c3, m1, m2, i1

\* Two methods of one interface; the second call of m1 meets the limit of the
\* method, and a third parallel call that of the interface as well.
MCMethodOf == (c1 :> m1) @@ (c2 :> m1) @@ (c3 :> m2)
MCInterfaceOf == (m1 :> i1) @@ (m2 :> i1)
MCMethodLimit == (m1 :> 1) @@ (m2 :> 2)
MCInterfaceLimit == i1 :> 2
=============================================================================
