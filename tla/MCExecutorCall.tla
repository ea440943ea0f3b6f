---------------------------- MODULE MCExecutorCall ----------------------------
(* Method configurations for ExecutorCall.                                  *)
EXTENDS ExecutorCall

\* A limit that bites and one that does not.
Limits == {[s \in Streams |-> l] : l \in {1, MaxOut}}

MCAll == [out : {"none", "bytes", "lines"}, err : BOOLEAN,
          stdin : BOOLEAN, timeout : BOOLEAN, limit : Limits]

MCTimed == {c \in MCAll : c.timeout /\ ~ c.stdin}
=============================================================================
