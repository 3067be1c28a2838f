-------------------------- MODULE MCMiddyRequest --------------------------
(* Small instances of MiddyRequest.                                        *)
EXTENDS MiddyRequest, TLC

\* Stacks of two, so that a loop goes on after its first middleware.
TwoEach == [s \in Stacks |-> 2]

\* An asynchronous after stack: time passes once the handler has answered.
AfterOnly == [before |-> 0, after |-> 1, onError |-> 0]

Symmetry == Permutations(Requests)
============================================================================
