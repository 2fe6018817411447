------------------------------- MODULE DmaPipe -------------------------------
(***************************************************************************)
(* What an engine with a request register promises its user: requests are    *)
(* carried out one at a time, in the order they were made and as they were    *)
(* made; up to Depth of them are accepted at a time, the one in progress      *)
(* included; each that was accepted is finished.                            *)
(***************************************************************************)
EXTENDS Naturals, Sequences

CONSTANTS Requests, Depth    \* Depth is a positive natural number

VARIABLE pipe    \* the accepted requests, the one in progress first

Init == pipe = <<>>

Accept(x) ==
    /\ Len(pipe) < Depth
    /\ pipe' = Append(pipe, x)

Finish ==
    /\ pipe # <<>>
    /\ pipe' = Tail(pipe)

Next ==
    \/ \E x \in Requests : Accept(x)
    \/ Finish

Spec == Init /\ [][Next]_pipe

FairSpec == Spec /\ WF_pipe(Finish)
=============================================================================
