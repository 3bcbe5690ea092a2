----------------------------- MODULE RpcService -----------------------------
(***************************************************************************)
(* What a connection promises its client (spec section 5): the          *)
(* requests on the stream are taken for handling in the order they were   *)
(* sent; each reply reaches the client at most once, for a request taken, *)
(* in any order; once the connection has failed nothing more need happen; *)
(* and the connection ends, with every request taken and answered unless  *)
(* it failed.  A failure is permanent.                                     *)
(***************************************************************************)
EXTENDS Naturals, FiniteSets

CONSTANT NumReqs

Reqs == 1..NumReqs

VARIABLES
    accepted,   \* requests taken for handling: always 1..n for some n
    answered,   \* requests whose reply reached the client
    failed,     \* the connection has failed
    closed      \* the connection has ended

vars == <<accepted, answered, failed, closed>>

Init == accepted = {} /\ answered = {} /\ failed = FALSE /\ closed = FALSE

(* The next request of the stream is taken.                                *)
Accept ==
    /\ ~closed /\ Cardinality(accepted) < NumReqs
    /\ accepted' = 1..(Cardinality(accepted) + 1)
    /\ UNCHANGED <<answered, failed, closed>>

(* Replies to some requests taken reach the client together.               *)
Answer ==
    /\ ~closed
    /\ \E S \in SUBSET (accepted \ answered) :
         S # {} /\ answered' = answered \cup S
    /\ UNCHANGED <<accepted, failed, closed>>

Fail ==
    /\ ~failed /\ failed' = TRUE
    /\ UNCHANGED <<accepted, answered, closed>>

(* The connection ends: after a failure, or once the client's requests     *)
(* have all been taken and answered.                                       *)
Close ==
    /\ ~closed
    /\ failed \/ (accepted = Reqs /\ answered = accepted)
    /\ closed' = TRUE
    /\ UNCHANGED <<accepted, answered, failed>>

Next == Accept \/ Answer \/ Fail \/ Close

Spec == Init /\ [][Next]_vars /\ WF_vars(Accept) /\ WF_vars(Answer) /\ WF_vars(Close)
=============================================================================
