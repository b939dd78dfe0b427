-------------------------- MODULE Np1secMembership --------------------------
(***************************************************************************)
(* What the join protocol promises each user of a room (spec §4.1-4.6,    *)
(* §8 scenario 1), with the messages left out: the founder is in session  *)
(* from the start; any other user may ask to join once, and its request   *)
(* then ends either with the user in session or with its join session     *)
(* dead.  A user in session stays in session; a user whose join session   *)
(* died asks to join again ("receiving mismatch sid basically means        *)
(* rejoin", "as US to rejoin": the comments of confirm_or_resession,       *)
(* session.cc:385, 391, 400-402).                                         *)
(***************************************************************************)
CONSTANTS Users, Founder

VARIABLE status

Status == {"OUTSIDE", "JOINING", "IN_SESSION", "DEAD"}

TypeOK == status \in [Users -> Status]

Init == status = [u \in Users |-> IF u = Founder THEN "IN_SESSION" ELSE "OUTSIDE"]

\* join_room: the user broadcasts its JOIN_REQUEST.
Join(u) ==
    /\ status[u] = "OUTSIDE"
    /\ status' = [status EXCEPT ![u] = "JOINING"]

\* The request succeeds: the user holds the group key of the new session.
Accept(u) ==
    /\ status[u] = "JOINING"
    /\ status' = [status EXCEPT ![u] = "IN_SESSION"]

\* The request fails: the user's join session is dead.
Reject(u) ==
    /\ status[u] = "JOINING"
    /\ status' = [status EXCEPT ![u] = "DEAD"]

\* The user's join session died: it sends a new join request.
Rejoin(u) ==
    /\ status[u] = "DEAD"
    /\ status' = [status EXCEPT ![u] = "JOINING"]

Next == \E u \in Users \ {Founder} : Join(u) \/ Accept(u) \/ Reject(u) \/ Rejoin(u)

\* A request is eventually decided one way or the other, and a user whose
\* join session died eventually asks again.
Spec == Init /\ [][Next]_status
             /\ \A u \in Users \ {Founder} :
                    WF_status(Accept(u) \/ Reject(u)) /\ WF_status(Rejoin(u))
=============================================================================
