----------------------- MODULE Np1secMembershipProofs -----------------------
(***************************************************************************)
(* The room refines the safety part of Np1secMembership, for every set of *)
(* users: the refinement mapping memberStatus (Np1secRoom) takes initial  *)
(* states to initial states and every step to a Join, an Accept, a Reject *)
(* or a stutter.  The argument rests on the inductive invariant IInv of   *)
(* Np1secRoomProofs.                                                       *)
(***************************************************************************)
EXTENDS Np1secRoomProofs

\* A joiner's step keeps it joined, and a dead join session stays dead:
\* once confirm_or_resession has set DEAD, state_handler has no case for
\* the session and the routing of receive_handler sends it every message.
LEMMA JoinerReceiveStatus ==
    ASSUME IInv, NEW u \in Users \ {Founder}, Receive(u)
    PROVE  /\ Joined(u)'
           /\ RoomState(u) = "DEAD" => RoomState(u)' = "DEAD"
<1> DEFINE m == log[pos[u] + 1]
           s == Target(u, m)
           r(ok) == IF m.from = u THEN Result(sess[u], room[u], << >>)
                    ELSE state_handler(u, sess[u], s, m, room[u], ok)
<1>0. PICK viewOk \in BOOLEAN :
        /\ sess' = [sess EXCEPT ![u] = r(viewOk).ss]
        /\ room' = [room EXCEPT ![u] = r(viewOk).room]
  BY DEF Receive
<1> DEFINE rv == r(viewOk)
<1>1. /\ m \in Msg /\ MsgInv(m) /\ SsOK(sess[u])
      /\ room[u] \in DOMAIN sess[u]
  <2>1. pos[u] < Len(log) /\ room[u] \in DOMAIN sess[u]
    BY DEF Receive, Joined
  <2>2. pos[u] \in Nat
    BY DEF IInv, TypeOK
  <2>3. m \in Msg /\ MsgInv(m)
    BY <2>1, <2>2 DEF IInv, LogInv, TypeOK
  <2>4. SsOK(sess[u])
    BY TypeOKSs DEF IInv
  <2> QED
    BY <2>1, <2>3, <2>4
<1>2. DOMAIN sess[u] = {room[u]} /\ JoinerRec(u, room[u], sess[u][room[u]])
  BY <1>1 DEF IInv, JoinerInv
<1>3. s = room[u]
  BY <1>2 DEF Target
<1>4. sess'[u] = rv.ss /\ room'[u] = rv.room
  BY <1>0 DEF IInv, TypeOK
<1> HIDE DEF rv, r
<1>5. JoinerResult(u, sess[u], m, rv)
  <2>1. CASE m.from = u
    <3>1. rv = Result(sess[u], room[u], << >>)
      BY <2>1 DEF rv, r
    <3> QED
      BY <1>2, <3>1, JoinerUnchanged
  <2>2. CASE m.from # u
    <3>1. JoinerArgs(u, sess[u], room[u], m)
      BY <1>1, <1>2, <2>2 DEF JoinerArgs
    <3>2. rv = state_handler(u, sess[u], room[u], m, room[u], viewOk)
      BY <1>3, <2>2 DEF rv, r
    <3> QED
      BY <3>1, <3>2, JoinerHandler
  <2> QED
    BY <2>1, <2>2
<1>6. Joined(u)'
  BY <1>4, <1>5 DEF JoinerResult, Joined
<1>7. ASSUME RoomState(u) = "DEAD" PROVE RoomState(u)' = "DEAD"
  <2>1. sess[u][room[u]].st = "DEAD"
    BY <1>1, <1>7 DEF RoomState, Joined
  <2>2. rv = Result(sess[u], room[u], << >>)
    <3>1. CASE m.from = u
      BY <3>1 DEF rv, r
    <3>2. CASE m.from # u
      <4>1. state_handler(u, sess[u], room[u], m, room[u], viewOk)
              = Result(sess[u], room[u], << >>)
        BY <2>1 DEF state_handler
      <4> QED
        BY <1>3, <3>2, <4>1 DEF rv, r
    <3> QED
      BY <3>1, <3>2
  <2> QED
    BY <1>1, <1>4, <1>6, <2>1, <2>2 DEF Result, RoomState, Joined
<1> QED
  BY <1>6, <1>7

\* A user other than u keeps its status across u's step.
LEMMA OthersUnchanged ==
    ASSUME TypeOK, NEW u \in Users,
           sess' = [sess EXCEPT ![u] = sess'[u]], room' = [room EXCEPT ![u] = room'[u]]
    PROVE  \A v \in Users \ {u} : MemberStatus(v)' = MemberStatus(v)
BY DEF TypeOK, MemberStatus, RoomState, Joined

\* The founder's room session is always {Founder} in IN_SESSION.
LEMMA FounderInSession ==
    ASSUME IInv
    PROVE  MemberStatus(Founder) = "IN_SESSION"
BY DEF IInv, FounderInv, MemberStatus, RoomState, Joined, FounderSession

\* A joiner's room session is waiting or dead (the joiner clause of IInv).
LEMMA JoinerStatus ==
    ASSUME IInv, NEW u \in Users \ {Founder}, Joined(u)
    PROVE  /\ RoomState(u) \in {"JOIN_REQUESTED", "DEAD"}
           /\ MemberStatus(u) = IF RoomState(u) = "DEAD" THEN "DEAD" ELSE "JOINING"
BY DEF IInv, JoinerInv, JoinerRec, RoomState, Joined, MemberStatus

(***************************************************************************)
(* Refinement, safety part: in a room of any size, the statuses given by  *)
(* join_room, the join handlers and the room pointer start as             *)
(* Np1secMembership's and change only by its Join, Accept and Reject      *)
(* steps: a user joins once, its request is decided at most once, and the *)
(* founder stays in session.  The fairness conjunct is checked by TLC.    *)
(***************************************************************************)
THEOREM MembershipRefinement ==
    Spec => Membership!Init /\ [][Membership!Next]_memberStatus
<1>1. Init => Membership!Init
  <2> SUFFICES ASSUME Init PROVE Membership!Init
    OBVIOUS
  <2>1. /\ \A v \in Users \ {Founder} : DOMAIN sess[v] = {}
        /\ DOMAIN sess[Founder] = {{Founder}}
        /\ sess[Founder][{Founder}] = FounderSession(Founder)
        /\ room[Founder] = {Founder}
    BY UsersAssumption DEF Init
  <2>2. MemberStatus(Founder) = "IN_SESSION"
    <3>1. Joined(Founder) /\ RoomState(Founder) = "IN_SESSION"
      BY <2>1 DEF RoomState, Joined, FounderSession
    <3> QED
      BY <3>1 DEF MemberStatus
  <2>3. \A v \in Users \ {Founder} : MemberStatus(v) = "OUTSIDE"
    BY <2>1 DEF MemberStatus, Joined
  <2> QED
    BY <2>2, <2>3 DEF Membership!Init, memberStatus
<1>2. IInv /\ IInv' /\ [Next]_vars => [Membership!Next]_memberStatus
  <2> SUFFICES ASSUME IInv, IInv', [Next]_vars
               PROVE  [Membership!Next]_memberStatus
    OBVIOUS
  <2> HIDE DEF MemberStatus
  <2>1. CASE UNCHANGED vars
    BY <2>1 DEF vars, memberStatus, MemberStatus, RoomState, Joined
  <2>2. ASSUME NEW u \in Users, JoinRoom(u) PROVE [Membership!Next]_memberStatus
    <3>1. u # Founder
      BY <2>2, UsersAssumption DEF IInv, FounderInv, JoinRoom, Joined
    <3>2. \A v \in Users \ {u} : MemberStatus(v)' = MemberStatus(v)
      BY <2>2, OthersUnchanged DEF JoinRoom, IInv
    <3>3. MemberStatus(u) = "OUTSIDE"
      BY <2>2 DEF JoinRoom, MemberStatus
    <3>4. MemberStatus(u)' = "JOINING"
      <4>1. sess'[u] = [t \in {Unset} |-> JoinerSession(u)] /\ room'[u] = Unset
        BY <2>2 DEF JoinRoom, IInv, TypeOK
      <4> QED
        BY <4>1 DEF MemberStatus, RoomState, Joined, JoinerSession
    <3>5. Membership!Join(u)
      BY <3>2, <3>3, <3>4 DEF Membership!Join, memberStatus
    <3> QED
      BY <3>1, <3>5 DEF Membership!Next
  <2>3. ASSUME NEW u \in Users, Receive(u) PROVE [Membership!Next]_memberStatus
    <3>1. \A v \in Users \ {u} : MemberStatus(v)' = MemberStatus(v)
      BY <2>3, OthersUnchanged DEF Receive, IInv
    <3>2. CASE u = Founder
      <4>1. MemberStatus(u)' = MemberStatus(u)
        <5>1. MemberStatus(Founder)' = "IN_SESSION"
          BY DEF IInv, FounderInv, MemberStatus, RoomState, Joined, FounderSession
        <5> QED
          BY <3>2, <5>1, FounderInSession
      <4> QED
        BY <3>1, <4>1 DEF memberStatus
    <3>3. CASE u # Founder
      <4>1. Joined(u) /\ Joined(u)'
        BY <2>3, <3>3, JoinerReceiveStatus DEF Receive
      <4>2. /\ MemberStatus(u) = IF RoomState(u) = "DEAD" THEN "DEAD" ELSE "JOINING"
            /\ MemberStatus(u)' = IF RoomState(u)' = "DEAD" THEN "DEAD" ELSE "JOINING"
        <5>1. MemberStatus(u) = IF RoomState(u) = "DEAD" THEN "DEAD" ELSE "JOINING"
          BY <3>3, <4>1, JoinerStatus
        <5>2. MemberStatus(u)' = IF RoomState(u)' = "DEAD" THEN "DEAD" ELSE "JOINING"
          BY <3>3, <4>1 DEF IInv, JoinerInv, JoinerRec, RoomState, Joined, MemberStatus
        <5> QED
          BY <5>1, <5>2
      <4>3. RoomState(u) = "DEAD" => RoomState(u)' = "DEAD"
        BY <2>3, <3>3, JoinerReceiveStatus
      <4>4. CASE MemberStatus(u)' = MemberStatus(u)
        BY <3>1, <4>4 DEF memberStatus
      <4>5. CASE MemberStatus(u)' # MemberStatus(u)
        <5>1. MemberStatus(u) = "JOINING" /\ MemberStatus(u)' = "DEAD"
          BY <4>2, <4>3, <4>5
        <5>2. Membership!Reject(u)
          BY <3>1, <5>1 DEF Membership!Reject, memberStatus
        <5> QED
          BY <3>3, <5>2 DEF Membership!Next
      <4> QED
        BY <4>4, <4>5
    <3> QED
      BY <3>2, <3>3
  <2> QED
    BY <2>1, <2>2, <2>3 DEF Next
<1> QED
  BY <1>1, <1>2, IInvInvariant, PTL DEF Spec
=============================================================================
