----------------------------- MODULE Np1secRoom -----------------------------
(***************************************************************************)
(* A room of np1sec users (src/src/userstate.cc) over a chat server that  *)
(* delivers every broadcast to every member in one total order (spec §5). *)
(* The server's history is the sequence log; pos[u] is how much of it u   *)
(* has processed.  sess[u] is the set of sessions u holds for the room,   *)
(* by session id (the session map of np1secUserState plus the my_children *)
(* of those sessions), and room[u] is the session the room points to.    *)
(***************************************************************************)
EXTENDS Np1secSession

VARIABLES log, pos, sess, room

vars == << log, pos, sess, room >>

\* u has called join_room for this room
Joined(u) == room[u] \in DOMAIN sess[u]

TypeOK ==
    /\ log \in Seq(Msg)
    /\ pos \in [Users -> 0 .. Len(log)]
    /\ room \in [Users -> Slot]
    /\ DOMAIN sess = Users
    /\ \A u \in Users : /\ DOMAIN sess[u] \subseteq Slot
                        /\ \A t \in DOMAIN sess[u] : sess[u][t] \in SessionRec

\* The founder created the room alone (userstate.cc:51-64 and join() at
\* session.cc:585-607 in an empty room); nobody else has joined yet.
Init ==
    /\ log = << >>
    /\ pos = [u \in Users |-> 0]
    /\ sess = [u \in Users |-> IF u = Founder THEN [t \in {{u}} |-> FounderSession(u)]
                               ELSE [t \in {} |-> FounderSession(u)]]
    /\ room = [u \in Users |-> IF u = Founder THEN {u} ELSE Unset]

(***************************************************************************)
(* join_room (userstate.cc:51-64): a new joiner session in JOIN_REQUESTED *)
(* and the JOIN_REQUEST broadcast.  The joiner's view of the room starts  *)
(* with its own request.                                                  *)
(***************************************************************************)
JoinRoom(u) ==
    /\ ~Joined(u)
    /\ sess' = [sess EXCEPT ![u] = [t \in {Unset} |-> JoinerSession(u)]]
    /\ room' = [room EXCEPT ![u] = Unset]
    /\ pos' = [pos EXCEPT ![u] = Len(log)]
    /\ log' = Append(log, JoinRequest(u))

\* The session a message is handed to (the routing described at
\* userstate.cc:66-89): the session with the message's id if there is a
\* live one, the room's current session otherwise.
Target(u, m) ==
    IF /\ m.type # "JOIN_REQUEST"
       /\ m.sid \in DOMAIN sess[u]
       /\ sess[u][m.sid].st # "DEAD"
    THEN m.sid ELSE room[u]

\* Mutant: the read index advances past the message after the one read.
ReceiveSkip(u) ==
    /\ Joined(u)
    /\ pos[u] < Len(log)
    /\ sess' = sess /\ room' = room /\ log' = log
    /\ pos' = [pos EXCEPT ![u] = @ + 2]

(***************************************************************************)
(* receive_handler (userstate.cc:90-134): u takes the next message of the *)
(* room, the session it is routed to handles it, and what the handler     *)
(* broadcasts is appended to the room's history.  A user does not handle *)
(* its own messages.                                                      *)
(***************************************************************************)
Receive(u) ==
    /\ Joined(u)
    /\ pos[u] < Len(log)
    /\ \E viewOk \in BOOLEAN :
       LET m == log[pos[u] + 1]
           s == Target(u, m)
           r == IF m.from = u THEN Result(sess[u], room[u], << >>)
                ELSE state_handler(u, sess[u], s, m, room[u], viewOk)
       IN  /\ sess' = [sess EXCEPT ![u] = r.ss]
           /\ room' = [room EXCEPT ![u] = r.room]
           /\ log' = log \o r.out
    /\ pos' = [pos EXCEPT ![u] = @ + 1]

Next == \E u \in Users : JoinRoom(u) \/ Receive(u)

\* The server delivers to every member and a client processes what it is
\* delivered: a user that has unread messages eventually reads one.
Spec == Init /\ [][Next]_vars /\ \A u \in Users : WF_vars(Receive(u))

(***************************************************************************)
(* Properties                                                              *)
(***************************************************************************)

\* Authentication soundness (be_authenticated, participant.cc:77-96, as
\* used by auth_and_reshare and confirm_auth_add_update_share_repo): if
\* a user's session counts p as authenticated, then p really broadcast a
\* message for that session carrying a token it computed for that user.
AuthenticationSoundness ==
    \A u \in Users : \A t \in DOMAIN sess[u] : \A p \in sess[u][t].authed \ {u} :
        \E i \in 1 .. Len(log) : /\ log[i].from = p
                                 /\ log[i].sid = t
                                 /\ AuthToken(p, u) \in log[i].tokens

\* A child session in which every participant is authenticated: the
\* joiner's JOINER_AUTH has been accepted.
Complete(rec) == rec.members \subseteq rec.authed

\* Sibling exclusion (kill_all_my_siblings at session.cc:482): two live
\* children of the same session of a user are never both complete, so a
\* user never goes on to derive keys for two competing views of the room.
SiblingExclusion ==
    \A u \in Users : \A t1, t2 \in DOMAIN sess[u] :
        /\ t1 # t2
        /\ sess[u][t1].parent # Unset
        /\ sess[u][t1].parent = sess[u][t2].parent
        /\ sess[u][t1].st # "DEAD" /\ sess[u][t2].st # "DEAD"
        => ~(Complete(sess[u][t1]) /\ Complete(sess[u][t2]))

\* The session the room points to, for a user that has joined.
RoomState(u) == IF Joined(u) THEN sess[u][room[u]].st ELSE "NONE"

\* Two-party join (spec §8 scenario 1): a joiner of the room eventually
\* holds an IN_SESSION session, reached through PARTICIPANT_INFO,
\* JOINER_AUTH and SESSION_CONFIRMATION.
JoinCompletes ==
    \A u \in Users \ {Founder} : Joined(u) ~> (RoomState(u) = "IN_SESSION")

\* JOINER_AUTH is emitted only after the sender of PARTICIPANT_INFO has
\* been authenticated (spec §4.6), so every JOINER_AUTH broadcast carries
\* a session id that an incumbent offered in a PARTICIPANT_INFO.
JoinerAuthForOfferedView ==
    \A i \in 1 .. Len(log) : log[i].type = "JOINER_AUTH" =>
        \E k \in 1 .. i - 1 : /\ log[k].type = "PARTICIPANT_INFO"
                              /\ log[k].sid = log[i].sid

(***************************************************************************)
(* Refinement: the room implements the membership promise of              *)
(* Np1secMembership (its safety part is proved in Np1secMembershipProofs).  A user that has not called join_room is OUTSIDE;   *)
(* otherwise its status is that of the session the room points to, where *)
(* every state on the way to a key counts as JOINING.                     *)
(***************************************************************************)
MemberStatus(u) ==
    IF ~Joined(u) THEN "OUTSIDE"
    ELSE IF RoomState(u) \in {"IN_SESSION", "DEAD"} THEN RoomState(u)
    ELSE "JOINING"

memberStatus == [u \in Users |-> MemberStatus(u)]

Membership == INSTANCE Np1secMembership WITH status <- memberStatus

\* A joiner whose room session is dead eventually holds a live one again:
\* confirm_or_resession's comments say a failed validation ("as US to
\* rejoin", session.cc:391) and a confirmation for another session id
\* ("receiving mismatch sid basically means rejoin", 385, 400-402) make
\* the user join again; spec §3 (a session-id mismatch "triggers
\* re-join") and §7 (a new joiner session can always be created) agree.
DeadJoinerRejoins ==
    \A u \in Users \ {Founder} : (RoomState(u) = "DEAD") ~> (RoomState(u) # "DEAD")
=============================================================================
