---------------------------- MODULE Np1secSession ----------------------------
(***************************************************************************)
(* One np1secSession object (src/src/session.cc) and its handlers, as     *)
(* operators on the map of sessions one user holds for the room.          *)
(*                                                                         *)
(* Data abstraction.  A session id (compute_session_id, session.cc:134)   *)
(* is a hash over the participants and their ephemeral keys; every user   *)
(* joins at most once, so ephemeral keys are fixed and the id is          *)
(* represented by the set of participants it was computed over.  The     *)
(* empty set stands for "session_id_is_set is false": no computed id is   *)
(* empty (compute_session_id fails on an empty participant list).         *)
(*                                                                         *)
(* A key share (group_enc) is the pair <owner, session id>; a group key   *)
(* (group_dec) is the set of shares it was derived from.  An auth token   *)
(* Hash(p2p_key || id) is the pair <author, recipient>: p2p_key is known  *)
(* to both ends only, and the recipient's id is the suffix                *)
(* (Participant::authenticate_to, participant.cc:108).                    *)
(*                                                                         *)
(* The handlers below take the session map ss of the user u, the slot s   *)
(* of the session the message is routed to and the message m, and return *)
(* the new session map, the new room pointer and the messages broadcast. *)
(***************************************************************************)
EXTENDS Naturals, Sequences, FiniteSets

CONSTANTS
    Users,      \* nicknames of the room's members
    Founder     \* the member who joined the empty room

ASSUME UsersAssumption == IsFiniteSet(Users) /\ Founder \in Users

Slot == SUBSET Users          \* a session id, or {} for an id not yet set
Unset == {}

\* np1secSession::my_state values (session.cc:290-316)
States == {"NONE", "JOIN_REQUESTED", "REPLIED_TO_NEW_JOIN", "RE_SHARED",
           "GROUP_KEY_GENERATED", "IN_SESSION", "UPDATED_KEY",
           "LEAVE_REQUESTED", "FAREWELLED", "DEAD"}

MsgTypes == {"JOIN_REQUEST", "PARTICIPANT_INFO", "JOINER_AUTH",
             "SESSION_CONFIRMATION"}

ShareVal == [owner : Users, sid : Slot]
Token    == [from : Users, to : Users]
Conf     == [key : SUBSET ShareVal, who : Users]

\* Every message carries every field; a field the type does not use is {}.
Msg == [type : MsgTypes, from : Users, sid : Slot, view : SUBSET Users,
        tokens : SUBSET Token, share : SUBSET ShareVal, conf : SUBSET Conf]

\* A session's state: my_state, the keys of the participants map, the
\* participants whose authenticated flag is set, the cur_keyshare values
\* held, confirmed_peers, the derived group key and my_parent.
SessionRec == [st : States, members : SUBSET Users, authed : SUBSET Users,
               shares : SUBSET ShareVal, confirmed : SUBSET Users,
               key : SUBSET ShareVal, parent : Slot]

Mk(type, from, sid, view, tokens, share, conf) ==
    [type |-> type, from |-> from, sid |-> sid, view |-> view,
     tokens |-> tokens, share |-> share, conf |-> conf]

JoinRequest(j) == Mk("JOIN_REQUEST", j, Unset, {}, {}, {}, {})

(***************************************************************************)
(* Helpers of the session                                                  *)
(***************************************************************************)

\* group_enc: the local user's share for session sid
GroupEnc(u, sid) == [owner |-> u, sid |-> sid]

\* Participant::set_key_share: the share held for p becomes v (a set of at
\* most one share, the one the message carried)
SetKeyShare(shares, p, v) == {x \in shares : x.owner # p} \cup v

\* Mutant: a token is accepted whoever it was computed for.
AuthenticateAnyToken(m, u) == m.tokens # {}

\* Participant::be_authenticated: recompute Hash(p2p_key || my_id) and
\* compare it with the token the sender put in the message for u
Authenticate(m, u) == [from |-> m.from, to |-> u] \in m.tokens

\* Participant::authenticate_to: the token u computes for peer p
AuthToken(u, p) == [from |-> u, to |-> p]

Contributed(rec, p) == \E x \in rec.shares : x.owner = p

everybody_authenticated_and_contributed(rec) ==
    \A p \in rec.members : p \in rec.authed /\ Contributed(rec, p)

everybody_confirmed(rec) == rec.members \subseteq rec.confirmed

\* group_dec: the key is derived from the shares held for the members
GroupDec(rec) == {x \in rec.shares : x.owner \in rec.members}

\* validate_session_confirmation: the confirmation is Hash(key || sender),
\* which matches only if this session holds the same key
ValidateSessionConfirmation(rec, m) ==
    /\ rec.key # {}
    /\ m.conf = {[key |-> rec.key, who |-> m.from]}

\* kill_all_my_siblings: every other child of my parent goes DEAD
KillAllMySiblings(ss, s) ==
    [t \in DOMAIN ss |->
        IF t # s /\ ss[s].parent # Unset /\ ss[t].parent = ss[s].parent
        THEN [ss[t] EXCEPT !.st = "DEAD"] ELSE ss[t]]

\* Replace (or add) the session at slot t.
Put(ss, t, rec) == [x \in DOMAIN ss \cup {t} |-> IF x = t THEN rec ELSE ss[x]]

Result(ss, room, out) == [ss |-> ss, room |-> room, out |-> out]

(***************************************************************************)
(* The founder's session after join() in an empty room, and the joiner's  *)
(* session after join_room() and join() (userstate.cc:51-64,              *)
(* session.cc:62-65, 585-607).  The participant map holds the user alone; *)
(* the comment at session.cc:592 calls this entry authenticated.          *)
(***************************************************************************)
FounderSession(u) ==
    [st |-> "IN_SESSION", members |-> {u}, authed |-> {u}, shares |-> {},
     confirmed |-> {}, key |-> {}, parent |-> Unset]

JoinerSession(u) ==
    [st |-> "JOIN_REQUESTED", members |-> {u}, authed |-> {u}, shares |-> {},
     confirmed |-> {}, key |-> {}, parent |-> Unset]

(***************************************************************************)
(* The join constructor (session.cc:78-100), run by an incumbent on a     *)
(* JOIN_REQUEST from j: my_state is DEAD "in case anything fails", the    *)
(* parent's participant map is copied with its authenticated flags and    *)
(* key shares, the joiner is inserted unauthenticated, the id is          *)
(* computed over the new list, and if send_info_auth_and_share_message    *)
(* succeeds the state is REPLIED_TO_NEW_JOIN.  group_enc inside the send  *)
(* replaces the local user's share.                                        *)
(***************************************************************************)
JoinConstructor(u, par, s, j) ==
    LET sid == par.members \cup {j} IN
    [st |-> "REPLIED_TO_NEW_JOIN", members |-> sid, authed |-> par.authed,
     shares |-> SetKeyShare(par.shares, u, {GroupEnc(u, sid)}),
     confirmed |-> {}, key |-> {}, parent |-> s]

\* send_view_auth_and_share (session.cc:242-258): group_enc, an auth token
\* for the joiner only, and PARTICIPANT_INFO with the view and the share.
send_view_auth_and_share(u, sid, j) ==
    Mk("PARTICIPANT_INFO", u, sid, sid, {AuthToken(u, j)}, {GroupEnc(u, sid)}, {})

(***************************************************************************)
(* Incumbent receiving JOIN_REQUEST: send_auth_share_and_participant_info *)
(* (session.cc:440-454) builds the child and, its id being set, stores it *)
(* in my_children under that id, over whatever was there; the state of   *)
(* the receiving session does not change.                                 *)
(***************************************************************************)
send_auth_share_and_participant_info(u, ss, s, m, rm) ==
    LET child == JoinConstructor(u, ss[s], s, m.from) IN
    Result(Put(ss, child.members, child), rm,
           << send_view_auth_and_share(u, child.members, m.from) >>)

\* setup_session_view (session.cc:165-183): the participants listed in the
\* message are inserted unauthenticated; the id is computed over the list.
setup_session_view(rec, m) == rec.members \cup m.view

\* joiner_send_auth_and_share (session.cc:209-233): group_enc, a token for
\* every peer whose authed_to is unset (it is never set, so every peer, the
\* joiner included), and JOINER_AUTH with the share.
joiner_send_auth_and_share(u, sid, peers) ==
    Mk("JOINER_AUTH", u, sid, {}, {AuthToken(u, p) : p \in peers},
       {GroupEnc(u, sid)}, {})

(***************************************************************************)
(* Joiner receiving PARTICIPANT_INFO: auth_and_reshare (session.cc:343-   *)
(* 366).  If the id is not set yet: setup_session_view (session.cc:165-   *)
(* 183) inserts the listed participants and computes the id; it has no  *)
(* return statement, so whether it reports success is the value the      *)
(* build leaves in the return register (viewOk).  On failure: DEAD.       *)
(* Then send_auth_and_share_message (joiner_send_auth_and_share,          *)
(* session.cc:209-233) runs group_enc and broadcasts JOINER_AUTH with a   *)
(* token for every peer whose authed_to is unset, the joiner included.   *)
(* Only then is the sender looked up and authenticated; failure returns  *)
(* DEAD.  The message id is never compared with the session's id.        *)
(***************************************************************************)
auth_and_reshare(u, ss, s, m, rm, viewOk) ==
    LET r0      == ss[s]
        setUp   == s = Unset
        sent    == setUp /\ viewOk
        members == IF setUp THEN setup_session_view(r0, m) ELSE r0.members
        sid     == IF setUp THEN members ELSE s
        r1      == IF setUp
                   THEN [r0 EXCEPT !.members = members,
                                   !.shares = IF viewOk
                                              THEN SetKeyShare(@, u, {GroupEnc(u, sid)})
                                              ELSE @]
                   ELSE r0
        out     == IF sent
                   THEN << joiner_send_auth_and_share(u, sid, members) >>
                   ELSE << >>
        r2      == IF (setUp => viewOk) /\ m.from \in members /\ Authenticate(m, u)
                   THEN [r1 EXCEPT !.authed = @ \cup {m.from},
                                   !.shares = SetKeyShare(@, m.from, m.share)]
                   ELSE [r1 EXCEPT !.st = "DEAD"]
        ss1     == IF setUp THEN Put([x \in DOMAIN ss \ {Unset} |-> ss[x]], sid, r2)
                   ELSE [ss EXCEPT ![s] = r2]
    IN  Result(ss1, IF setUp THEN sid ELSE rm, out)

(***************************************************************************)
(* Joiner receiving SESSION_CONFIRMATION: confirm_or_resession            *)
(* (session.cc:383-414).  Same id: validate and mark, IN_SESSION once     *)
(* everybody confirmed; a failed validation is DEAD.  Other id: a new     *)
(* joiner session is built, but its id is not set so it is never added   *)
(* to my_children, and this session is DEAD.                              *)
(***************************************************************************)
\* Mutant: a confirmation that fails validation is ignored instead of
\* ending the session.
confirm_or_resession_ignore_bad(u, ss, s, m, rm) ==
    LET r  == ss[s]
        rc == [r EXCEPT !.confirmed = @ \cup {m.from}]
        r1 == IF m.sid = s /\ ValidateSessionConfirmation(r, m)
              THEN IF everybody_confirmed(rc) THEN [rc EXCEPT !.st = "IN_SESSION"]
                   ELSE rc
              ELSE r
    IN  Result([ss EXCEPT ![s] = r1], rm, << >>)

confirm_or_resession(u, ss, s, m, rm) ==
    LET r  == ss[s]
        rc == [r EXCEPT !.confirmed = @ \cup {m.from}]
        r1 == IF m.sid = s /\ ValidateSessionConfirmation(r, m)
              THEN IF everybody_confirmed(rc) THEN [rc EXCEPT !.st = "IN_SESSION"]
                   ELSE rc
              ELSE [r EXCEPT !.st = "DEAD"]
    IN  Result([ss EXCEPT ![s] = r1], rm, << >>)

\* Mutant: the JOINER_AUTH branch does not call kill_all_my_siblings.
confirm_auth_add_update_share_repo_no_kill(u, ss, s, m, rm) ==
    LET isJA == m.type = "JOINER_AUTH"
        ss1  == IF isJA
                THEN [ss EXCEPT
                        ![s] = [ss[s] EXCEPT !.members = @ \cup {m.from},
                                             !.authed = @ \cup {m.from},
                                             !.shares = SetKeyShare(@, m.from, m.share)]]
                ELSE ss
        r1   == ss1[s]
        key  == GroupDec(r1)
    IN  IF isJA /\ ~Authenticate(m, u)
        THEN Result([ss EXCEPT ![s].st = "DEAD"], rm, << >>)
        ELSE IF everybody_authenticated_and_contributed(r1)
             THEN Result([ss1 EXCEPT ![s] = [r1 EXCEPT !.key = key,
                                                  !.st = "GROUP_KEY_GENERATED"]],
                         rm,
                         << Mk("SESSION_CONFIRMATION", u, s, {}, {}, {},
                               {[key |-> key, who |-> u]}) >>)
             ELSE Result([ss1 EXCEPT ![s].st = "DEAD"], rm, << >>)

(***************************************************************************)
(* Incumbent child receiving JOINER_AUTH or PARTICIPANT_INFO:             *)
(* confirm_auth_add_update_share_repo (session.cc:476-506).  JOINER_AUTH: *)
(* authenticate the sender (participants[sender] inserts it if absent),   *)
(* else DEAD; kill the siblings; store the sender's share.                *)
(* PARTICIPANT_INFO: the branch is empty.  Then the test                  *)
(* "if (everybody_authenticated_and_contributed)" names the method        *)
(* without calling it, so it always passes and group_dec runs at once:   *)
(* it succeeds when everybody is authenticated and has a share (spec      *)
(* §4.5), then SESSION_CONFIRMATION and GROUP_KEY_GENERATED; else DEAD.   *)
(***************************************************************************)
confirm_auth_add_update_share_repo(u, ss, s, m, rm) ==
    LET isJA == m.type = "JOINER_AUTH"
        ss1  == IF isJA
                THEN [KillAllMySiblings(ss, s) EXCEPT
                        ![s] = [ss[s] EXCEPT !.members = @ \cup {m.from},
                                             !.authed = @ \cup {m.from},
                                             !.shares = SetKeyShare(@, m.from, m.share)]]
                ELSE ss
        r1   == ss1[s]
        key  == GroupDec(r1)
    IN  IF isJA /\ ~Authenticate(m, u)
        THEN Result([ss EXCEPT ![s].st = "DEAD"], rm, << >>)
        ELSE IF everybody_authenticated_and_contributed(r1)
             THEN Result([ss1 EXCEPT ![s] = [r1 EXCEPT !.key = key,
                                                  !.st = "GROUP_KEY_GENERATED"]],
                         rm,
                         << Mk("SESSION_CONFIRMATION", u, s, {}, {}, {},
                               {[key |-> key, who |-> u]}) >>)
             ELSE Result([ss1 EXCEPT ![s].st = "DEAD"], rm, << >>)

(***************************************************************************)
(* Incumbent receiving SESSION_CONFIRMATION: mark_confirm_and_may_move_   *)
(* session (session.cc:522-539).  A failed validation is DEAD; once       *)
(* everybody confirmed, activate() makes this the room's session, kills   *)
(* the siblings and drops the parent: IN_SESSION.                         *)
(***************************************************************************)
activate(ss, s) ==
    LET k == KillAllMySiblings(ss, s) IN
    [x \in DOMAIN k \ {ss[s].parent} |-> k[x]]

mark_confirm_and_may_move_session(u, ss, s, m, rm) ==
    LET r  == ss[s]
        rc == [r EXCEPT !.confirmed = @ \cup {m.from}]
    IN  IF ~ValidateSessionConfirmation(r, m)
        THEN Result([ss EXCEPT ![s].st = "DEAD"], rm, << >>)
        ELSE IF everybody_confirmed(rc)
             THEN Result(Put(activate(ss, s), s, [rc EXCEPT !.st = "IN_SESSION"]),
                         s, << >>)
             ELSE Result([ss EXCEPT ![s] = rc], rm, << >>)

(***************************************************************************)
(* The dispatch on (my_state, message type) that state_handler            *)
(* (session.cc:288-321) is meant to make, as each handler's comment       *)
(* states it; every other pair leaves the session as it is.  viewOk is   *)
(* the undefined result of setup_session_view.                           *)
(***************************************************************************)
state_handler(u, ss, s, m, rm, viewOk) ==
    LET st == ss[s].st IN
    CASE st = "IN_SESSION" /\ m.type = "JOIN_REQUEST" ->
             send_auth_share_and_participant_info(u, ss, s, m, rm)
      [] st = "JOIN_REQUESTED" /\ m.type = "PARTICIPANT_INFO" ->
             auth_and_reshare(u, ss, s, m, rm, viewOk)
      [] st = "JOIN_REQUESTED" /\ m.type = "SESSION_CONFIRMATION" ->
             confirm_or_resession(u, ss, s, m, rm)
      [] st \in {"REPLIED_TO_NEW_JOIN", "RE_SHARED"}
           /\ m.type \in {"JOINER_AUTH", "PARTICIPANT_INFO"} ->
             confirm_auth_add_update_share_repo(u, ss, s, m, rm)
      [] st = "GROUP_KEY_GENERATED" /\ m.type = "SESSION_CONFIRMATION" ->
             mark_confirm_and_may_move_session(u, ss, s, m, rm)
      [] OTHER -> Result(ss, rm, << >>)
=============================================================================
