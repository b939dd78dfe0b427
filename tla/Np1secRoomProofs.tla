-------------------------- MODULE Np1secRoomProofs --------------------------
(***************************************************************************)
(* Proofs about the room of np1sec users (Np1secRoom), for every set of   *)
(* users.                                                                 *)
(***************************************************************************)
EXTENDS Np1secRoom, TLAPS

\* A session map as the handlers take and return it
SsOK(ss) == /\ DOMAIN ss \subseteq Slot
            /\ \A t \in DOMAIN ss : ss[t] \in SessionRec

\* A handler's result: the session map, the room pointer, the broadcasts
ResOK(r) == SsOK(r.ss) /\ r.room \in Slot /\ r.out \in Seq(Msg)

\* Replacing one slot of a well-formed map keeps it well-formed.
LEMMA PutOK ==
    ASSUME NEW ss, SsOK(ss), NEW t \in Slot, NEW rec \in SessionRec
    PROVE  SsOK(Put(ss, t, rec))
BY DEF SsOK, Put

\* kill_all_my_siblings only sets my_state, and keeps the map well-formed.
LEMMA KillOK ==
    ASSUME NEW ss, SsOK(ss), NEW s \in DOMAIN ss
    PROVE  /\ SsOK(KillAllMySiblings(ss, s))
           /\ DOMAIN KillAllMySiblings(ss, s) = DOMAIN ss
BY DEF SsOK, KillAllMySiblings, SessionRec, States

\* A share set updated by set_key_share with a message's share is a set of
\* shares.
LEMMA SetKeyShareOK ==
    ASSUME NEW sh \in SUBSET ShareVal, NEW p, NEW v \in SUBSET ShareVal
    PROVE  SetKeyShare(sh, p, v) \in SUBSET ShareVal
BY DEF SetKeyShare

\* The record updates the handlers make keep a session record well-formed.
LEMMA ExceptAuthedShares ==
    ASSUME NEW r \in SessionRec, NEW A \in SUBSET Users, NEW S \in SUBSET ShareVal
    PROVE  [r EXCEPT !.authed = A, !.shares = S] \in SessionRec
BY DEF SessionRec

LEMMA ExceptSt ==
    ASSUME NEW r \in SessionRec, NEW v \in States
    PROVE  [r EXCEPT !.st = v] \in SessionRec
BY DEF SessionRec

LEMMA ExceptConfirmed ==
    ASSUME NEW r \in SessionRec, NEW C \in SUBSET Users
    PROVE  [r EXCEPT !.confirmed = C] \in SessionRec
BY DEF SessionRec

\* Common hypotheses of the handler lemmas.
HandlerArgs(u, ss, s, m, rm) ==
    /\ u \in Users /\ SsOK(ss) /\ s \in DOMAIN ss /\ m \in Msg /\ rm \in Slot

LEMMA SendAuthShareOK ==
    ASSUME NEW u, NEW ss, NEW s, NEW m, NEW rm, HandlerArgs(u, ss, s, m, rm)
    PROVE  ResOK(send_auth_share_and_participant_info(u, ss, s, m, rm))
<1> USE DEF HandlerArgs, SsOK
<1> DEFINE child == JoinConstructor(u, ss[s], s, m.from)
<1>0. ss[s] \in SessionRec /\ m.from \in Users
  BY DEF Msg
<1>1. child.members \in Slot
  BY <1>0 DEF JoinConstructor, SessionRec, Slot
<1>2. GroupEnc(u, child.members) \in ShareVal
  BY <1>1 DEF GroupEnc, ShareVal
<1>3. child \in SessionRec
  <2>1. SetKeyShare(ss[s].shares, u, {GroupEnc(u, child.members)}) \in SUBSET ShareVal
    BY <1>0, <1>2, SetKeyShareOK DEF SessionRec
  <2> QED
    BY <1>0, <1>1, <2>1 DEF JoinConstructor, SessionRec, States, Slot
<1>4. send_view_auth_and_share(u, child.members, m.from) \in Msg
  BY <1>0, <1>1, <1>2 DEF send_view_auth_and_share, Mk, Msg, MsgTypes, AuthToken, Token, Slot
<1>5. << send_view_auth_and_share(u, child.members, m.from) >> \in Seq(Msg)
  BY <1>4
<1>6. SsOK(Put(ss, child.members, child))
  BY <1>1, <1>3, PutOK
<1> QED
  BY <1>5, <1>6, Zenon
  DEF send_auth_share_and_participant_info, ResOK, Result

LEMMA AuthAndReshareOK ==
    ASSUME NEW u, NEW ss, NEW s, NEW m, NEW rm, HandlerArgs(u, ss, s, m, rm),
           NEW viewOk \in BOOLEAN
    PROVE  ResOK(auth_and_reshare(u, ss, s, m, rm, viewOk))
<1> USE DEF HandlerArgs, SsOK
<1> DEFINE r0      == ss[s]
           setUp   == s = Unset
           sent    == setUp /\ viewOk
           members == IF setUp THEN setup_session_view(r0, m) ELSE r0.members
           sid     == IF setUp THEN members ELSE s
           r1      == IF setUp
                      THEN [r0 EXCEPT !.members = members,
                                      !.shares = IF viewOk
                                                 THEN SetKeyShare(@, u, {GroupEnc(u, sid)})
                                                 ELSE @]
                      ELSE r0
           out     == IF sent
                      THEN << joiner_send_auth_and_share(u, sid, members) >>
                      ELSE << >>
           r2      == IF (setUp => viewOk) /\ m.from \in members /\ Authenticate(m, u)
                      THEN [r1 EXCEPT !.authed = @ \cup {m.from},
                                      !.shares = SetKeyShare(@, m.from, m.share)]
                      ELSE [r1 EXCEPT !.st = "DEAD"]
           ss1     == IF setUp THEN Put([x \in DOMAIN ss \ {Unset} |-> ss[x]], sid, r2)
                      ELSE [ss EXCEPT ![s] = r2]
<1>0. /\ r0 \in SessionRec
      /\ m.from \in Users /\ m.view \in SUBSET Users /\ m.share \in SUBSET ShareVal
  BY DEF Msg
<1>1. members \in SUBSET Users /\ sid \in Slot
  BY <1>0 DEF SessionRec, Slot, setup_session_view
<1>2. GroupEnc(u, sid) \in ShareVal
  BY <1>1 DEF GroupEnc, ShareVal
<1>3. r1 \in SessionRec
  <2>1. SetKeyShare(r0.shares, u, {GroupEnc(u, sid)}) \in SUBSET ShareVal
    BY <1>0, <1>2, SetKeyShareOK DEF SessionRec
  <2> QED
    BY <1>0, <1>1, <2>1 DEF SessionRec
<1>4. r2 \in SessionRec
  <2>1. SetKeyShare(r1.shares, m.from, m.share) \in SUBSET ShareVal
    BY <1>0, <1>3, SetKeyShareOK DEF SessionRec
  <2>2. CASE (setUp => viewOk) /\ m.from \in members /\ Authenticate(m, u)
    <3>1. r1.authed \cup {m.from} \in SUBSET Users
      BY <1>0, <1>3 DEF SessionRec
    <3> QED
      BY <1>3, <2>1, <2>2, <3>1, ExceptAuthedShares DEF r2
  <2>3. CASE ~((setUp => viewOk) /\ m.from \in members /\ Authenticate(m, u))
    BY <1>3, <2>3, ExceptSt DEF States, r2
  <2> QED
    BY <2>2, <2>3
<1>5. out \in Seq(Msg)
  <2>1. {AuthToken(u, p) : p \in members} \in SUBSET Token
    BY <1>1 DEF AuthToken, Token
  <2>2. joiner_send_auth_and_share(u, sid, members) \in Msg
    BY <1>1, <1>2, <2>1 DEF joiner_send_auth_and_share, Mk, Msg, MsgTypes
  <2>3. << joiner_send_auth_and_share(u, sid, members) >> \in Seq(Msg)
    BY <2>2
  <2>4. << >> \in Seq(Msg)
    OBVIOUS
  <2> QED
    BY <2>3, <2>4 DEF out
<1>6. SsOK(ss1)
  <2>1. CASE setUp
    <3>1. SsOK([x \in DOMAIN ss \ {Unset} |-> ss[x]])
      OBVIOUS
    <3>2. SsOK(Put([x \in DOMAIN ss \ {Unset} |-> ss[x]], sid, r2))
      BY <3>1, <1>1, <1>4, PutOK
    <3> QED
      BY <2>1, <3>2 DEF ss1
  <2>2. CASE ~setUp
    BY <2>2, <1>4 DEF ss1
  <2> QED
    BY <2>1, <2>2
<1>7. (IF setUp THEN sid ELSE rm) \in Slot
  BY <1>1
<1> QED
  BY <1>5, <1>6, <1>7, Zenon DEF auth_and_reshare, ResOK, Result

LEMMA ConfirmOrResessionOK ==
    ASSUME NEW u, NEW ss, NEW s, NEW m, NEW rm, HandlerArgs(u, ss, s, m, rm)
    PROVE  ResOK(confirm_or_resession(u, ss, s, m, rm))
<1> USE DEF HandlerArgs, SsOK
<1> DEFINE r  == ss[s]
           rc == [r EXCEPT !.confirmed = @ \cup {m.from}]
           r1 == IF m.sid = s /\ ValidateSessionConfirmation(r, m)
                 THEN IF everybody_confirmed(rc) THEN [rc EXCEPT !.st = "IN_SESSION"]
                      ELSE rc
                 ELSE [r EXCEPT !.st = "DEAD"]
<1>1. r \in SessionRec /\ m.from \in Users
  BY DEF Msg
<1>2. rc \in SessionRec
  BY <1>1, ExceptConfirmed DEF SessionRec
<1>3. r1 \in SessionRec
  BY <1>1, <1>2, ExceptSt DEF States
<1>4. SsOK([ss EXCEPT ![s] = r1])
  BY <1>3
<1> QED
  BY <1>4 DEF confirm_or_resession, ResOK, Result

LEMMA ConfirmAuthAddOK ==
    ASSUME NEW u, NEW ss, NEW s, NEW m, NEW rm, HandlerArgs(u, ss, s, m, rm)
    PROVE  ResOK(confirm_auth_add_update_share_repo(u, ss, s, m, rm))
<1> USE DEF HandlerArgs, SsOK
<1> DEFINE isJA == m.type = "JOINER_AUTH"
           ks   == KillAllMySiblings(ss, s)
           new  == [ss[s] EXCEPT !.members = @ \cup {m.from},
                                 !.authed = @ \cup {m.from},
                                 !.shares = SetKeyShare(@, m.from, m.share)]
           ss1  == IF isJA THEN [ks EXCEPT ![s] = new] ELSE ss
           r1   == ss1[s]
           key  == GroupDec(r1)
<1>1. ss[s] \in SessionRec /\ m.from \in Users /\ m.share \in SUBSET ShareVal
  BY DEF Msg
<1>2. new \in SessionRec
  BY <1>1, SetKeyShareOK DEF SessionRec
<1>3. SsOK(ss1) /\ s \in DOMAIN ss1
  BY <1>2, KillOK
<1>4. r1 \in SessionRec
  BY <1>3
<1>5. key \in SUBSET ShareVal
  BY <1>4 DEF GroupDec, SessionRec
<1>6. [r1 EXCEPT !.key = key, !.st = "GROUP_KEY_GENERATED"] \in SessionRec
  BY <1>4, <1>5 DEF SessionRec, States
<1>7. SsOK([ss1 EXCEPT ![s] = [r1 EXCEPT !.key = key, !.st = "GROUP_KEY_GENERATED"]])
  BY <1>3, <1>6
<1>8. << Mk("SESSION_CONFIRMATION", u, s, {}, {}, {},
            {[key |-> key, who |-> u]}) >> \in Seq(Msg)
  <2>1. Mk("SESSION_CONFIRMATION", u, s, {}, {}, {},
           {[key |-> key, who |-> u]}) \in Msg
    BY <1>5 DEF Mk, Msg, MsgTypes, Conf, Slot
  <2> QED
    BY <2>1
<1>9. SsOK([ss EXCEPT ![s].st = "DEAD"]) /\ SsOK([ss1 EXCEPT ![s].st = "DEAD"])
  BY <1>3, ExceptSt DEF States
<1>10. << >> \in Seq(Msg)
  OBVIOUS
<1> QED
  BY <1>3, <1>7, <1>8, <1>9, <1>10, Zenon
  DEF confirm_auth_add_update_share_repo, ResOK, Result

LEMMA MarkConfirmOK ==
    ASSUME NEW u, NEW ss, NEW s, NEW m, NEW rm, HandlerArgs(u, ss, s, m, rm)
    PROVE  ResOK(mark_confirm_and_may_move_session(u, ss, s, m, rm))
<1> USE DEF HandlerArgs, SsOK
<1> DEFINE r  == ss[s]
           rc == [r EXCEPT !.confirmed = @ \cup {m.from}]
<1>1. r \in SessionRec /\ m.from \in Users
  BY DEF Msg
<1>2. rc \in SessionRec
  BY <1>1, ExceptConfirmed DEF SessionRec
<1>3. SsOK(activate(ss, s))
  BY KillOK DEF activate
<1>4. SsOK(Put(activate(ss, s), s, [rc EXCEPT !.st = "IN_SESSION"]))
  BY <1>2, <1>3, ExceptSt, PutOK DEF States
<1>5. SsOK([ss EXCEPT ![s].st = "DEAD"]) /\ SsOK([ss EXCEPT ![s] = rc])
  BY <1>2, ExceptSt DEF States
<1>6. << >> \in Seq(Msg)
  OBVIOUS
<1> QED
  BY <1>4, <1>5, <1>6, Zenon DEF mark_confirm_and_may_move_session, ResOK, Result

\* Whatever the session's state and the message, state_handler returns a
\* well-formed session map, room pointer and list of broadcasts.
LEMMA StateHandlerOK ==
    ASSUME NEW u, NEW ss, NEW s, NEW m, NEW rm, HandlerArgs(u, ss, s, m, rm),
           NEW viewOk \in BOOLEAN
    PROVE  ResOK(state_handler(u, ss, s, m, rm, viewOk))
<1>1. ResOK(Result(ss, rm, << >>))
  BY DEF HandlerArgs, ResOK, Result
<1> QED
  BY <1>1, SendAuthShareOK, AuthAndReshareOK, ConfirmOrResessionOK,
     ConfirmAuthAddOK, MarkConfirmOK DEF state_handler

(***************************************************************************)
(* The inductive invariant.  Because a joiner never derives a key, no     *)
(* joiner's session gets past JOIN_REQUESTED, the founder stays the only  *)
(* incumbent and its session {Founder} is never touched; the founder     *)
(* alone sends PARTICIPANT_INFO and SESSION_CONFIRMATION, each            *)
(* PARTICIPANT_INFO offering the view {Founder, j} to one joiner j.        *)
(***************************************************************************)
FounderInv ==
    /\ room[Founder] = {Founder}
    /\ {Founder} \in DOMAIN sess[Founder]
    /\ sess[Founder][{Founder}] = FounderSession(Founder)
    /\ \A t \in DOMAIN sess[Founder] \ {{Founder}} :
          /\ sess[Founder][t].st \in {"REPLIED_TO_NEW_JOIN", "GROUP_KEY_GENERATED", "DEAD"}
          /\ sess[Founder][t].parent = {Founder}

\* What a joiner's session can be: JOIN_REQUESTED or DEAD, without a key or
\* a parent, having authenticated at most the founder, and, once its id is
\* set and it is still waiting, at the id {Founder, u}.
JoinerRec(u, t, r) ==
    /\ r.st \in {"JOIN_REQUESTED", "DEAD"}
    /\ r.key = {}
    /\ r.parent = Unset
    /\ r.authed \subseteq {u, Founder}
    /\ t = Unset => r.members = {u} /\ r.authed = {u}
    /\ r.st = "JOIN_REQUESTED" /\ t # Unset => t = {Founder, u}

JoinerInv ==
    \A u \in Users \ {Founder} :
       /\ DOMAIN sess[u] \in {{}, {room[u]}}
       /\ \A t \in DOMAIN sess[u] : JoinerRec(u, t, sess[u][t])

\* Who sends what: joiners send JOIN_REQUEST, only the founder sends
\* SESSION_CONFIRMATION, and each PARTICIPANT_INFO comes from the founder
\* and offers {Founder, j} to one joiner j.
MsgInv(m) ==
    /\ m.type = "JOIN_REQUEST" => m.from # Founder
    /\ m.type = "SESSION_CONFIRMATION" => m.from = Founder
    /\ m.type = "PARTICIPANT_INFO" =>
          /\ m.from = Founder
          /\ \E j \in Users \ {Founder} :
                /\ m.sid = {Founder, j}
                /\ m.view = {Founder, j}
                /\ m.tokens = {AuthToken(Founder, j)}

LogInv == \A i \in 1 .. Len(log) : MsgInv(log[i])

IInv == /\ TypeOK
        /\ FounderInv
        /\ JoinerInv
        /\ LogInv
        /\ AuthenticationSoundness
        /\ SiblingExclusion

(***************************************************************************)
(* Type correctness                                                        *)
(***************************************************************************)

\* TypeOK, restated with the session maps as SsOK.
LEMMA TypeOKSs ==
    TypeOK <=> /\ log \in Seq(Msg)
               /\ pos \in [Users -> 0 .. Len(log)]
               /\ room \in [Users -> Slot]
               /\ DOMAIN sess = Users
               /\ \A u \in Users : SsOK(sess[u])
BY DEF TypeOK, SsOK

LEMMA InitTypeOK == Init => TypeOK
<1> SUFFICES ASSUME Init PROVE TypeOK
  OBVIOUS
<1>1. \A u \in Users : FounderSession(u) \in SessionRec
  BY DEF FounderSession, SessionRec, States, Slot, Unset
<1>2. room \in [Users -> Slot]
  BY DEF Init, Slot, Unset
<1>3. \A u \in Users : /\ DOMAIN sess[u] \subseteq Slot
                      /\ \A t \in DOMAIN sess[u] : sess[u][t] \in SessionRec
  BY <1>1 DEF Init, Slot
<1>4. log \in Seq(Msg) /\ pos \in [Users -> 0 .. Len(log)] /\ DOMAIN sess = Users
  BY DEF Init
<1> QED
  BY <1>2, <1>3, <1>4 DEF TypeOK

LEMMA JoinRoomTypeOK ==
    ASSUME TypeOK, NEW u \in Users, JoinRoom(u)
    PROVE  TypeOK'
<1>1. JoinerSession(u) \in SessionRec
  BY DEF JoinerSession, SessionRec, States, Slot, Unset
<1>2. JoinRequest(u) \in Msg
  BY DEF JoinRequest, Mk, Msg, MsgTypes, Slot, Unset
<1>3. log' \in Seq(Msg) /\ Len(log') = Len(log) + 1
  BY <1>2 DEF JoinRoom, TypeOK
<1>4. pos' \in [Users -> 0 .. Len(log')]
  BY <1>3 DEF JoinRoom, TypeOK
<1>5. room' \in [Users -> Slot]
  BY DEF JoinRoom, TypeOK, Slot, Unset
<1>6. DOMAIN sess' = Users /\ \A v \in Users : SsOK(sess'[v])
  BY <1>1, TypeOKSs DEF JoinRoom, SsOK, Slot, Unset
<1> QED
  BY <1>3, <1>4, <1>5, <1>6 DEF TypeOK, SsOK

LEMMA ReceiveTypeOK ==
    ASSUME TypeOK, NEW u \in Users, Receive(u)
    PROVE  TypeOK'
<1> DEFINE m == log[pos[u] + 1]
           s == Target(u, m)
           r(ok) == IF m.from = u THEN Result(sess[u], room[u], << >>)
                    ELSE state_handler(u, sess[u], s, m, room[u], ok)
<1>0. PICK viewOk \in BOOLEAN :
        /\ sess' = [sess EXCEPT ![u] = r(viewOk).ss]
        /\ room' = [room EXCEPT ![u] = r(viewOk).room]
        /\ log' = log \o r(viewOk).out
  BY DEF Receive
<1>1. m \in Msg /\ SsOK(sess[u]) /\ room[u] \in Slot
  BY TypeOKSs DEF Receive, TypeOK
<1>2. s \in DOMAIN sess[u]
  BY DEF Receive, Target, Joined
<1>3. ResOK(r(viewOk))
  <2>1. ResOK(Result(sess[u], room[u], << >>))
    BY <1>1 DEF ResOK, Result
  <2>2. ResOK(state_handler(u, sess[u], s, m, room[u], viewOk))
    BY <1>1, <1>2, StateHandlerOK DEF HandlerArgs
  <2> QED
    BY <2>1, <2>2
<1>4. /\ sess' = [sess EXCEPT ![u] = r(viewOk).ss]
      /\ room' = [room EXCEPT ![u] = r(viewOk).room]
      /\ log' = log \o r(viewOk).out
      /\ pos' = [pos EXCEPT ![u] = @ + 1]
  BY <1>0 DEF Receive
<1>5. log' \in Seq(Msg) /\ Len(log') >= Len(log)
  BY <1>3, <1>4, TypeOKSs DEF ResOK
<1>6. pos' \in [Users -> 0 .. Len(log')]
  <2>1. pos[u] < Len(log)
    BY DEF Receive
  <2> QED
    BY <1>4, <1>5, <2>1 DEF TypeOK
<1>7. room' \in [Users -> Slot]
  BY <1>3, <1>4 DEF ResOK, TypeOK
<1>8. DOMAIN sess' = Users /\ \A v \in Users : SsOK(sess'[v])
  BY <1>3, <1>4, TypeOKSs DEF ResOK
<1> QED
  BY <1>5, <1>6, <1>7, <1>8 DEF TypeOK, SsOK

\* Type correctness of the room: every reachable state of the users, their
\* sessions and the room's history is well-formed (TypeOK).
THEOREM TypeCorrect == Spec => []TypeOK
<1>1. Init => TypeOK
  BY InitTypeOK
<1>2. TypeOK /\ [Next]_vars => TypeOK'
  BY JoinRoomTypeOK, ReceiveTypeOK DEF Next, vars, TypeOK
<1> QED
  BY <1>1, <1>2, PTL DEF Spec

(***************************************************************************)
(* A joiner's handlers                                                     *)
(***************************************************************************)

\* p is counted as authenticated in slot t of a handler's result either
\* because it already was in ss, or because the message m is p's token for
\* u with the id t.
Witness(u, ss, m, t, p) ==
    \/ t \in DOMAIN ss /\ p \in ss[t].authed
    \/ p = m.from /\ m.sid = t /\ AuthToken(p, u) \in m.tokens

\* What a joiner's handler returns: one session, at the room pointer, of
\* the joiner's shape, whose authenticated peers have a witness, and only
\* JOINER_AUTH broadcasts.
JoinerResult(u, ss, m, r) ==
    /\ DOMAIN r.ss = {r.room}
    /\ \A t \in DOMAIN r.ss : JoinerRec(u, t, r.ss[t])
    /\ \A t \in DOMAIN r.ss : \A p \in r.ss[t].authed \ {u} : Witness(u, ss, m, t, p)
    /\ \A i \in DOMAIN r.out : r.out[i].type = "JOINER_AUTH"

JoinerArgs(u, ss, s, m) ==
    /\ u \in Users \ {Founder}
    /\ SsOK(ss) /\ DOMAIN ss = {s}
    /\ JoinerRec(u, s, ss[s])
    /\ m \in Msg /\ MsgInv(m) /\ m.from # u

\* A result with one session, at the room pointer, is a joiner's result
\* when that session is.
LEMMA JoinerResultSingle ==
    ASSUME NEW u, NEW ss, NEW m, NEW ss1, NEW t0, NEW rec, NEW out,
           DOMAIN ss1 = {t0}, ss1[t0] = rec, JoinerRec(u, t0, rec),
           \A p \in rec.authed \ {u} : Witness(u, ss, m, t0, p),
           \A i \in DOMAIN out : out[i].type = "JOINER_AUTH"
    PROVE  JoinerResult(u, ss, m, Result(ss1, t0, out))
BY DEF JoinerResult, Result

\* auth_and_reshare run by a joiner on PARTICIPANT_INFO from the founder.
LEMMA JoinerAuthAndReshare ==
    ASSUME NEW u, NEW ss, NEW s, NEW m, JoinerArgs(u, ss, s, m),
           ss[s].st = "JOIN_REQUESTED", m.type = "PARTICIPANT_INFO",
           NEW viewOk \in BOOLEAN
    PROVE  JoinerResult(u, ss, m, auth_and_reshare(u, ss, s, m, s, viewOk))
<1> DEFINE r0      == ss[s]
           setUp   == s = Unset
           sent    == setUp /\ viewOk
           members == IF setUp THEN setup_session_view(r0, m) ELSE r0.members
           sid     == IF setUp THEN members ELSE s
           r1      == IF setUp
                      THEN [r0 EXCEPT !.members = members,
                                      !.shares = IF viewOk
                                                 THEN SetKeyShare(@, u, {GroupEnc(u, sid)})
                                                 ELSE @]
                      ELSE r0
           out     == IF sent
                      THEN << joiner_send_auth_and_share(u, sid, members) >>
                      ELSE << >>
           ok      == (setUp => viewOk) /\ m.from \in members /\ Authenticate(m, u)
           r2      == IF ok
                      THEN [r1 EXCEPT !.authed = @ \cup {m.from},
                                      !.shares = SetKeyShare(@, m.from, m.share)]
                      ELSE [r1 EXCEPT !.st = "DEAD"]
           ss1     == IF setUp THEN Put([x \in DOMAIN ss \ {Unset} |-> ss[x]], sid, r2)
                      ELSE [ss EXCEPT ![s] = r2]
           rm1     == IF setUp THEN sid ELSE s
<1>0. /\ r0 \in SessionRec
      /\ JoinerRec(u, s, r0)
      /\ u \in Users /\ u # Founder
      /\ m.from = Founder
  BY DEF JoinerArgs, SsOK, MsgInv
<1>1. PICK j \in Users \ {Founder} : /\ m.sid = {Founder, j}
                                    /\ m.view = {Founder, j}
                                    /\ m.tokens = {AuthToken(Founder, j)}
  BY DEF JoinerArgs, MsgInv
<1>2. ok => j = u
  BY <1>0, <1>1 DEF Authenticate, AuthToken
<1>3. auth_and_reshare(u, ss, s, m, s, viewOk) = Result(ss1, rm1, out)
  BY Zenon DEF auth_and_reshare
<1>4. /\ r1.st = r0.st /\ r1.key = r0.key /\ r1.parent = r0.parent
      /\ r1.authed = r0.authed
  BY <1>0 DEF SessionRec
<1>5. /\ r2.key = {} /\ r2.parent = Unset
      /\ r2.st \in {"JOIN_REQUESTED", "DEAD"}
      /\ r2.authed \subseteq {u, Founder}
      /\ r2.st = "JOIN_REQUESTED" => ok
      /\ r2.authed \subseteq r0.authed \cup (IF ok THEN {m.from} ELSE {})
  <2>1. r1 \in [st : States, key : SUBSET ShareVal, parent : Slot,
                authed : SUBSET Users, members : SUBSET Users,
                shares : SUBSET ShareVal, confirmed : SUBSET Users]
    <3>1. CASE setUp
      <4>1. members \in SUBSET Users /\ GroupEnc(u, sid) \in ShareVal
        BY <1>0, <3>1 DEF JoinerArgs, Msg, SessionRec, setup_session_view, GroupEnc,
                          ShareVal, Slot
      <4>2. SetKeyShare(r0.shares, u, {GroupEnc(u, sid)}) \in SUBSET ShareVal
        BY <1>0, <4>1, SetKeyShareOK DEF SessionRec
      <4> QED
        BY <1>0, <3>1, <4>1, <4>2 DEF SessionRec
    <3>2. CASE ~setUp
      BY <1>0, <3>2 DEF SessionRec
    <3> QED
      BY <3>1, <3>2
  <2>2. CASE ok
    BY <1>0, <1>4, <2>1, <2>2 DEF JoinerRec
  <2>3. CASE ~ok
    BY <1>0, <1>4, <2>1, <2>3 DEF JoinerRec
  <2> QED
    BY <2>2, <2>3
<1>6. \A i \in DOMAIN out : out[i].type = "JOINER_AUTH"
  BY DEF joiner_send_auth_and_share, Mk
<1>7. CASE setUp
  <2>1. r0.members = {u} /\ r0.authed = {u}
    BY <1>0, <1>7 DEF JoinerRec
  <2>2. sid = {u, Founder, j} /\ sid # Unset
    BY <1>1, <1>7, <2>1 DEF setup_session_view, Unset
  <2>3. DOMAIN ss1 = {sid} /\ ss1[sid] = r2 /\ rm1 = sid
    BY <1>7 DEF JoinerArgs, Put
  <2>4. JoinerRec(u, sid, r2)
    BY <1>2, <1>5, <2>2 DEF JoinerRec
  <2>5. \A p \in r2.authed \ {u} : Witness(u, ss, m, sid, p)
    BY <1>0, <1>1, <1>2, <1>5, <2>1, <2>2 DEF Witness
  <2> HIDE DEF r0, setUp, sent, members, sid, r1, out, ok, r2, ss1, rm1
  <2>6. JoinerResult(u, ss, m, Result(ss1, sid, out))
    BY <1>6, <2>3, <2>4, <2>5, JoinerResultSingle
  <2> QED
    BY <1>3, <2>3, <2>6, Zenon
<1>8. CASE ~setUp
  <2>1. DOMAIN ss1 = {s} /\ ss1[s] = r2 /\ rm1 = s
    BY <1>8 DEF JoinerArgs
  <2>2. r2.st = "JOIN_REQUESTED" => s = {Founder, u}
    BY <1>0, <1>5, <1>8, <1>4 DEF JoinerRec
  <2>3. JoinerRec(u, s, r2)
    BY <1>5, <1>8, <2>2 DEF JoinerRec
  <2>4. \A p \in r2.authed \ {u} : Witness(u, ss, m, s, p)
    <3>1. ok => m.sid = s
      BY <1>0, <1>1, <1>2, <1>8 DEF JoinerRec, Unset, JoinerArgs
    <3> QED
      BY <1>0, <1>1, <1>2, <1>5, <3>1 DEF Witness, JoinerArgs
  <2> HIDE DEF r0, setUp, sent, members, sid, r1, out, ok, r2, ss1, rm1
  <2>5. JoinerResult(u, ss, m, Result(ss1, s, out))
    BY <1>6, <2>1, <2>3, <2>4, JoinerResultSingle
  <2> QED
    BY <1>3, <2>1, <2>5, Zenon
<1> QED
  BY <1>7, <1>8


\* confirm_or_resession run by a joiner: its session holds no key, so
\* validate_session_confirmation fails and the session goes DEAD.
LEMMA JoinerConfirmOrResession ==
    ASSUME NEW u, NEW ss, NEW s, NEW m, JoinerArgs(u, ss, s, m)
    PROVE  JoinerResult(u, ss, m, confirm_or_resession(u, ss, s, m, s))
<1> DEFINE dead == [ss[s] EXCEPT !.st = "DEAD"]
<1>1. ss[s] \in SessionRec /\ ss[s].key = {}
  BY DEF JoinerArgs, SsOK, JoinerRec
<1>2. confirm_or_resession(u, ss, s, m, s) = Result([ss EXCEPT ![s] = dead], s, << >>)
  BY <1>1 DEF confirm_or_resession, ValidateSessionConfirmation
<1>3. JoinerRec(u, s, dead) /\ dead.authed = ss[s].authed
  BY <1>1 DEF JoinerArgs, JoinerRec, SessionRec
<1>4. \A p \in dead.authed \ {u} : Witness(u, ss, m, s, p)
  BY <1>3 DEF JoinerArgs, Witness
<1>5. DOMAIN [ss EXCEPT ![s] = dead] = {s} /\ [ss EXCEPT ![s] = dead][s] = dead
  BY DEF JoinerArgs
<1>6. \A i \in DOMAIN << >> : << >>[i].type = "JOINER_AUTH"
  OBVIOUS
<1> HIDE DEF dead
<1> QED
  BY <1>2, <1>3, <1>4, <1>5, <1>6, JoinerResultSingle

\* A joiner's session that does not handle the message keeps its state.
LEMMA JoinerUnchanged ==
    ASSUME NEW u, NEW ss, NEW s, NEW m, DOMAIN ss = {s}, JoinerRec(u, s, ss[s])
    PROVE  JoinerResult(u, ss, m, Result(ss, s, << >>))
<1>1. \A p \in ss[s].authed \ {u} : Witness(u, ss, m, s, p)
  BY DEF Witness
<1>2. DOMAIN ss = {s} /\ JoinerRec(u, s, ss[s])
  OBVIOUS
<1>3. \A i \in DOMAIN << >> : << >>[i].type = "JOINER_AUTH"
  OBVIOUS
<1> QED
  BY <1>1, <1>2, <1>3, JoinerResultSingle

\* state_handler of a joiner: whatever the message, the result is a
\* joiner's result.
LEMMA JoinerHandler ==
    ASSUME NEW u, NEW ss, NEW s, NEW m, JoinerArgs(u, ss, s, m),
           NEW viewOk \in BOOLEAN
    PROVE  JoinerResult(u, ss, m, state_handler(u, ss, s, m, s, viewOk))
<1>1. ss[s].st \in {"JOIN_REQUESTED", "DEAD"}
  BY DEF JoinerArgs, JoinerRec
<1>2. CASE ss[s].st = "JOIN_REQUESTED" /\ m.type = "PARTICIPANT_INFO"
  <2>1. state_handler(u, ss, s, m, s, viewOk) = auth_and_reshare(u, ss, s, m, s, viewOk)
    BY <1>2 DEF state_handler
  <2> QED
    BY <1>2, <2>1, JoinerAuthAndReshare
<1>3. CASE ss[s].st = "JOIN_REQUESTED" /\ m.type = "SESSION_CONFIRMATION"
  <2>1. state_handler(u, ss, s, m, s, viewOk) = confirm_or_resession(u, ss, s, m, s)
    BY <1>3 DEF state_handler
  <2> QED
    BY <2>1, JoinerConfirmOrResession
<1>4. CASE ~(ss[s].st = "JOIN_REQUESTED" /\ m.type \in {"PARTICIPANT_INFO",
                                                     "SESSION_CONFIRMATION"})
  <2>1. state_handler(u, ss, s, m, s, viewOk) = Result(ss, s, << >>)
    BY <1>1, <1>4 DEF state_handler
  <2> QED
    BY <2>1, JoinerUnchanged DEF JoinerArgs
<1> QED
  BY <1>2, <1>3, <1>4


(***************************************************************************)
(* The founder's handlers                                                  *)
(***************************************************************************)

\* The founder's session map: its own session {Founder} as join() made it,
\* and children of it in REPLIED_TO_NEW_JOIN, GROUP_KEY_GENERATED or DEAD.
FounderSs(ss) ==
    /\ {Founder} \in DOMAIN ss
    /\ ss[{Founder}] = FounderSession(Founder)
    /\ \A t \in DOMAIN ss \ {{Founder}} :
          /\ ss[t].st \in {"REPLIED_TO_NEW_JOIN", "GROUP_KEY_GENERATED", "DEAD"}
          /\ ss[t].parent = {Founder}

\* Sibling exclusion for one session map.
SibEx(ss) ==
    \A t1, t2 \in DOMAIN ss :
        /\ t1 # t2
        /\ ss[t1].parent # Unset
        /\ ss[t1].parent = ss[t2].parent
        /\ ss[t1].st # "DEAD" /\ ss[t2].st # "DEAD"
        => ~(Complete(ss[t1]) /\ Complete(ss[t2]))

FounderArgs(ss, s, m) ==
    /\ SsOK(ss) /\ FounderSs(ss) /\ SibEx(ss)
    /\ m \in Msg /\ MsgInv(m) /\ m.from # Founder
    /\ s \in DOMAIN ss
    /\ s = {Founder} \/ (s = m.sid /\ ss[s].st # "DEAD" /\ m.type # "JOIN_REQUEST")

\* What a handler of the founder returns: the room pointer stays at
\* {Founder}, the map keeps its shape and sibling exclusion, every
\* authenticated peer has a witness, and the broadcasts satisfy MsgInv.
FounderResult(ss, m, r) ==
    /\ r.room = {Founder}
    /\ FounderSs(r.ss) /\ SibEx(r.ss)
    /\ \A t \in DOMAIN r.ss : \A p \in r.ss[t].authed \ {Founder} :
          Witness(Founder, ss, m, t, p)
    /\ \A i \in DOMAIN r.out : MsgInv(r.out[i])

\* A result that keeps the room pointer at {Founder} is the founder's
\* result when its map and its broadcasts are.
LEMMA FounderResultOf ==
    ASSUME NEW ss, NEW m, NEW f, NEW out,
           FounderSs(f), SibEx(f),
           \A t \in DOMAIN f : \A p \in f[t].authed \ {Founder} :
               Witness(Founder, ss, m, t, p),
           \A i \in DOMAIN out : MsgInv(out[i])
    PROVE  FounderResult(ss, m, Result(f, {Founder}, out))
BY DEF FounderResult, Result

\* send_auth_share_and_participant_info run by the founder on a
\* JOIN_REQUEST: the new child {Founder, j} is not complete.
LEMMA FounderSendAuth ==
    ASSUME NEW ss, NEW m, FounderArgs(ss, {Founder}, m), m.type = "JOIN_REQUEST"
    PROVE  FounderResult(ss, m,
             send_auth_share_and_participant_info(Founder, ss, {Founder}, m, {Founder}))
<1> DEFINE j     == m.from
           child == JoinConstructor(Founder, ss[{Founder}], {Founder}, j)
           sid   == child.members
           ss1   == Put(ss, sid, child)
           pi    == send_view_auth_and_share(Founder, sid, j)
<1>0. Founder \in Users /\ j \in Users /\ j # Founder
  BY UsersAssumption DEF FounderArgs, Msg
<1>1. /\ sid = {Founder, j} /\ sid # {Founder}
      /\ child.st = "REPLIED_TO_NEW_JOIN" /\ child.parent = {Founder}
      /\ child.authed = {Founder}
  BY <1>0 DEF FounderArgs, FounderSs, FounderSession, JoinConstructor
<1>2. ~Complete(child)
  BY <1>0, <1>1 DEF Complete
<1>3. /\ DOMAIN ss1 = DOMAIN ss \cup {sid}
      /\ ss1[sid] = child
      /\ \A t \in DOMAIN ss \ {sid} : ss1[t] = ss[t]
  BY DEF Put
<1>4. FounderSs(ss1)
  BY <1>1, <1>3 DEF FounderArgs, FounderSs
<1>5. SibEx(ss1)
  BY <1>2, <1>3 DEF FounderArgs, SibEx
<1>6. \A t \in DOMAIN ss1 : \A p \in ss1[t].authed \ {Founder} :
          Witness(Founder, ss, m, t, p)
  BY <1>1, <1>3 DEF Witness
<1>7. MsgInv(pi)
  <2>1. /\ pi.type = "PARTICIPANT_INFO" /\ pi.from = Founder
        /\ pi.sid = {Founder, j} /\ pi.view = {Founder, j}
        /\ pi.tokens = {AuthToken(Founder, j)}
    BY <1>1 DEF send_view_auth_and_share, Mk
  <2> QED
    BY <1>0, <2>1 DEF MsgInv
<1>8. \A i \in DOMAIN << pi >> : MsgInv(<< pi >>[i])
  BY <1>7
<1> HIDE DEF j, child, sid, ss1, pi
<1>9. send_auth_share_and_participant_info(Founder, ss, {Founder}, m, {Founder})
        = Result(ss1, {Founder}, << pi >>)
  BY DEF send_auth_share_and_participant_info, j, child, sid, ss1, pi
<1> QED
  BY <1>4, <1>5, <1>6, <1>8, <1>9 DEF FounderResult, Result


\* A map of the founder in which one child s has changed to GROUP_KEY_
\* GENERATED or DEAD and every other child is DEAD keeps the founder's shape
\* and sibling exclusion: at most one child is live.
LEMMA FounderOneLive ==
    ASSUME NEW ss, FounderSs(ss), NEW s \in DOMAIN ss \ {{Founder}}, NEW fin,
           DOMAIN fin = DOMAIN ss,
           fin[{Founder}] = ss[{Founder}],
           fin[s].st \in {"GROUP_KEY_GENERATED", "DEAD"}, fin[s].parent = {Founder},
           \A t \in DOMAIN ss \ {s, {Founder}} : fin[t].st = "DEAD" /\ fin[t].parent = {Founder}
    PROVE  FounderSs(fin) /\ SibEx(fin)
<1>1. FounderSs(fin)
  BY DEF FounderSs
<1>2. fin[{Founder}].parent = Unset
  BY DEF FounderSs, FounderSession
<1>3. SibEx(fin)
  BY <1>2 DEF SibEx
<1> QED
  BY <1>1, <1>3

\* confirm_auth_add_update_share_repo run by the founder's child s on
\* JOINER_AUTH: the sender is counted as authenticated only with its token
\* for the founder in a message with the id s, and every sibling of s dies.
LEMMA FounderConfirmAuth ==
    ASSUME NEW ss, NEW s, NEW m, FounderArgs(ss, s, m), s # {Founder},
           ss[s].st = "REPLIED_TO_NEW_JOIN", m.type = "JOINER_AUTH"
    PROVE  FounderResult(ss, m,
             confirm_auth_add_update_share_repo(Founder, ss, s, m, {Founder}))
<1> DEFINE ks   == KillAllMySiblings(ss, s)
           new  == [ss[s] EXCEPT !.members = @ \cup {m.from},
                                 !.authed = @ \cup {m.from},
                                 !.shares = SetKeyShare(@, m.from, m.share)]
           ss1  == [ks EXCEPT ![s] = new]
           key  == GroupDec(ss1[s])
           gkg  == [ss1 EXCEPT ![s] = [ss1[s] EXCEPT !.key = key,
                                                   !.st = "GROUP_KEY_GENERATED"]]
           dead == [ss1 EXCEPT ![s].st = "DEAD"]
           sc   == Mk("SESSION_CONFIRMATION", Founder, s, {}, {}, {},
                      {[key |-> key, who |-> Founder]})
           bad  == [ss EXCEPT ![s].st = "DEAD"]
<1>0. /\ ss[s] \in SessionRec /\ ss[s].parent = {Founder}
      /\ ss[{Founder}].parent = Unset /\ s = m.sid
  BY DEF FounderArgs, SsOK, FounderSs, FounderSession
<1>1. /\ DOMAIN ks = DOMAIN ss
      /\ ks[{Founder}] = ss[{Founder}]
      /\ \A t \in DOMAIN ss \ {s, {Founder}} :
            ks[t].st = "DEAD" /\ ks[t].parent = {Founder} /\ ks[t].authed = ss[t].authed
  <2>1. {Founder} # s /\ ss[{Founder}].parent # ss[s].parent
    BY <1>0 DEF Unset
  <2> QED
    BY <1>0, <2>1 DEF KillAllMySiblings, FounderArgs, FounderSs, SsOK, SessionRec
<1>2. /\ new.parent = {Founder} /\ new.authed = ss[s].authed \cup {m.from}
  BY <1>0 DEF SessionRec
<1>3. MsgInv(sc) /\ \A i \in DOMAIN << sc >> : << sc >>[i] = sc
  BY DEF MsgInv, Mk
<1>6. FounderSs(ss) /\ s \in DOMAIN ss \ {{Founder}} /\ {Founder} \in DOMAIN ss
  BY DEF FounderArgs, FounderSs
<1>4. CASE ~Authenticate(m, Founder)
  <2>1. confirm_auth_add_update_share_repo(Founder, ss, s, m, {Founder})
          = Result(bad, {Founder}, << >>)
    BY <1>4 DEF confirm_auth_add_update_share_repo
  <2>2. /\ DOMAIN bad = DOMAIN ss /\ bad[s].st = "DEAD"
        /\ \A t \in DOMAIN ss : bad[t].authed = ss[t].authed /\ bad[t].parent = ss[t].parent
        /\ \A t \in DOMAIN ss \ {s} : bad[t] = ss[t]
    BY <1>0 DEF FounderArgs, SsOK, SessionRec
  <2>3. FounderSs(bad) /\ SibEx(bad)
    BY <2>2 DEF FounderArgs, FounderSs, SibEx
  <2>4. \A t \in DOMAIN bad : \A p \in bad[t].authed \ {Founder} : Witness(Founder, ss, m, t, p)
    BY <2>2 DEF Witness
  <2>5. \A i \in DOMAIN << >> : MsgInv(<< >>[i])
    OBVIOUS
  <2> HIDE DEF bad
  <2> QED
    <3>1. FounderResult(ss, m, Result(bad, {Founder}, << >>))
      BY <2>3, <2>4, <2>5, FounderResultOf
    <3> QED
      BY <2>1, <3>1
<1>5. CASE Authenticate(m, Founder)
  <2>1. ss1[s] = new /\ DOMAIN ss1 = DOMAIN ss
    BY <1>1 DEF FounderArgs
  <2>2. \A t \in DOMAIN gkg : \A p \in gkg[t].authed \ {Founder} : Witness(Founder, ss, m, t, p)
    <3>1. DOMAIN gkg = DOMAIN ss /\ gkg[s].authed = new.authed
          /\ \A t \in DOMAIN ss \ {s} : gkg[t] = ks[t]
      BY <2>1 DEF FounderArgs
    <3>2. \A t \in DOMAIN ss : ks[t].authed = ss[t].authed
      BY DEF KillAllMySiblings, FounderArgs, SsOK, SessionRec
    <3>3. AuthToken(m.from, Founder) \in m.tokens
      BY <1>5 DEF Authenticate, AuthToken
    <3> QED
      BY <1>0, <1>2, <3>1, <3>2, <3>3 DEF Witness
  <2>3. \A t \in DOMAIN dead : \A p \in dead[t].authed \ {Founder} : Witness(Founder, ss, m, t, p)
    <3>1. DOMAIN dead = DOMAIN ss /\ dead[s].authed = new.authed
          /\ \A t \in DOMAIN ss \ {s} : dead[t] = ks[t]
      BY <2>1 DEF FounderArgs
    <3>2. \A t \in DOMAIN ss : ks[t].authed = ss[t].authed
      BY DEF KillAllMySiblings, FounderArgs, SsOK, SessionRec
    <3>3. AuthToken(m.from, Founder) \in m.tokens
      BY <1>5 DEF Authenticate, AuthToken
    <3> QED
      BY <1>0, <1>2, <3>1, <3>2, <3>3 DEF Witness
  <2>10. /\ \A t \in DOMAIN ss \ {s} : ss1[t] = ks[t]
         /\ new \in SessionRec /\ new.parent = {Founder}
    <3>1. ss[s].authed \cup {m.from} \in SUBSET Users
          /\ ss[s].members \cup {m.from} \in SUBSET Users
          /\ SetKeyShare(ss[s].shares, m.from, m.share) \in SUBSET ShareVal
      BY <1>0, SetKeyShareOK DEF FounderArgs, Msg, SessionRec
    <3>2. \A t \in DOMAIN ss \ {s} : ss1[t] = ks[t]
      OBVIOUS
    <3>3. new \in SessionRec
      <4>1. [ss[s] EXCEPT !.members = ss[s].members \cup {m.from}] \in SessionRec
        BY <1>0, <3>1 DEF SessionRec
      <4> QED
        BY <4>1, <3>1, ExceptAuthedShares
    <3> QED
      BY <1>2, <3>2, <3>3
  <2> HIDE DEF ks, new, ss1, key
  <2>4. FounderSs(gkg) /\ SibEx(gkg)
    <3>1. /\ DOMAIN gkg = DOMAIN ss /\ gkg[{Founder}] = ss[{Founder}]
          /\ gkg[s].st = "GROUP_KEY_GENERATED" /\ gkg[s].parent = {Founder}
          /\ \A t \in DOMAIN ss \ {s, {Founder}} : gkg[t] = ks[t]
      BY <1>1, <2>1, <2>10, <1>6 DEF SessionRec
    <3>2. \A t \in DOMAIN ss \ {s, {Founder}} :
            gkg[t].st = "DEAD" /\ gkg[t].parent = {Founder}
      BY <1>1, <3>1
    <3> QED
      BY <1>6, <3>1, <3>2, FounderOneLive
  <2>5. FounderSs(dead) /\ SibEx(dead)
    <3>1. /\ DOMAIN dead = DOMAIN ss /\ dead[{Founder}] = ss[{Founder}]
          /\ dead[s].st = "DEAD" /\ dead[s].parent = {Founder}
          /\ \A t \in DOMAIN ss \ {s, {Founder}} : dead[t] = ks[t]
      BY <1>1, <2>1, <2>10, <1>6 DEF SessionRec
    <3>2. \A t \in DOMAIN ss \ {s, {Founder}} :
            dead[t].st = "DEAD" /\ dead[t].parent = {Founder}
      BY <1>1, <3>1
    <3> QED
      BY <1>6, <3>1, <3>2, FounderOneLive
  <2>6. confirm_auth_add_update_share_repo(Founder, ss, s, m, {Founder})
          = IF everybody_authenticated_and_contributed(ss1[s])
            THEN Result(gkg, {Founder}, << sc >>)
            ELSE Result(dead, {Founder}, << >>)
    BY <1>5 DEF confirm_auth_add_update_share_repo, ks, new, ss1, key
  <2>7. \A i \in DOMAIN << >> : MsgInv(<< >>[i])
    OBVIOUS
  <2> HIDE DEF ks, new, ss1, key, gkg, dead, sc, bad
  <2>8. CASE everybody_authenticated_and_contributed(ss1[s])
    <3>1. FounderResult(ss, m, Result(gkg, {Founder}, << sc >>))
      BY <1>3, <2>2, <2>4, FounderResultOf
    <3> QED
      BY <2>6, <2>8, <3>1
  <2>9. CASE ~everybody_authenticated_and_contributed(ss1[s])
    <3>1. FounderResult(ss, m, Result(dead, {Founder}, << >>))
      BY <2>3, <2>5, <2>7, FounderResultOf
    <3> QED
      BY <2>6, <2>9, <3>1
  <2> QED
    BY <2>8, <2>9
<1> QED
  BY <1>4, <1>5


\* A founder's session that does not handle the message keeps its state.
LEMMA FounderUnchanged ==
    ASSUME NEW ss, NEW m, FounderSs(ss), SibEx(ss)
    PROVE  FounderResult(ss, m, Result(ss, {Founder}, << >>))
<1>1. \A t \in DOMAIN ss : \A p \in ss[t].authed \ {Founder} : Witness(Founder, ss, m, t, p)
  BY DEF Witness
<1>2. \A i \in DOMAIN << >> : MsgInv(<< >>[i])
  OBVIOUS
<1> QED
  BY <1>1, <1>2, FounderResultOf

\* state_handler of the founder: the founder's own session answers
\* JOIN_REQUEST, a live child answers JOINER_AUTH, and nothing else
\* reaches a handler, since the founder skips its own PARTICIPANT_INFO and
\* SESSION_CONFIRMATION.
LEMMA FounderHandler ==
    ASSUME NEW ss, NEW s, NEW m, FounderArgs(ss, s, m), NEW viewOk \in BOOLEAN
    PROVE  FounderResult(ss, m, state_handler(Founder, ss, s, m, {Founder}, viewOk))
<1>1. CASE s = {Founder}
  <2>1. ss[s].st = "IN_SESSION"
    BY <1>1 DEF FounderArgs, FounderSs, FounderSession
  <2>2. CASE m.type = "JOIN_REQUEST"
    <3>1. state_handler(Founder, ss, s, m, {Founder}, viewOk)
            = send_auth_share_and_participant_info(Founder, ss, s, m, {Founder})
      BY <2>1, <2>2 DEF state_handler
    <3> QED
      BY <1>1, <2>2, <3>1, FounderSendAuth
  <2>3. CASE m.type # "JOIN_REQUEST"
    <3>1. state_handler(Founder, ss, s, m, {Founder}, viewOk) = Result(ss, {Founder}, << >>)
      BY <2>1, <2>3 DEF state_handler
    <3> QED
      BY <3>1, FounderUnchanged DEF FounderArgs
  <2> QED
    BY <2>2, <2>3
<1>2. CASE s # {Founder}
  <2>1. /\ m.type = "JOINER_AUTH"
        /\ ss[s].st \in {"REPLIED_TO_NEW_JOIN", "GROUP_KEY_GENERATED"}
    BY <1>2 DEF FounderArgs, FounderSs, MsgInv, Msg, MsgTypes
  <2>2. CASE ss[s].st = "REPLIED_TO_NEW_JOIN"
    <3>1. state_handler(Founder, ss, s, m, {Founder}, viewOk)
            = confirm_auth_add_update_share_repo(Founder, ss, s, m, {Founder})
      BY <2>1, <2>2 DEF state_handler
    <3> QED
      BY <1>2, <2>1, <2>2, <3>1, FounderConfirmAuth
  <2>3. CASE ss[s].st = "GROUP_KEY_GENERATED"
    <3>1. state_handler(Founder, ss, s, m, {Founder}, viewOk) = Result(ss, {Founder}, << >>)
      BY <2>1, <2>3 DEF state_handler
    <3> QED
      BY <3>1, FounderUnchanged DEF FounderArgs
  <2> QED
    BY <2>1, <2>2, <2>3
<1> QED
  BY <1>1, <1>2


(***************************************************************************)
(* The inductive invariant is preserved                                    *)
(***************************************************************************)

\* A receive step whose handler broadcasts only messages satisfying MsgInv
\* and counts a peer as authenticated only with a witness keeps the log
\* invariant and authentication soundness: the witness is an earlier entry
\* of the log or the message just read.
LEMMA AppendPreserves ==
    ASSUME TypeOK, LogInv, AuthenticationSoundness,
           NEW u \in Users, NEW r, r.out \in Seq(Msg),
           pos[u] < Len(log),
           sess' = [sess EXCEPT ![u] = r.ss],
           log' = log \o r.out,
           \A i \in DOMAIN r.out : MsgInv(r.out[i]),
           \A t \in DOMAIN r.ss : \A p \in r.ss[t].authed \ {u} :
               Witness(u, sess[u], log[pos[u] + 1], t, p)
    PROVE  LogInv' /\ AuthenticationSoundness'
<1>1. /\ Len(log') = Len(log) + Len(r.out)
      /\ \A i \in 1 .. Len(log) : log'[i] = log[i]
      /\ \A i \in 1 .. Len(r.out) : log'[Len(log) + i] = r.out[i]
  BY DEF TypeOK
<1>2. LogInv'
  <2> SUFFICES ASSUME NEW i \in 1 .. Len(log') PROVE MsgInv(log'[i])
    BY DEF LogInv
  <2>1. CASE i \in 1 .. Len(log)
    BY <1>1, <2>1 DEF LogInv
  <2>2. CASE i \notin 1 .. Len(log)
    <3>1. i - Len(log) \in DOMAIN r.out /\ log'[i] = r.out[i - Len(log)]
      BY <1>1, <2>2 DEF TypeOK
    <3> QED
      BY <3>1
  <2> QED
    BY <2>1, <2>2
<1>3. AuthenticationSoundness'
  <2> SUFFICES ASSUME NEW v \in Users, NEW t \in DOMAIN sess'[v],
                      NEW p \in sess'[v][t].authed \ {v}
               PROVE  \E i \in 1 .. Len(log') : /\ log'[i].from = p
                                                /\ log'[i].sid = t
                                                /\ AuthToken(p, v) \in log'[i].tokens
    BY DEF AuthenticationSoundness
  <2>1. CASE v # u
    <3>1. sess'[v] = sess[v]
      BY <2>1 DEF TypeOK
    <3>2. PICK i \in 1 .. Len(log) : /\ log[i].from = p
                                     /\ log[i].sid = t
                                     /\ AuthToken(p, v) \in log[i].tokens
      BY <3>1 DEF AuthenticationSoundness
    <3> QED
      BY <1>1, <3>2
  <2>2. CASE v = u
    <3>1. sess'[u] = r.ss
      BY DEF TypeOK
    <3>2. Witness(u, sess[u], log[pos[u] + 1], t, p)
      BY <2>2, <3>1
    <3>3. CASE t \in DOMAIN sess[u] /\ p \in sess[u][t].authed
      <4>1. PICK i \in 1 .. Len(log) : /\ log[i].from = p
                                       /\ log[i].sid = t
                                       /\ AuthToken(p, v) \in log[i].tokens
        BY <2>2, <3>3 DEF AuthenticationSoundness
      <4> QED
        BY <1>1, <4>1
    <3>4. CASE /\ p = log[pos[u] + 1].from /\ log[pos[u] + 1].sid = t
               /\ AuthToken(p, u) \in log[pos[u] + 1].tokens
      <4>1. pos[u] + 1 \in 1 .. Len(log)
        BY DEF TypeOK
      <4> QED
        BY <1>1, <2>2, <3>4, <4>1
    <3> QED
      BY <3>2, <3>3, <3>4 DEF Witness
  <2> QED
    BY <2>1, <2>2
<1> QED
  BY <1>2, <1>3


\* A joiner's session map has no session with a parent, so sibling
\* exclusion holds of it.
LEMMA JoinerSibEx ==
    ASSUME NEW u, NEW ss, \A t \in DOMAIN ss : JoinerRec(u, t, ss[t])
    PROVE  SibEx(ss)
BY DEF SibEx, JoinerRec

LEMMA ReceiveIInv ==
    ASSUME IInv, NEW u \in Users, Receive(u)
    PROVE  IInv'
<1> DEFINE m == log[pos[u] + 1]
           s == Target(u, m)
           r(ok) == IF m.from = u THEN Result(sess[u], room[u], << >>)
                    ELSE state_handler(u, sess[u], s, m, room[u], ok)
<1>0. PICK viewOk \in BOOLEAN :
        /\ sess' = [sess EXCEPT ![u] = r(viewOk).ss]
        /\ room' = [room EXCEPT ![u] = r(viewOk).room]
        /\ log' = log \o r(viewOk).out
  BY DEF Receive
<1> DEFINE rv == r(viewOk)
<1>1. TypeOK'
  BY ReceiveTypeOK DEF IInv
<1>2. /\ m \in Msg /\ MsgInv(m) /\ pos[u] < Len(log) /\ SsOK(sess[u])
      /\ room[u] \in DOMAIN sess[u]
  BY TypeOKSs DEF IInv, LogInv, Receive, Joined, TypeOK
<1>3. rv.out \in Seq(Msg)
  <2>1. s \in DOMAIN sess[u]
    BY <1>2 DEF Target
  <2>2. ResOK(rv)
    <3>1. ResOK(Result(sess[u], room[u], << >>))
      BY <1>2 DEF ResOK, Result, IInv, TypeOK, Slot
    <3>2. ResOK(state_handler(u, sess[u], s, m, room[u], viewOk))
      BY <1>2, <2>1, StateHandlerOK DEF HandlerArgs, IInv, TypeOK
    <3> QED
      BY <3>1, <3>2
  <2> QED
    BY <2>2 DEF ResOK
<1>4. /\ \A v \in Users \ {u} : sess'[v] = sess[v] /\ room'[v] = room[v]
      /\ sess'[u] = rv.ss /\ room'[u] = rv.room
  BY <1>0 DEF IInv, TypeOK
<1>7. sess' = [sess EXCEPT ![u] = rv.ss] /\ log' = log \o rv.out
  BY <1>0
<1> HIDE DEF rv, r
<1>5. CASE u = Founder
  <2>1. FounderResult(sess[u], m, rv)
    <3>1. FounderSs(sess[u]) /\ SibEx(sess[u]) /\ room[u] = {Founder}
      BY <1>5 DEF IInv, FounderInv, FounderSs, SiblingExclusion, SibEx
    <3>2. CASE m.from = u
      <4>1. rv = Result(sess[u], {Founder}, << >>)
        BY <3>1, <3>2 DEF rv, r
      <4> QED
        BY <3>1, <4>1, FounderUnchanged
    <3>3. CASE m.from # u
      <4>1. FounderArgs(sess[u], s, m)
        BY <1>2, <1>5, <3>1, <3>3 DEF FounderArgs, Target
      <4>2. rv = state_handler(Founder, sess[u], s, m, {Founder}, viewOk)
        BY <1>5, <3>1, <3>3 DEF rv, r
      <4> QED
        BY <1>5, <4>1, <4>2, FounderHandler
    <3> QED
      BY <3>2, <3>3
  <2>2. FounderInv'
    BY <1>4, <1>5, <2>1 DEF FounderResult, FounderInv, FounderSs
  <2>3. JoinerInv'
    BY <1>4, <1>5 DEF IInv, JoinerInv
  <2>4. SiblingExclusion'
    BY <1>4, <1>5, <2>1 DEF FounderResult, IInv, SiblingExclusion, SibEx
  <2>5. LogInv' /\ AuthenticationSoundness'
    BY <1>5, <1>7, <1>2, <1>3, <2>1, AppendPreserves DEF FounderResult, IInv
  <2> QED
    BY <1>1, <2>2, <2>3, <2>4, <2>5 DEF IInv
<1>6. CASE u # Founder
  <2>1. DOMAIN sess[u] = {room[u]} /\ JoinerRec(u, room[u], sess[u][room[u]])
    BY <1>2, <1>6 DEF IInv, JoinerInv
  <2>2. s = room[u]
    BY <2>1 DEF Target
  <2>3. JoinerResult(u, sess[u], m, rv)
    <3>1. CASE m.from = u
      <4>1. rv = Result(sess[u], room[u], << >>)
        BY <3>1 DEF rv, r
      <4> QED
        BY <2>1, <4>1, JoinerUnchanged
    <3>2. CASE m.from # u
      <4>1. JoinerArgs(u, sess[u], room[u], m)
        BY <1>2, <1>6, <2>1, <3>2 DEF JoinerArgs
      <4>2. rv = state_handler(u, sess[u], room[u], m, room[u], viewOk)
        BY <2>2, <3>2 DEF rv, r
      <4> QED
        BY <4>1, <4>2, JoinerHandler
    <3> QED
      BY <3>1, <3>2
  <2>4. FounderInv'
    BY <1>4, <1>6, UsersAssumption DEF IInv, FounderInv
  <2>5. JoinerInv'
    BY <1>4, <1>6, <2>3 DEF JoinerResult, IInv, JoinerInv
  <2>6. SiblingExclusion'
    <3>1. SibEx(rv.ss)
      BY <2>3, JoinerSibEx DEF JoinerResult
    <3> QED
      BY <1>4, <3>1 DEF IInv, SiblingExclusion, SibEx
  <2>7. LogInv' /\ AuthenticationSoundness'
    <3>1. \A i \in DOMAIN rv.out : MsgInv(rv.out[i])
      BY <2>3 DEF JoinerResult, MsgInv
    <3> QED
      BY <1>7, <1>2, <1>3, <2>3, <3>1, AppendPreserves DEF JoinerResult, IInv
  <2> QED
    BY <1>1, <2>4, <2>5, <2>6, <2>7 DEF IInv
<1> QED
  BY <1>5, <1>6


LEMMA InitIInv == Init => IInv
<1> SUFFICES ASSUME Init PROVE IInv
  OBVIOUS
<1>1. TypeOK
  BY InitTypeOK
<1>2. /\ \A v \in Users \ {Founder} : DOMAIN sess[v] = {}
      /\ DOMAIN sess[Founder] = {{Founder}}
      /\ sess[Founder][{Founder}] = FounderSession(Founder)
      /\ room[Founder] = {Founder}
  BY UsersAssumption DEF Init
<1>3. FounderInv
  BY <1>2 DEF FounderInv
<1>4. JoinerInv
  BY <1>2 DEF JoinerInv
<1>5. LogInv
  BY DEF Init, LogInv
<1>6. AuthenticationSoundness
  <2>1. \A t \in DOMAIN sess[Founder] : sess[Founder][t].authed \ {Founder} = {}
    <3>1. sess[Founder][{Founder}].authed = {Founder}
      BY <1>2 DEF FounderSession
    <3> QED
      BY <1>2, <3>1
  <2>2. \A v \in Users \ {Founder} : \A t \in DOMAIN sess[v] : sess[v][t].authed \ {v} = {}
    BY <1>2
  <2> QED
    BY <2>1, <2>2 DEF AuthenticationSoundness
<1>7. SiblingExclusion
  <2>1. \A t1, t2 \in DOMAIN sess[Founder] : t1 = t2
    BY <1>2
  <2>2. \A v \in Users \ {Founder} : DOMAIN sess[v] = {}
    BY <1>2
  <2> QED
    BY <2>1, <2>2 DEF SiblingExclusion
<1> QED
  BY <1>1, <1>3, <1>4, <1>5, <1>6, <1>7 DEF IInv

LEMMA JoinRoomIInv ==
    ASSUME IInv, NEW u \in Users, JoinRoom(u)
    PROVE  IInv'
<1>1. TypeOK'
  BY JoinRoomTypeOK DEF IInv
<1>2. u # Founder
  BY UsersAssumption DEF IInv, FounderInv, JoinRoom, Joined
<1>3. /\ \A v \in Users \ {u} : sess'[v] = sess[v] /\ room'[v] = room[v]
      /\ sess'[u] = [t \in {Unset} |-> JoinerSession(u)] /\ room'[u] = Unset
      /\ Len(log') = Len(log) + 1 /\ log'[Len(log) + 1] = JoinRequest(u)
      /\ \A i \in 1 .. Len(log) : log'[i] = log[i]
  BY DEF JoinRoom, IInv, TypeOK
<1>4. FounderInv'
  BY <1>2, <1>3, UsersAssumption DEF IInv, FounderInv
<1>5. JoinerInv'
  <2>1. JoinerRec(u, Unset, JoinerSession(u))
    BY DEF JoinerRec, JoinerSession
  <2>2. DOMAIN sess'[u] = {room'[u]} /\ sess'[u][Unset] = JoinerSession(u)
    BY <1>3
  <2>3. \A t \in DOMAIN sess'[u] : JoinerRec(u, t, sess'[u][t])
    BY <1>3, <2>1, <2>2
  <2> QED
    BY <1>2, <1>3, <2>2, <2>3 DEF IInv, JoinerInv
<1>6. LogInv'
  <2>1. MsgInv(JoinRequest(u))
    BY <1>2 DEF MsgInv, JoinRequest, Mk
  <2> QED
    BY <1>3, <2>1 DEF IInv, LogInv
<1>7. AuthenticationSoundness'
  <2>1. JoinerSession(u).authed \ {u} = {}
    BY DEF JoinerSession
  <2> QED
    BY <1>3, <2>1 DEF IInv, AuthenticationSoundness
<1>8. SiblingExclusion'
  <2>1. JoinerSession(u).parent = Unset
    BY DEF JoinerSession
  <2> QED
    BY <1>3, <2>1 DEF IInv, SiblingExclusion
<1> QED
  BY <1>1, <1>4, <1>5, <1>6, <1>7, <1>8 DEF IInv

\* IInv is an invariant of the room.
THEOREM IInvInvariant == Spec => []IInv
<1>1. Init => IInv
  BY InitIInv
<1>2. IInv /\ [Next]_vars => IInv'
  <2> SUFFICES ASSUME IInv, [Next]_vars PROVE IInv'
    OBVIOUS
  <2>1. CASE \E u \in Users : JoinRoom(u)
    BY <2>1, JoinRoomIInv
  <2>2. CASE \E u \in Users : Receive(u)
    BY <2>2, ReceiveIInv
  <2>3. CASE UNCHANGED vars
    <3>1. log' = log /\ pos' = pos /\ sess' = sess /\ room' = room
      BY <2>3 DEF vars
    <3>2. TypeOK' /\ FounderInv' /\ JoinerInv'
      BY <3>1 DEF IInv, TypeOK, FounderInv, JoinerInv
    <3>3. LogInv' /\ AuthenticationSoundness' /\ SiblingExclusion'
      BY <3>1 DEF IInv, LogInv, AuthenticationSoundness, SiblingExclusion
    <3> QED
      BY <3>2, <3>3 DEF IInv
  <2> QED
    BY <2>1, <2>2, <2>3 DEF Next
<1> QED
  BY <1>1, <1>2, PTL DEF Spec

\* Authentication soundness (be_authenticated as auth_and_reshare and
\* confirm_auth_add_update_share_repo use it), for every set of users: a
\* session of any user counts p as authenticated only if p broadcast, for
\* that session id, a token it computed for that user.
THEOREM AuthenticationSound == Spec => []AuthenticationSoundness
<1>1. IInv => AuthenticationSoundness
  BY DEF IInv
<1> QED
  BY <1>1, IInvInvariant, PTL

\* Sibling exclusion (kill_all_my_siblings in
\* confirm_auth_add_update_share_repo), for every set of users: no user
\* holds two live, complete children of one session.
THEOREM SiblingsExcluded == Spec => []SiblingExclusion
<1>1. IInv => SiblingExclusion
  BY DEF IInv
<1> QED
  BY <1>1, IInvInvariant, PTL


\* No joiner ever gets a session key (auth_and_reshare never calls
\* group_dec, so confirm_or_resession always fails validation): in a room
\* of any size, the session the room points to for a joiner is
\* JOIN_REQUESTED or DEAD, never IN_SESSION.
JoinerNeverKeyed ==
    \A u \in Users \ {Founder} :
        Joined(u) => RoomState(u) \in {"JOIN_REQUESTED", "DEAD"}

THEOREM JoinerNeverInSession == Spec => []JoinerNeverKeyed
<1>1. IInv => JoinerNeverKeyed
  BY DEF IInv, JoinerInv, JoinerRec, JoinerNeverKeyed, RoomState, Joined
<1> QED
  BY <1>1, IInvInvariant, PTL

=============================================================================
