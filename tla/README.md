# A TLA+ model of np1sec

This directory holds a TLA+ model of the np1sec multi-party chat
protocol as implemented under `src/src/` (C++), the TLC configurations
that check it on small rooms, and TLAPS proofs of what holds for rooms
of any size.

## The system

* **UserState** (`userstate.cc`): one object per user. `join_room`
  creates a joiner session and calls `join()`. `receive_handler` routes
  each message of the room to a session: the live session with the
  message's id, or else the room's current session (the routing comment
  at lines 66-89).
* **Session** (`session.cc`): the protocol state machine. Incumbents
  answer a `JOIN_REQUEST` with a child session and `PARTICIPANT_INFO`.
  The joiner answers with `JOINER_AUTH`. The incumbent derives the key
  and sends `SESSION_CONFIRMATION`. Once everybody has confirmed, the
  child is activated.
* **SessionTree**: `my_children`/`my_parent`, `kill_all_my_siblings`
  and `activate`. It decides which of several concurrent children
  survives.
* **Participant** (`participant.cc/h`): per-peer state (authenticated,
  key share) and the triple-DH auth tokens (`authenticate_to`,
  `be_authenticated`).
* **TranscriptChain** (`session.cc:705-776`): `send` puts the hash of
  the chain's head in the outgoing message; `receive` drops a message
  whose hash is not the head, and otherwise appends the message's hash
  to `transcript_chain` (a map from message id to hash) and moves the
  ack timers.
* **Timers** (`session.cc:34-50, 648-703`): per peer, `awaiting_ack`
  holds the libevent timer that sends "Where is my ack?" if the peer
  stays silent after our message, and `acks_to_send` the timer that
  sends "ACK" for a message we received. Every `start_*_timer` makes a
  new `event_base` and runs `event_base_dispatch` on it, which blocks
  the calling handler until the base has no pending event.
  `send_handler` (`userstate.cc:136-145`) is the host's entry point for
  a user message.
* Crypto (`crypt.h`) and the host interface (`interface.h`). See "Not
  modelled" below.

The code is an unfinished draft and does not compile. Some examples:
`state_handler` is an empty switch, `receive_handler` never calls a
handler, and `confirm_auth_add_update_share_repo` is not a member
function. The model therefore uses these conventions:

* Dispatch follows each handler's doc comment: the (state, message
  type) pair the comment says the handler serves.
* The control flow of each handler is modelled as written. That
  includes its guards, early returns, order of steps and the checks it
  omits.
* Data the handlers build is taken in the form their comments describe.
  Examples are the view from `setup_session_view` and the self entry
  of `join()`.
* Where the literal code would do something else, it is recorded as a
  hazard in `PROJECT.json`.
* Undefined behaviour that matters is modelled as a nondeterministic
  choice. The example is the missing `return` of `setup_session_view`,
  modelled as `viewOk \in BOOLEAN`.
* Helpers whose bodies are not in `src/` are modelled from `spec.md`
  and marked `spec_modelled` in the map. These are `group_enc`,
  `group_dec`, `validate_session_confirmation`, `kill_all_my_siblings`,
  `activate` and `set_key_share`.

## Modules

| Module | Models |
|---|---|
| `Np1secSession` | Constants `Users`, `Founder`, and the types. The handlers are pure operators: each takes a user's session map, the target slot, the message, the room pointer and `viewOk`, and returns the new session map, the new room pointer and the broadcasts. The module contains the join constructor, `send_view_auth_and_share`, `send_auth_share_and_participant_info`, `setup_session_view`, `joiner_send_auth_and_share`, `auth_and_reshare`, `confirm_or_resession`, `confirm_auth_add_update_share_repo`, `mark_confirm_and_may_move_session` and `state_handler`. |
| `Np1secRoom` | The room. `log` is the server's total-order broadcast history (spec §5). `pos[u]` is how far `u` has read. `sess[u]` holds `u`'s sessions by id; the slot `{}` is the joiner session whose id is not yet set. `room[u]` is the room's current session. The actions are `JoinRoom` (`join_room`) and `Receive` (`receive_handler` plus the handler it routes to). |
| `MCNp1secRoom` | The TLC instance: users `{a, b, c}` as model values, founder `a`, symmetry on `{b, c}`; `MCPair == {a, b}` for the two-party scenario. |
| `Np1secRoomProofs` | TLAPS proofs: type correctness, the inductive invariant `IInv`, and the theorems that follow from it. |
| `MCNp1secRoomProofs` | The TLC instance of `Np1secRoomProofs`, which checks `IInv` on the three-user room before it is proved. |
| `Np1secMembership` | The abstract specification of what the join protocol promises each user: `status[u]` goes `OUTSIDE` → `JOINING` → `IN_SESSION` or `DEAD`, and from `DEAD` back to `JOINING` (`Rejoin`, as the comments of `confirm_or_resession` and spec §3 and §7 promise); the founder is `IN_SESSION` from the start; every request is eventually decided and a dead joiner eventually rejoins (weak fairness). Only its safety part is used: it is proved, not run, since the code never rejoins (`join_rejoin`). `Np1secRoom` instantiates it as `Membership` with `status <- memberStatus`: a user that has not joined is `OUTSIDE`, otherwise its status is the state of the session the room points to, every state short of a key counting as `JOINING`. |
| `Np1secMembershipProofs` | TLAPS proof that the room refines the safety part of `Np1secMembership`. |
| `Np1secTimers` | One established session of a user with peers `PeerList` (the `peers` vector). `awaiting` and `acks` are `awaiting_ack` and `acks_to_send`, mapping a peer to a handle: an event id, `Absent` (no entry) or `Null` (the entry `std::map::operator[]` inserts). `ev` is the libevent state of each event (unused, added, idle, freed) with its base and callback. `nbases` counts `event_base_new` calls, `loop` is the base being dispatched (0 when the thread is free), `chain` is `transcript_chain`, `crashed` records a libevent call on a dead handle. The actions are `SendHandler` (`send_handler` → `send(USER_MESSAGE)`: `stop_timer_send`, `start_ack_timers`, dispatch), `Fire(e)` (the dispatch loop runs `cb_ack_not_received` or `cb_send_ack`, each a `send(PURE_META_MESSAGE)`, and returns when its base is empty), `ReceiveStale` (hash mismatch: nothing changes) and `ReceiveAccepted` (`add_message_to_transcript`, `stop_timer_receive`, `start_receive_ack_timer`, in that order, stopping at the first call on a dead handle). |
| `MCNp1secTimers` | The TLC instance: peers `<<b, c, d>>`, plaintexts `{m1, m2}`, message ids `{1, 2}`. |
| `Np1secTimersProofs` | TLAPS proofs about `Np1secTimers` for every peer vector and every bound: the inductive invariant `TInv`, type correctness, `NoDanglingHandle`, and that every accepted receive crashes. |
| `MCNp1secTimersProofs` | The TLC instance of `Np1secTimersProofs`, with the peer vector `<<b, c, b>>` (a repeated peer, as `join` can produce), which checks `TInv` before it is proved. |

Data abstraction:

* A session id is the set of participants it was computed over. Every
  user joins at most once, so its ephemeral key is fixed.
* A key share is `[owner, sid]`, and a group key is the set of shares
  it is derived from.
* An auth token is `[from, to]`. Only the two ends know the p2p key,
  and the recipient's id is the hashed suffix.
* A message is a record with the fields the handlers read.

Hashes and DH are ideal: nobody forges a token or a share.

## Runs

| Run | Config | Result | Shows |
|---|---|---|---|
| `room_safety` | `MCNp1secRoom.cfg` | pass (2386 states) | `TypeOK`; `AuthenticationSoundness`: a session counts `p` as authenticated only if `p` broadcast, for that session id, a token it computed for that user; `SiblingExclusion`: two live children of one session are never both complete. |
| `inductive_invariant` | `MCNp1secRoomProofs.cfg` | pass (2386 states) | `IInv`, the strengthening the proofs rest on (see Proofs), holds in every reachable state. |
| `timers_safety` | `MCNp1secTimers.cfg` | pass (133 states) | `NoDanglingHandle`: neither map ever holds a freed event (`stop_timer_receive` and `stop_timer_send` erase what they free, and two peers never share an ack-await event); `SendReturns`: every `send_handler` call returns, because the one-shot ack-await timers of its dispatch all fire. |
| `timers_inductive_invariant` | `MCNp1secTimersProofs.cfg` | pass (105 states) | `TInv`, the strengthening the timer proofs rest on (see Proofs), holds on a vector with a repeated peer. |
| `timers_receive_crash` | `MCNp1secTimersCrash.cfg` | violation | `AcceptedMessageProcessed` fails in one step: a message whose hash matches makes `stop_timer_receive` free a null handle (nothing was awaited from that peer) or, after a send, makes `start_receive_ack_timer` add the null handle `operator[]` re-inserts (session.cc:686, 701). Spec §4.7 says the message is delivered and the ack-send armed. |
| `timers_event_leak` | `MCNp1secTimersLeak.cfg` | violation | `NoLeakedEvent` fails after two user messages: `start_ack_timers` overwrites the first message's `awaiting_ack` events without freeing them (session.cc:668). |
| `join_completes` | `MCNp1secRoomJoin.cfg` | violation | `JoinCompletes` (spec §8 scenario 1) fails. `auth_and_reshare` never calls `group_dec`, so the joiner cannot validate the confirmation and goes DEAD. The founder's child stays in `GROUP_KEY_GENERATED`. |
| `join_rejoin` | `MCNp1secRoomRejoin.cfg` | violation | `DeadJoinerRejoins` fails: once the joiner's session dies in `confirm_or_resession`, nothing makes it join again. The comments at session.cc:385, 391 and 400-402, and spec §3 and §7, say the user rejoins; the session built at 403 has no id, so it is neither stored nor sends a request. |
| `joiner_auth_order` | `MCNp1secRoomAuthOrder.cfg` | violation | `JoinerAuthForOfferedView` fails. A joiner that reads the `PARTICIPANT_INFO` addressed to another joiner broadcasts `JOINER_AUTH` for a view nobody offered, before authenticating the sender (session.cc:347 against 351-355). |

**Bounds.** Three users are the smallest room where two joins race:
the founder answers both, and each joiner sees the other's
`PARTICIPANT_INFO`. Every user joins at most once, so the log is
bounded and the state space is finite without further caps. Two users
are enough for scenario 1.

The timers instance has three peers, so a batch of ack-await events can
fire in every order, and two message ids, so an id below the head's can
arrive. `MaxEvents = 19` and `MaxBases = 8` allow six user messages in
a row (three events each), enough for the overwrite of `awaiting_ack`
entries and for a receive after any number of sends. These caps are
the only bounds; an action that would exceed one is disabled.

**Deadlock.** Checking is off (`CHECK_DEADLOCK FALSE`) because a room
in which everybody has joined and read everything is idle. In the
timers model a crashed client, or one whose event and base caps are
used up, has no step left either.

**Fairness.** The fairness is `WF_vars(Receive(u))` for each user. The
server delivers every broadcast to every member, and a client
processes what it is delivered. `JoinRoom` is not fair, since a user
may never join. In `Np1secTimers` the fairness is weak fairness on
`Fire`: a pending ten-second timer expires and libevent runs its
callback. The host's calls (`SendHandler`, receiving) are not fair.

## Proofs

The theorems about the room are in `Np1secRoomProofs` and
`Np1secMembershipProofs`, those about the timers in
`Np1secTimersProofs`. The room theorems hold for every finite set of users. The one assumption is `UsersAssumption`: `Users` is finite
and contains `Founder`.

* `TypeCorrect`: `Spec => []TypeOK`. `TypeOK` is inductive as it
  stands. It rests on a lemma per map or record update (`PutOK`,
  `KillOK`, `SetKeyShareOK`, `ExceptAuthedShares`, `ExceptSt`,
  `ExceptConfirmed`), a lemma per handler, `StateHandlerOK` for the
  dispatch, and `JoinRoomTypeOK` and `ReceiveTypeOK` for the actions.
* `IInvInvariant`: `Spec => []IInv`.
* `AuthenticationSound`: `Spec => []AuthenticationSoundness`.
* `SiblingsExcluded`: `Spec => []SiblingExclusion`.
* `JoinerNeverInSession`: a joiner's current session is always
  `JOIN_REQUESTED` or `DEAD`. This is the `join_completes` violation
  for every room size: no joiner ever reaches `IN_SESSION`.

**The inductive invariant.** `AuthenticationSoundness` and
`SiblingExclusion` are not inductive alone. For example, a step of a
session that is already an incumbent could add a peer to `authed` with
no token in the log, unless one knows who can be an incumbent. `IInv`
adds what the reachable states have in common:

* `FounderInv`: the founder's session `{Founder}` is still what `join()`
  made. Its other sessions are children of it, in
  `REPLIED_TO_NEW_JOIN`, `GROUP_KEY_GENERATED` or `DEAD`.
* `JoinerInv`: a joiner holds at most one session, the one the room
  points to. It is `JOIN_REQUESTED` or `DEAD`, has no key and no parent,
  and has authenticated at most the founder. While it waits with its id
  set, the id is `{Founder, u}`.
* `LogInv`: joiners send `JOIN_REQUEST` and only the founder sends
  `SESSION_CONFIRMATION`. Every `PARTICIPANT_INFO` is the founder's and
  offers `{Founder, j}`, with one token, to one joiner `j`.

Why this holds: a joiner never calls `group_dec`, so its key stays
empty and `confirm_or_resession` always kills it. No joiner becomes an
incumbent, and `mark_confirm_and_may_move_session` is never reached.

The proof of `IInv /\ [Next]_vars => IInv'` is organised like this:

* One lemma per handler as a joiner runs it (`JoinerAuthAndReshare`,
  `JoinerConfirmOrResession`, `JoinerUnchanged`), combined in
  `JoinerHandler`.
* One lemma per handler as the founder runs it (`FounderSendAuth`,
  `FounderConfirmAuth`, `FounderUnchanged`), combined in
  `FounderHandler`.
* Each handler lemma shows that every peer newly counted as
  authenticated has a `Witness`: the message just read carries its
  token for that id.
* `FounderOneLive` carries sibling exclusion across `JOINER_AUTH`.
  After `kill_all_my_siblings`, only the accepting child is live.
* `AppendPreserves` turns the handler results into `LogInv` and
  `AuthenticationSoundness` for the extended log.
* `InitIInv`, `JoinRoomIInv` and `ReceiveIInv` are the three cases of
  the step.

TLC checks `IInv` on the three-user room (run `inductive_invariant`)
before it is proved.

**Refinement.** `MembershipRefinement` in `Np1secMembershipProofs`
proves `Spec => Membership!Init /\ [][Membership!Next]_memberStatus`.
Initial states map to the abstract initial state: only the founder has
joined, and its session is `IN_SESSION`. For the step it uses `IInv`
in both states:

* `OthersUnchanged`: a step of `u` leaves every other user's status
  alone.
* `JoinRoom(u)` is the abstract `Join(u)`: `u` was not joined, and is
  not the founder.
* A founder's step is a stutter (`FounderInSession`, from
  `FounderInv`).
* For a joiner, `JoinerReceiveStatus` shows that a step keeps it joined
  and that a `DEAD` session stays `DEAD`: `state_handler` has no case
  for a dead session, and the routing hands the joiner's only session
  every message. With `JoinerStatus` (the joiner part of `IInv`), the
  status is `JOINING` or `DEAD` in both states. So the step is a
  stutter or the abstract `Reject(u)`.

The abstract `Accept` is never taken: this is the `join_completes`
violation seen from above. Nor is `Rejoin`: a dead session stays
the room's session for good, which is the `join_rejoin` violation.

**Timers.** `Np1secTimersProofs` proves its theorems for every peer
vector and every `MaxEvents` and `MaxBases`. It rests on
`TimersAssumption`: `PeerList` is a nonempty sequence, message ids are
positive, and the bounds are naturals. `Np1secTimers` defines its own
`Range` and `Max` rather than take them from `Functions` and
`FiniteSetsExt`, because both of those modules extend `Folds`, which
declares `RECURSIVE` operators. `TypeOK`, `NoDanglingHandle` and
`AcksToSendEmpty` (`acks_to_send` is empty while the client runs) are
not inductive on their own. The strengthening
`TInv` adds four facts:

* `UsedPrefix(n)`: `event_new` hands out ids in order, so the used
  events are `1 .. n`. Then `Fresh(k) = n + k` (`FreshValue`), and a
  fresh event is never one a map still holds.
* `MapsLive`: every event id kept in either map is live (added or idle).
* `AwaitDistinct`: two peers never share an ack-await event. Without
  it, freeing one peer's event in `stop_timer_receive` could leave
  another peer's entry dangling. It holds because `start_ack_timers`
  keeps, for each peer, the event of its last position in the vector
  (`LastIndexProps`). That lemma needs a largest element of a bounded
  set of naturals; `BoundedMaxExists` gets it from `WFMin` on
  `NatLessThanWellFounded`, so no induction with an operator parameter
  is used.
* `PendingInLoop`: an event is pending only in the base whose dispatch
  holds the thread. So when a message is received (`loop = 0`), no
  event is pending.
* `CrashedIdle`: once the client has crashed, no dispatch runs.

There is one lemma per action: `SendHandlerStep`, `FireStep` and
`ReceiveAcceptedStep`. Each shows that the step keeps `TInv`. The receive lemma follows both crash
paths: a dead handle in `stop_timer_receive`, or the null entry that
`operator[]` inserts before `start_receive_ack_timer`'s `event_add`
(`StartReceiveAckTimerNull`). From these steps follow `TInvInvariant`,
`TypeCorrect`, `HandlesNeverDangle` (`NoDanglingHandle`) and
`EveryAcceptedReceiveCrashes`. The last
generalises the `timers_receive_crash` violation to every instance:
every receive whose hash matches leaves the client crashed
(`AcceptedReceiveCrashes`).

Only TLC checks the following:

* Liveness: `SendReturns`, and the violated `JoinCompletes` and
  `DeadJoinerRejoins`. TLAPS does not handle fairness and
  `ENABLED`.
* `JoinerAuthForOfferedView`, `AcceptedMessageProcessed` and
  `NoLeakedEvent`, which are violated.

## Not modelled (yet)

* The leave path: the incumbent-on-leave constructor,
  `send_share_message`, `send_farewell_and_reshare` and `farewell`.
* `received_p_list`.
* An adversary sending forged `JOINER_AUTH` (spec scenario 2).
* Duplicated delivery.
* The heartbeat (`start_heartbeat_timer`, `cb_send_heartbeat`). Nothing
  in `src/` calls `start_heartbeat_timer`.
* The ordering and map operators of `participant.cc`: `operator<`,
  `operator+` and `operator-` have no caller in `src/`, and
  `ParticipantMap` is ordered by its string keys.
* In `Np1secTimers`, the data conventions above also apply to
  `send`: `std::string meta_load = NULL` (session.cc:726) is taken as no
  load. `add_message_to_transcript` is taken as its comment describes:
  the hash of the head and the message, stored under the message id.
  The uninitialised `HashBlock*` it writes through is not modelled.
  The chain starts from `H0`, as the spec describes; `src/` never
  initialises it. All of these are listed as hazards.
* The crypto wrappers in `crypt.h`. They are assumed ideal.
* The message codec. It is not in `src/`.
* The host callbacks in `interface.h`. They are declarations only.
