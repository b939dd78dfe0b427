---------------------------- MODULE Np1secTimers ----------------------------
(***************************************************************************)
(* The ack timers and the transcript chain of one established np1sec      *)
(* session (session.cc:40-50, 658-774) as the host drives it through       *)
(* send_handler and receive (userstate.cc:131, 136-145).                   *)
(*                                                                         *)
(* The session owns two maps from peer to a libevent handle: awaiting_ack  *)
(* (the timer that fires "Where is my ack?" if the peer stays silent after *)
(* our user message) and acks_to_send (the timer that makes us send "ACK"  *)
(* for a message we received).  Every start_*_timer creates a fresh        *)
(* event_base, adds its events and calls event_base_dispatch, which runs   *)
(* the base's callbacks on the calling thread and returns only when the   *)
(* base has no pending event: while it runs the session handles nothing    *)
(* else.  A handle is an event id or one of the two non-events Absent     *)
(* (no map entry) and Null (the entry std::map::operator[] inserts).       *)
(* A libevent call on a handle that is not a live event dereferences a     *)
(* null or freed pointer; the client is then crashed.                      *)
(*                                                                         *)
(* The transcript chain is the map transcript_chain from message id to     *)
(* hash; its head is the entry with the largest id (rbegin()).  Hashes are *)
(* ideal: the hash of (h, m) is the pair <<h, m>>.                         *)
(***************************************************************************)
EXTENDS Integers, Sequences

\* The values of a function (Functions!Range, here without Folds so that the
\* proofs of Np1secTimersProofs can use this module).
Range(f) == {f[x] : x \in DOMAIN f}

\* The largest element of a set of integers: the last key of a std::map.
Max(S) == CHOOSE x \in S : \A y \in S : y <= x

CONSTANTS
    PeerList,    \* session.peers, in vector order
    Msgs,        \* plaintexts peers may send
    MsgIds,      \* message ids a received message may carry
    MaxEvents,   \* bound on event_new calls
    MaxBases     \* bound on event_base_new calls

Peers == Range(PeerList)

ASSUME TimersAssumption ==
    /\ PeerList \in Seq(Peers) /\ Len(PeerList) > 0
    /\ MsgIds \subseteq Nat \ {0}
    /\ MaxEvents \in Nat /\ MaxBases \in Nat

VARIABLES
    awaiting,   \* awaiting_ack: peer -> handle
    acks,       \* acks_to_send: peer -> handle
    ev,         \* event id -> its libevent state
    nbases,     \* number of event bases created so far
    loop,       \* the base event_base_dispatch is running, 0 when idle
    chain,      \* transcript_chain: message id -> hash
    crashed     \* the client dereferenced a dead handle

vars == <<awaiting, acks, ev, nbases, loop, chain, crashed>>

EvIds == 1 .. MaxEvents
\* Absent: no map entry; Null: the entry std::map::operator[] inserts.
Absent == -1
Null == 0
Handles == {Absent, Null} \cup EvIds
Callbacks == {"none", "ack_not_received", "send_ack"}
\* UNUSED: never returned by event_new; ADDED: pending in its base;
\* IDLE: allocated and not pending (never added, or already fired).
EvStates == {"UNUSED", "ADDED", "IDLE", "FREED"}
Unused == [st |-> "UNUSED", base |-> 0, cb |-> "none"]
H0 == "H0"
\* A chain hash this session never computed (a peer on a forked chain).
Forged == "forged"

TypeOK ==
    /\ awaiting \in [Peers -> Handles]
    /\ acks \in [Peers -> Handles]
    /\ ev \in [EvIds -> [st : EvStates, base : 0 .. MaxBases, cb : Callbacks]]
    /\ nbases \in 0 .. MaxBases
    /\ loop \in 0 .. MaxBases
    /\ DOMAIN chain \subseteq {0} \cup MsgIds
    /\ crashed \in BOOLEAN

\* The handle names an event that is allocated and not freed.
Live(h, evs) == h \in EvIds /\ evs[h].st \in {"ADDED", "IDLE"}

\* The lowest event ids event_new has not returned yet.
Fresh(k) == LET used == {e \in EvIds : ev[e].st # "UNUSED"}
            IN (IF used = {} THEN 0 ELSE Max(used)) + k

\* rbegin()->second: the hash stored under the largest message id.
ChainHead == chain[Max(DOMAIN chain)]

\* Both callbacks end in send(..., PURE_META_MESSAGE), whose only state
\* change is stop_timer_send: free every acks_to_send event and erase it.
StopTimerSend(acs, evs) ==
    LET live == {p \in Peers : Live(acs[p], evs)}
    IN  [acks |-> [p \in Peers |-> Absent],
         ev   |-> [e \in EvIds |->
                    IF \E p \in live : acs[p] = e
                    THEN [evs[e] EXCEPT !.st = "FREED"] ELSE evs[e]]]

\* The base still has a pending event, so event_base_dispatch goes on.
Pending(b, evs) == \E e \in EvIds : evs[e].st = "ADDED" /\ evs[e].base = b

(***************************************************************************)
(* start_ack_timers: a new base, one new event per peer stored in          *)
(* awaiting_ack[peer] (the old handle is overwritten) and added; the       *)
(* caller then runs event_base_dispatch on the base.                       *)
(***************************************************************************)
\* The event event_new returns for the i-th peer of the vector.
AckTimerId(i) == Fresh(i)

\* The last position of p in the vector: its entry is the one that stays.
LastIndex(p) == CHOOSE i \in 1 .. Len(PeerList) :
                    PeerList[i] = p /\ \A j \in i + 1 .. Len(PeerList) : PeerList[j] # p

StartAckTimers(evs) ==
    LET b == nbases + 1
    IN [awaiting |-> [p \in Peers |-> AckTimerId(LastIndex(p))],
        ev       |-> [e \in EvIds |->
                        IF \E i \in 1 .. Len(PeerList) : AckTimerId(i) = e
                        THEN [st |-> "ADDED", base |-> b, cb |-> "ack_not_received"]
                        ELSE evs[e]],
        base     |-> b]

(***************************************************************************)
(* send(message, type): stop_timer_send, then for a USER_MESSAGE           *)
(* start_ack_timers, whose dispatch holds the thread until the base is    *)
(* empty.  send_bare is commented out: nothing leaves the client, and the *)
(* message is not added to the sender's own transcript.                   *)
(***************************************************************************)
Send(user, aw, acs, evs) ==
    LET st  == StopTimerSend(acs, evs)
        sat == StartAckTimers(st.ev)
    IN IF user
       THEN [awaiting |-> sat.awaiting, acks |-> st.acks, ev |-> sat.ev,
             nbases |-> sat.base,
             loop |-> IF Pending(sat.base, sat.ev) THEN sat.base ELSE 0]
       ELSE [awaiting |-> aw, acks |-> st.acks, ev |-> st.ev,
             nbases |-> nbases, loop |-> loop]

\* send_handler(room, plain): the room's session sends a USER_MESSAGE.
SendHandler ==
    /\ ~crashed
    /\ loop = 0
    /\ Fresh(Len(PeerList)) <= MaxEvents
    /\ nbases < MaxBases
    /\ LET r == Send(TRUE, awaiting, acks, ev)
       IN /\ awaiting' = r.awaiting
          /\ acks' = r.acks
          /\ ev' = r.ev
          /\ nbases' = r.nbases
          /\ loop' = r.loop
    /\ UNCHANGED <<chain, crashed>>

(***************************************************************************)
(* The dispatch loop fires a pending event of its base (a one-shot         *)
(* EV_TIMEOUT event is no longer pending once fired) and runs its          *)
(* callback; event_base_dispatch returns when no event is pending.         *)
(***************************************************************************)
\* Mutant: the ack-await callback re-arms its own timer, as
\* cb_send_heartbeat does with start_heartbeat_timer.
AckNotReceivedRearm(e, aw, acs, evs) ==
    LET r == Send(FALSE, aw, acs, evs)
    IN [r EXCEPT !.ev[e].st = "ADDED"]

\* cb_ack_not_received: send("Where is my ack?", PURE_META_MESSAGE).
AckNotReceived(e, aw, acs, evs) == Send(FALSE, aw, acs, evs)

\* cb_send_ack: send("ACK", PURE_META_MESSAGE).
SendAck(e, aw, acs, evs) == Send(FALSE, aw, acs, evs)

Fire(e) ==
    /\ ~crashed
    /\ loop # 0
    /\ ev[e].st = "ADDED"
    /\ ev[e].base = loop
    /\ LET fired == [ev EXCEPT ![e].st = "IDLE"]
           r == IF ev[e].cb = "ack_not_received"
                THEN AckNotReceived(e, awaiting, acks, fired)
                ELSE SendAck(e, awaiting, acks, fired)
       IN /\ awaiting' = r.awaiting
          /\ acks' = r.acks
          /\ ev' = r.ev
          /\ loop' = IF Pending(loop, r.ev) THEN loop ELSE 0
    /\ UNCHANGED <<nbases, chain, crashed>>

(***************************************************************************)
(* receive(raw): a message whose transcript_chain_hash is not the head is  *)
(* dropped ("The hash is a lie!").  Otherwise add_message_to_transcript,   *)
(* stop_timer_receive(sender) and start_receive_ack_timer(sender).         *)
(***************************************************************************)
\* operator[] on an absent key inserts a null handle.
Index(h) == IF h = Absent THEN Null ELSE h

\* add_message_to_transcript: transcript_chain[id] = hash(head ":O3" m).
AddMessageToTranscript(id, m) ==
    [x \in DOMAIN chain \cup {id} |-> IF x = id THEN <<ChainHead, m>> ELSE chain[x]]

\* Mutant: the event is freed but its map entry is kept.
StopTimerReceiveNoErase(p, aw, evs) ==
    LET h == Index(aw[p])
    IN IF Live(h, evs)
       THEN [awaiting |-> [aw EXCEPT ![p] = h],
             ev |-> [evs EXCEPT ![h].st = "FREED"], crash |-> FALSE]
       ELSE [awaiting |-> [aw EXCEPT ![p] = h], ev |-> evs, crash |-> TRUE]

\* stop_timer_receive: event_free(awaiting_ack[p]); awaiting_ack.erase(p).
StopTimerReceive(p, aw, evs) ==
    LET h == Index(aw[p])
    IN IF Live(h, evs)
       THEN [awaiting |-> [aw EXCEPT ![p] = Absent],
             ev |-> [evs EXCEPT ![h].st = "FREED"], crash |-> FALSE]
       ELSE [awaiting |-> [aw EXCEPT ![p] = h], ev |-> evs, crash |-> TRUE]

\* start_receive_ack_timer: a new base and a send_ack event stored in
\* acks_to_send[p]; then event_add(awaiting_ack[p]) and dispatch.
StartReceiveAckTimer(p, aw, acs, evs) ==
    LET b == nbases + 1
        e == Fresh(1)
        evs1 == [evs EXCEPT ![e] = [st |-> "IDLE", base |-> b, cb |-> "send_ack"]]
        h == Index(aw[p])
        evs2 == [evs1 EXCEPT ![h].st = "ADDED"]
    IN [acks |-> [acs EXCEPT ![p] = e], awaiting |-> [aw EXCEPT ![p] = h],
        base |-> b, crash |-> ~Live(h, evs1),
        ev |-> IF Live(h, evs1) THEN evs2 ELSE evs1,
        loop |-> IF Live(h, evs1) /\ Pending(b, evs2) THEN b ELSE 0]

\* receive on a message whose hash is not the head: nothing changes.
ReceiveStale(p, h) ==
    /\ ~crashed
    /\ loop = 0
    /\ h # ChainHead
    /\ UNCHANGED vars

\* receive on a message whose hash matches: the three calls in order; a
\* call on a dead handle stops the client where it is made.
AcceptMessage(p, id, m) ==
    /\ Fresh(1) <= MaxEvents
    /\ nbases < MaxBases
    /\ chain' = AddMessageToTranscript(id, m)
    /\ LET str == StopTimerReceive(p, awaiting, ev)
           sra == StartReceiveAckTimer(p, str.awaiting, acks, str.ev)
       IN IF str.crash
          THEN /\ awaiting' = str.awaiting
               /\ crashed' = TRUE
               /\ UNCHANGED <<acks, ev, nbases, loop>>
          ELSE /\ awaiting' = sra.awaiting
               /\ acks' = sra.acks
               /\ ev' = sra.ev
               /\ nbases' = sra.base
               /\ loop' = IF sra.loop = 0 THEN loop ELSE sra.loop
               /\ crashed' = sra.crash

\* receive_handler hands the message to the session: only when the thread
\* is not inside an event_base_dispatch.
ReceiveAccepted(p, id, m) ==
    /\ ~crashed
    /\ loop = 0
    /\ AcceptMessage(p, id, m)

Init ==
    /\ awaiting = [p \in Peers |-> Absent]
    /\ acks = [p \in Peers |-> Absent]
    /\ ev = [e \in EvIds |-> Unused]
    /\ nbases = 0
    /\ loop = 0
    /\ chain = [x \in {0} |-> H0]
    /\ crashed = FALSE

Next ==
    \/ SendHandler
    \/ \E e \in EvIds : Fire(e)
    \/ \E p \in Peers, h \in Range(chain) \cup {Forged} : ReceiveStale(p, h)
    \/ \E p \in Peers, id \in MsgIds, m \in Msgs : ReceiveAccepted(p, id, m)

\* The dispatch loop fires an expired timer: time passes for libevent.
Spec == Init /\ [][Next]_vars /\ WF_vars(\E e \in EvIds : Fire(e))

-----------------------------------------------------------------------------
(* Properties *)

\* No map of the session holds a freed event: the next event_add or
\* event_free through awaiting_ack or acks_to_send would be a use after
\* free (stop_timer_receive, stop_timer_send erase what they free).
NoDanglingHandle ==
    \A p \in Peers :
        /\ awaiting[p] \in EvIds => ev[awaiting[p]].st # "FREED"
        /\ acks[p] \in EvIds => ev[acks[p]].st # "FREED"

\* While the client runs, acks_to_send is empty: its only insertion, in
\* start_receive_ack_timer, is followed by the crash of its event_add.  A
\* conjunct of the inductive invariant of Np1secTimersProofs.
AcksToSendEmpty == ~crashed => \A p \in Peers : acks[p] = Absent

\* Every send_handler call returns: the dispatch loop of start_ack_timers
\* empties its base and gives the thread back.
SendReturns == (loop # 0) ~> (loop = 0)

\* A message whose chain hash matches is processed without the client
\* crashing (spec §4.7: deliver, cancel the ack-await, arm the ack-send).
AcceptedMessageProcessed == ~crashed

\* Every event the session allocated and has not freed is reachable from
\* awaiting_ack or acks_to_send, or pending in the running dispatch loop.
NoLeakedEvent ==
    \A e \in EvIds :
        Live(e, ev) =>
            \/ e \in Range(awaiting) \cup Range(acks)
            \/ ev[e].st = "ADDED" /\ ev[e].base = loop
=============================================================================
