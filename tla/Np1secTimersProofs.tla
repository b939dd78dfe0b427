------------------------- MODULE Np1secTimersProofs -------------------------
(***************************************************************************)
(* Proofs about the ack timers of one session (Np1secTimers), for every   *)
(* peer vector (duplicates included) and every bound on events and bases. *)
(***************************************************************************)
EXTENDS Np1secTimers, WellFoundedInduction, TLAPS

(***************************************************************************)
(* The inductive invariant.  event_new hands out ids in order, so the     *)
(* events used so far are 1 .. n; every handle kept in awaiting_ack or     *)
(* acks_to_send names a live event, and no two peers share an ack-await   *)
(* event; acks_to_send is empty while the client runs; and an event is     *)
(* pending only in the base whose event_base_dispatch holds the thread.    *)
(***************************************************************************)
UsedPrefix(n) == \A e \in EvIds : ev[e].st # "UNUSED" <=> e <= n

MapsLive ==
    \A p \in Peers :
        /\ awaiting[p] \in EvIds => Live(awaiting[p], ev)
        /\ acks[p] \in EvIds => Live(acks[p], ev)

AwaitDistinct ==
    \A p, q \in Peers : p # q /\ awaiting[p] \in EvIds => awaiting[p] # awaiting[q]

PendingInLoop ==
    \A e \in EvIds : ev[e].st = "ADDED" => loop # 0 /\ ev[e].base = loop

\* The client crashes only in receive, which runs outside any dispatch.
CrashedIdle == crashed => loop = 0

TInv ==
    /\ TypeOK
    /\ \E n \in 0 .. MaxEvents : UsedPrefix(n)
    /\ MapsLive
    /\ AwaitDistinct
    /\ AcksToSendEmpty
    /\ PendingInLoop
    /\ CrashedIdle

(***************************************************************************)
(* Lemmas about the operators of the model.                                *)
(***************************************************************************)
\* A nonempty set of naturals below a bound has a largest element (the
\* least element of its distances to the bound, by WFMin on <).
LEMMA BoundedMaxExists ==
    ASSUME NEW N \in Nat, NEW S \in SUBSET (0 .. N), S # {}
    PROVE  \E x \in S : \A y \in S : y <= x
<1> DEFINE D == {N - x : x \in S}
<1>1. D \subseteq Nat /\ D # {}
  <2>1. \A x \in S : N - x \in Nat
    OBVIOUS
  <2>2. PICK x0 \in S : TRUE
    OBVIOUS
  <2> QED
    BY <2>1, <2>2
<1>2. \E t \in D : \A u \in D : ~(<<u, t>> \in OpToRel(<, Nat))
  BY <1>1, NatLessThanWellFounded, WFMin
<1>3. PICK t \in D : \A u \in D : ~(u < t)
  BY <1>1, <1>2 DEF OpToRel
<1> QED
  BY <1>3

\* While the used events are 1 .. n, event_new returns n + 1, n + 2, ...
LEMMA FreshValue ==
    ASSUME TypeOK, NEW n \in 0 .. MaxEvents, UsedPrefix(n), NEW k \in Int
    PROVE  Fresh(k) = n + k
<1> DEFINE used == {e \in EvIds : ev[e].st # "UNUSED"}
<1>1. used = 1 .. n
  BY TimersAssumption DEF UsedPrefix, EvIds
<1>2. CASE n = 0
  BY <1>1, <1>2 DEF Fresh
<1>3. CASE n # 0
  <2>1. Max(1 .. n) = n
    BY <1>3, TimersAssumption DEF Max
  <2>2. used # {}
    BY <1>1, <1>3
  <2>3. Fresh(k) = Max(used) + k
    BY <2>2 DEF Fresh
  <2> QED
    BY <1>1, <2>1, <2>3
<1> QED
  BY <1>2, <1>3

\* The entry of awaiting_ack that survives the loop of start_ack_timers is
\* written at a position of the peer in the vector.
LEMMA LastIndexProps ==
    ASSUME NEW p \in Peers
    PROVE  LastIndex(p) \in 1 .. Len(PeerList) /\ PeerList[LastIndex(p)] = p
<1> DEFINE L == Len(PeerList)
           S == {i \in 1 .. L : PeerList[i] = p}
<1>1. L \in Nat /\ DOMAIN PeerList = 1 .. L
  BY TimersAssumption
<1>2. S \in SUBSET (0 .. L) /\ S # {}
  BY <1>1 DEF Peers, Range
<1>3. PICK x \in S : \A y \in S : y <= x
  BY <1>1, <1>2, BoundedMaxExists
<1>4. PeerList[x] = p /\ \A j \in x + 1 .. L : PeerList[j] # p
  BY <1>1, <1>3
<1> QED
  BY <1>3, <1>4 DEF LastIndex

\* An event record as TypeOK allows it.
EvRec == [st : EvStates, base : 0 .. MaxBases, cb : Callbacks]

\* acks_to_send with no entry.
NoAcks == [p \in Peers |-> Absent]

\* With acks_to_send empty, stop_timer_send frees nothing.
LEMMA StopTimerSendIdle ==
    ASSUME NEW acs \in [Peers -> Handles], \A p \in Peers : acs[p] = Absent,
           NEW evs \in [EvIds -> EvRec]
    PROVE  StopTimerSend(acs, evs) = [acks |-> NoAcks, ev |-> evs]
<1>1. \A p \in Peers : ~Live(acs[p], evs)
  BY DEF Live, Absent, EvIds
<1> QED
  BY <1>1 DEF StopTimerSend, NoAcks

\* The callbacks' send(..., PURE_META_MESSAGE) then changes nothing but
\* acks_to_send, which stays empty.
LEMMA SendMetaIdle ==
    ASSUME NEW aw, NEW acs \in [Peers -> Handles], \A p \in Peers : acs[p] = Absent,
           NEW evs \in [EvIds -> EvRec]
    PROVE  Send(FALSE, aw, acs, evs)
             = [awaiting |-> aw, acks |-> NoAcks, ev |-> evs,
                nbases |-> nbases, loop |-> loop]
BY StopTimerSendIdle DEF Send

\* start_receive_ack_timer after stop_timer_receive erased the entry:
\* operator[] inserts a null handle, and event_add on it crashes.
LEMMA StartReceiveAckTimerNull ==
    ASSUME NEW p, NEW aw, NEW acs, NEW evs, NEW k, Fresh(1) = k,
           Index(aw[p]) = Null
    PROVE  StartReceiveAckTimer(p, aw, acs, evs)
             = [acks |-> [acs EXCEPT ![p] = k],
                awaiting |-> [aw EXCEPT ![p] = Null],
                base |-> nbases + 1, crash |-> TRUE,
                ev |-> [evs EXCEPT ![k] = [st |-> "IDLE", base |-> nbases + 1, cb |-> "send_ack"]],
                loop |-> 0]
<1>1. ~Live(Null, [evs EXCEPT ![k] = [st |-> "IDLE", base |-> nbases + 1, cb |-> "send_ack"]])
  BY DEF Live, Null, EvIds
<1> QED
  BY <1>1 DEF StartReceiveAckTimer

(***************************************************************************)
(* One lemma per action: it keeps TInv.                                   *)
(***************************************************************************)
\* send_handler: stop_timer_send frees nothing, start_ack_timers adds one
\* fresh event per vector position, and dispatch starts on the new base.
LEMMA SendHandlerStep ==
    ASSUME TInv, SendHandler
    PROVE  TInv'
<1>1. PICK n \in 0 .. MaxEvents : UsedPrefix(n)
  BY DEF TInv
<1> DEFINE L == Len(PeerList)
           b == nbases + 1
           NewEv == [e \in EvIds |->
                       IF \E i \in 1 .. L : n + i = e
                       THEN [st |-> "ADDED", base |-> b, cb |-> "ack_not_received"]
                       ELSE ev[e]]
           NewAw == [p \in Peers |-> n + LastIndex(p)]
<1>2. /\ TypeOK /\ AcksToSendEmpty /\ ~crashed /\ loop = 0
      /\ L \in Nat /\ L > 0 /\ n + L <= MaxEvents /\ nbases < MaxBases
  <2>1. Fresh(L) = n + L
    BY <1>1, FreshValue, TimersAssumption DEF TInv
  <2> QED
    BY <2>1, TimersAssumption DEF TInv, SendHandler
<1>3. \A i \in Int : AckTimerId(i) = n + i
  BY <1>1, <1>2, FreshValue DEF AckTimerId
<1>4. StopTimerSend(acks, ev) = [acks |-> NoAcks, ev |-> ev]
  BY <1>2, StopTimerSendIdle DEF TypeOK, AcksToSendEmpty, EvRec
<1>5. \A p \in Peers : LastIndex(p) \in 1 .. L /\ PeerList[LastIndex(p)] = p
  BY LastIndexProps
<1>6. StartAckTimers(ev) = [awaiting |-> NewAw, ev |-> NewEv, base |-> b]
  <2>1. [p \in Peers |-> AckTimerId(LastIndex(p))] = NewAw
    BY <1>3, <1>5
  <2>2. \A e \in EvIds : (\E i \in 1 .. L : AckTimerId(i) = e) <=> (\E i \in 1 .. L : n + i = e)
    <3>1. \A i \in 1 .. L : AckTimerId(i) = n + i
      <4> SUFFICES ASSUME NEW i \in 1 .. L PROVE AckTimerId(i) = n + i
        OBVIOUS
      <4>1. i \in Int
        BY <1>2
      <4> QED
        BY <1>3, <4>1
    <3> QED
      BY <3>1
  <2>3. [e \in EvIds |->
           IF \E i \in 1 .. L : AckTimerId(i) = e
           THEN [st |-> "ADDED", base |-> b, cb |-> "ack_not_received"]
           ELSE ev[e]] = NewEv
    BY <2>2
  <2> QED
    BY <2>1, <2>3 DEF StartAckTimers
<1>7. Pending(b, NewEv)
  BY <1>2 DEF Pending, EvIds
<1>8. /\ awaiting' = NewAw /\ acks' = NoAcks /\ ev' = NewEv
      /\ nbases' = b /\ loop' = b /\ UNCHANGED <<chain, crashed>>
  BY <1>4, <1>6, <1>7 DEF SendHandler, Send
<1>9. \A e \in EvIds : ev[e].st # "ADDED"
  BY <1>2 DEF TInv, PendingInLoop
<1>10. TypeOK'
  <2>1. b \in 0 .. MaxBases
    BY <1>2, TimersAssumption DEF TypeOK
  <2>2. NewEv \in [EvIds -> [st : EvStates, base : 0 .. MaxBases, cb : Callbacks]]
    <3>1. [st |-> "ADDED", base |-> b, cb |-> "ack_not_received"]
            \in [st : EvStates, base : 0 .. MaxBases, cb : Callbacks]
      BY <2>1 DEF EvStates, Callbacks
    <3>2. \A e \in EvIds : ev[e] \in [st : EvStates, base : 0 .. MaxBases, cb : Callbacks]
      BY <1>2 DEF TypeOK
    <3> QED
      BY <3>1, <3>2
  <2>3. NewAw \in [Peers -> Handles]
    BY <1>2, <1>5, TimersAssumption DEF Handles, EvIds
  <2>4. NoAcks \in [Peers -> Handles]
    BY DEF NoAcks, Handles, Absent
  <2> QED
    BY <1>2, <1>8, <2>1, <2>2, <2>3, <2>4 DEF TypeOK
<1>11. UsedPrefix(n + L)'
  BY <1>1, <1>2, <1>8 DEF UsedPrefix, EvIds
<1>12. MapsLive'
  BY <1>2, <1>5, <1>8 DEF MapsLive, Live, NoAcks, EvIds, Absent
<1>13. AwaitDistinct'
  BY <1>5, <1>8 DEF AwaitDistinct
<1>14. AcksToSendEmpty' /\ PendingInLoop'
  BY <1>2, <1>8, <1>9 DEF AcksToSendEmpty, PendingInLoop, NoAcks, TypeOK
<1> QED
  BY <1>2, <1>8, <1>10, <1>11, <1>12, <1>13, <1>14 DEF TInv, CrashedIdle

\* The dispatch loop fires a pending event: it goes idle, its callback's
\* send frees nothing, and the loop goes on while its base has events.
LEMMA FireStep ==
    ASSUME TInv, NEW e \in EvIds, Fire(e)
    PROVE  TInv'
<1> DEFINE fired == [ev EXCEPT ![e].st = "IDLE"]
<1>1. /\ TypeOK /\ AcksToSendEmpty /\ PendingInLoop /\ ~crashed
      /\ loop # 0 /\ ev[e].st = "ADDED" /\ ev[e].base = loop
  BY DEF TInv, Fire
<1>2. fired \in [EvIds -> EvRec] /\ acks \in [Peers -> Handles]
      /\ \A p \in Peers : acks[p] = Absent
  BY <1>1 DEF TypeOK, EvRec, EvStates, AcksToSendEmpty
<1>3. /\ Send(FALSE, awaiting, acks, fired)
           = [awaiting |-> awaiting, acks |-> NoAcks, ev |-> fired,
              nbases |-> nbases, loop |-> loop]
  BY <1>2, SendMetaIdle
<1>4. acks = NoAcks
  BY <1>2 DEF NoAcks
<1>5. Pending(loop, fired) <=> \E x \in EvIds : fired[x].st = "ADDED"
  BY <1>1 DEF PendingInLoop, Pending, TypeOK
<1>6. /\ ev' = fired /\ UNCHANGED <<awaiting, acks, nbases, chain, crashed>>
      /\ loop' = IF Pending(loop, fired) THEN loop ELSE 0
  <2> DEFINE r == IF ev[e].cb = "ack_not_received"
                   THEN AckNotReceived(e, awaiting, acks, fired)
                   ELSE SendAck(e, awaiting, acks, fired)
  <2>1. r = [awaiting |-> awaiting, acks |-> NoAcks, ev |-> fired,
             nbases |-> nbases, loop |-> loop]
    BY <1>3 DEF AckNotReceived, SendAck
  <2>2. /\ awaiting' = r.awaiting /\ acks' = r.acks /\ ev' = r.ev
        /\ loop' = IF Pending(loop, r.ev) THEN loop ELSE 0
        /\ UNCHANGED <<nbases, chain, crashed>>
    BY DEF Fire
  <2> HIDE DEF r, fired
  <2> QED
    BY <1>4, <2>1, <2>2
<1>7. TypeOK'
  <2>1. ev' \in [EvIds -> [st : EvStates, base : 0 .. MaxBases, cb : Callbacks]]
    BY <1>2, <1>6 DEF EvRec
  <2>2. loop' \in 0 .. MaxBases
    BY <1>1, <1>6, TimersAssumption DEF TypeOK
  <2> QED
    BY <1>1, <1>6, <2>1, <2>2 DEF TypeOK
<1>8. \A x \in EvIds : ev[x].st # "UNUSED" <=> fired[x].st # "UNUSED"
  BY <1>1 DEF TypeOK
<1>9. (\E n \in 0 .. MaxEvents : UsedPrefix(n))'
  BY <1>6, <1>8 DEF TInv, UsedPrefix
<1>10. MapsLive'
  BY <1>1, <1>6 DEF TInv, MapsLive, Live, TypeOK
<1>11. PendingInLoop'
  BY <1>1, <1>5, <1>6 DEF PendingInLoop, TypeOK
<1> QED
  BY <1>1, <1>6, <1>7, <1>9, <1>10, <1>11
     DEF TInv, AwaitDistinct, AcksToSendEmpty, CrashedIdle

\* receive on a matching hash: either stop_timer_receive meets a dead
\* handle and the client stops, or it frees the peer's ack-await event
\* (not pending, since no dispatch runs) and start_receive_ack_timer
\* then meets the null entry operator[] inserts, and the client stops.
LEMMA ReceiveAcceptedStep ==
    ASSUME TInv, NEW p \in Peers, NEW id \in MsgIds, NEW m \in Msgs,
           ReceiveAccepted(p, id, m)
    PROVE  TInv'
<1>1. PICK n \in 0 .. MaxEvents : UsedPrefix(n)
  BY DEF TInv
<1> DEFINE h == Index(awaiting[p])
           str == StopTimerReceive(p, awaiting, ev)
           sra == StartReceiveAckTimer(p, str.awaiting, acks, str.ev)
<1>2. /\ TypeOK /\ MapsLive /\ AwaitDistinct /\ AcksToSendEmpty
      /\ ~crashed /\ loop = 0 /\ n + 1 <= MaxEvents /\ nbases < MaxBases
      /\ \A e \in EvIds : ev[e].st # "ADDED"
  <2>1. Fresh(1) = n + 1
    BY <1>1, FreshValue DEF TInv
  <2> QED
    BY <2>1 DEF TInv, ReceiveAccepted, AcceptMessage, PendingInLoop
<1>3. chain' = AddMessageToTranscript(id, m)
      /\ IF str.crash
         THEN /\ awaiting' = str.awaiting /\ crashed' = TRUE
              /\ UNCHANGED <<acks, ev, nbases, loop>>
         ELSE /\ awaiting' = sra.awaiting /\ acks' = sra.acks /\ ev' = sra.ev
              /\ nbases' = sra.base
              /\ loop' = IF sra.loop = 0 THEN loop ELSE sra.loop
              /\ crashed' = sra.crash
  BY DEF ReceiveAccepted, AcceptMessage
<1>4. DOMAIN chain' \subseteq {0} \cup MsgIds
  BY <1>2, <1>3 DEF TypeOK, AddMessageToTranscript
<1>5. CASE ~Live(h, ev)
  <2>1. h \in {Absent, Null}
    BY <1>2, <1>5 DEF MapsLive, TypeOK, Handles, Index, Live
  <2>2. str = [awaiting |-> [awaiting EXCEPT ![p] = h], ev |-> ev, crash |-> TRUE]
    BY <1>5 DEF StopTimerReceive
  <2>3. /\ awaiting' = [awaiting EXCEPT ![p] = h] /\ crashed' = TRUE
        /\ UNCHANGED <<acks, ev, nbases, loop>>
    BY <1>3, <2>2
  <2>4. TypeOK'
    BY <1>2, <1>4, <2>1, <2>3 DEF TypeOK, Handles
  <2>5. MapsLive' /\ AwaitDistinct'
    BY <1>2, <2>1, <2>3 DEF MapsLive, AwaitDistinct, Live, Absent, Null, EvIds
  <2> QED
    BY <1>1, <1>2, <2>3, <2>4, <2>5
       DEF TInv, UsedPrefix, AcksToSendEmpty, PendingInLoop, CrashedIdle
<1>6. CASE Live(h, ev)
  <2> DEFINE AW1 == [awaiting EXCEPT ![p] = Absent]
             EV1 == [ev EXCEPT ![h].st = "FREED"]
             b == nbases + 1
             EV2 == [EV1 EXCEPT ![n + 1] = [st |-> "IDLE", base |-> b, cb |-> "send_ack"]]
  <2>1. h = awaiting[p] /\ h \in EvIds /\ h <= n
    BY <1>1, <1>2, <1>6 DEF Index, Live, TypeOK, UsedPrefix, Absent, Null, EvIds
  <2>2. str = [awaiting |-> AW1, ev |-> EV1, crash |-> FALSE]
    BY <1>6 DEF StopTimerReceive
  <2>3. Fresh(1) = n + 1
    BY <1>1, <1>2, FreshValue
  <2>4. ~Live(Null, EV2)
    BY DEF Live, Null, EvIds
  <2>5. sra = [acks |-> [acks EXCEPT ![p] = n + 1],
               awaiting |-> [AW1 EXCEPT ![p] = Null],
               base |-> b, crash |-> TRUE, ev |-> EV2, loop |-> 0]
    <3>1. Index(AW1[p]) = Null
      BY <1>2 DEF TypeOK, Index
    <3>2. sra = StartReceiveAckTimer(p, AW1, acks, EV1)
      BY <2>2
    <3>3. StartReceiveAckTimer(p, AW1, acks, EV1)
            = [acks |-> [acks EXCEPT ![p] = n + 1],
               awaiting |-> [AW1 EXCEPT ![p] = Null],
               base |-> b, crash |-> TRUE, ev |-> EV2, loop |-> 0]
      <4>1. StartReceiveAckTimer(p, AW1, acks, EV1)
              = [acks |-> [acks EXCEPT ![p] = n + 1],
                 awaiting |-> [AW1 EXCEPT ![p] = Null],
                 base |-> nbases + 1, crash |-> TRUE,
                 ev |-> [EV1 EXCEPT ![n + 1] = [st |-> "IDLE", base |-> nbases + 1, cb |-> "send_ack"]],
                 loop |-> 0]
        <5> HIDE DEF AW1, EV1
        <5> QED
          BY <2>3, <3>1, StartReceiveAckTimerNull
      <4> QED
        BY <4>1
    <3> QED
      BY <3>2, <3>3
  <2>6. /\ awaiting' = [awaiting EXCEPT ![p] = Null]
        /\ acks' = [acks EXCEPT ![p] = n + 1] /\ ev' = EV2
        /\ nbases' = b /\ loop' = 0 /\ crashed' = TRUE
    BY <1>2, <1>3, <2>2, <2>5
  <2>7. n + 1 \in EvIds /\ b \in 0 .. MaxBases
    BY <1>2, TimersAssumption DEF TypeOK, EvIds
  <2>8. TypeOK'
    <3>1. ev' \in [EvIds -> [st : EvStates, base : 0 .. MaxBases, cb : Callbacks]]
      BY <1>2, <2>6, <2>7 DEF TypeOK, EvStates, Callbacks
    <3> QED
      BY <1>2, <1>4, <2>6, <2>7, <3>1, TimersAssumption DEF TypeOK, Handles, Null
  <2>9. UsedPrefix(n + 1)'
    BY <1>1, <1>2, <2>1, <2>6, <2>7 DEF UsedPrefix, TypeOK, EvIds
  <2>10. MapsLive'
    <3>1. \A q \in Peers \ {p} : awaiting[q] \in EvIds => awaiting[q] # h /\ awaiting[q] <= n
      BY <1>1, <1>2, <2>1 DEF AwaitDistinct, MapsLive, Live, UsedPrefix, TypeOK
    <3> QED
      BY <1>2, <2>6, <2>7, <3>1
         DEF MapsLive, Live, TypeOK, AcksToSendEmpty, Absent, Null, EvIds
  <2>11. AwaitDistinct'
    BY <1>2, <2>6 DEF AwaitDistinct, TypeOK, Null, EvIds
  <2>12. PendingInLoop'
    BY <1>2, <2>1, <2>6, <2>7 DEF PendingInLoop, TypeOK
  <2>13. (\E k \in 0 .. MaxEvents : UsedPrefix(k))'
    BY <2>7, <2>9 DEF EvIds
  <2> QED
    BY <2>6, <2>8, <2>10, <2>11, <2>12, <2>13 DEF TInv, AcksToSendEmpty, CrashedIdle
<1> QED
  BY <1>5, <1>6

\* A step of Next keeps TInv.
LEMMA NextStep ==
    ASSUME TInv, [Next]_vars
    PROVE  TInv'
<1>1. CASE SendHandler
  BY <1>1, SendHandlerStep
<1>2. CASE \E e \in EvIds : Fire(e)
  BY <1>2, FireStep
<1>3. CASE \E p \in Peers, id \in MsgIds, m \in Msgs : ReceiveAccepted(p, id, m)
  BY <1>3, ReceiveAcceptedStep
<1>4. CASE UNCHANGED vars \/ \E p \in Peers, h \in Range(chain) \cup {Forged} : ReceiveStale(p, h)
  <2>1. UNCHANGED vars
    BY <1>4 DEF ReceiveStale
  <2> QED
    BY <2>1 DEF vars, TInv, TypeOK, UsedPrefix, MapsLive, Live, AwaitDistinct,
              AcksToSendEmpty, PendingInLoop, CrashedIdle
<1> QED
  BY <1>1, <1>2, <1>3, <1>4 DEF Next

\* The initial state: no event used, both maps empty, no dispatch.
LEMMA InitTInv ==
    ASSUME Init
    PROVE  TInv
<1>1. UsedPrefix(0)
  BY DEF Init, UsedPrefix, Unused, EvIds
<1>2. TypeOK
  <2>1. Unused \in [st : EvStates, base : 0 .. MaxBases, cb : Callbacks]
    BY TimersAssumption DEF Unused, EvStates, Callbacks
  <2>2. [p \in Peers |-> Absent] \in [Peers -> Handles]
    BY DEF Handles, Absent
  <2>3. 0 \in 0 .. MaxBases
    BY TimersAssumption
  <2> QED
    BY <2>1, <2>2, <2>3 DEF Init, TypeOK
<1> QED
  BY <1>1, <1>2, TimersAssumption
     DEF Init, TInv, MapsLive, AwaitDistinct, AcksToSendEmpty, PendingInLoop, CrashedIdle,
         Unused, Absent, EvIds

(***************************************************************************)
(* TInv holds in every state of every behaviour, for every peer vector     *)
(* and every bound on events and bases.                                    *)
(***************************************************************************)
THEOREM TInvInvariant == Spec => []TInv
BY InitTInv, NextStep, PTL DEF Spec

\* The maps and the event table of the session stay well-formed: every
\* handle is Absent, Null or an event id returned by event_new.
THEOREM TypeCorrect == Spec => []TypeOK
BY TInvInvariant, PTL DEF TInv

\* stop_timer_receive and stop_timer_send erase what they free, and
\* start_ack_timers stores only fresh events: neither awaiting_ack nor
\* acks_to_send ever holds a freed event (NoDanglingHandle).
THEOREM HandlesNeverDangle == Spec => []NoDanglingHandle
<1>1. TInv => NoDanglingHandle
  BY DEF TInv, MapsLive, Live, NoDanglingHandle
<1> QED
  BY <1>1, TInvInvariant, PTL

\* A receive whose hash matches leaves the client crashed.
LEMMA AcceptedReceiveCrashes ==
    ASSUME TInv, NEW p \in Peers, NEW id \in MsgIds, NEW m \in Msgs,
           ReceiveAccepted(p, id, m)
    PROVE  crashed'
<1> DEFINE h == Index(awaiting[p])
           str == StopTimerReceive(p, awaiting, ev)
<1>1. CASE ~Live(h, ev)
  BY <1>1 DEF ReceiveAccepted, AcceptMessage, StopTimerReceive
<1>2. CASE Live(h, ev)
  <2>1. str.awaiting[p] = Absent /\ ~str.crash
    BY <1>2 DEF StopTimerReceive, TInv, TypeOK
  <2>2. Index(str.awaiting[p]) = Null
    BY <2>1 DEF Index
  <2>3. StartReceiveAckTimer(p, str.awaiting, acks, str.ev).crash
    <3>1. PICK k : Fresh(1) = k
      OBVIOUS
    <3> HIDE DEF str
    <3> QED
      BY <2>2, <3>1, StartReceiveAckTimerNull
  <2> QED
    BY <2>1, <2>3 DEF ReceiveAccepted, AcceptMessage
<1> QED
  BY <1>1, <1>2

\* For every peer vector and bound, every receive of a message whose hash
\* matches the head leaves the client crashed: stop_timer_receive frees
\* a null entry, or start_receive_ack_timer adds one (session.cc:686,
\* 701).  This generalises the timers_receive_crash run.
THEOREM EveryAcceptedReceiveCrashes ==
    Spec => [][\A p \in Peers, id \in MsgIds, m \in Msgs :
                  ReceiveAccepted(p, id, m) => crashed']_vars
<1>1. TInv /\ [Next]_vars =>
        [\A p \in Peers, id \in MsgIds, m \in Msgs : ReceiveAccepted(p, id, m) => crashed']_vars
  BY AcceptedReceiveCrashes
<1> QED
  BY <1>1, TInvInvariant, PTL DEF Spec
=============================================================================
