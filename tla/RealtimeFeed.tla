---------------------------- MODULE RealtimeFeed ----------------------------
(***************************************************************************)
(* The room's realtime hint stream: the room object of the worker          *)
(* (cityg-worker cloudflare.rs) numbers every notification, keeps the last *)
(* ones for replay and pushes them to a websocket; the GUI's websocket     *)
(* worker (cityg-gui websocket.rs) acknowledges every numbered frame and   *)
(* reconnects with `resume`.                                               *)
(*                                                                         *)
(* One client.  Other sockets share only the replay buffer, which they do  *)
(* not change.  The connection is FIFO in both directions.  A handler of   *)
(* the room object runs to its end without an await, so it is one step.    *)
(* The platform may drop the object's memory between two handlers; the     *)
(* attachment of an accepted socket survives that.                         *)
(***************************************************************************)
EXTENDS Integers, Sequences

CONSTANTS Capacity,      \* configured_ws_replay_window
          MaxLag,        \* configured_ws_max_lag
          LagThreshold,  \* configured_ws_lag_notice_threshold
          MaxEvents,     \* bound: notifications broadcast
          MaxDrops,      \* bound: connections the network breaks
          MaxEvictions   \* bound: times the object's memory is dropped

ASSUME FeedAssumption ==
  /\ Capacity \in Nat \ {0} /\ MaxLag \in Nat \ {0} /\ LagThreshold \in 1..MaxLag
  /\ MaxEvents \in Nat /\ MaxDrops \in Nat /\ MaxEvictions \in Nat

VARIABLES next,      \* RoomRealtimeState.next_sequence
          buf,       \* RoomRealtimeState.replay_buffer, oldest first
          accepted,  \* the room object holds the socket open
          att,       \* the socket's WebSocketSessionAttachment
          down,      \* frames on their way to the client
          up,        \* last_sequence of the signals on their way to the room object
          linked,    \* the client is in its read loop
          cursor,    \* the client's WebSocketReplayCursor
          seen,      \* history: notifications the client has handled
          base,      \* history: notifications broadcast before this connection
          events, drops, evictions   \* counters of the bounds

feed_vars == <<next, buf, accepted, att, down, up, linked, cursor, seen, base, events, drops, evictions>>
room == <<next, buf>>
wire == <<accepted, att, down, up>>
bounds == <<events, drops, evictions>>

(* A frame carries the number the client acknowledges; id names the notification. *)
Frames == [kind : {"event", "lag", "sync_required"}, sequence : Nat, id : Nat]
Event(e) == [kind |-> "event", sequence |-> e.sequence, id |-> e.id]
Control(kind, sequence) == [kind |-> kind, sequence |-> sequence, id |-> 0]

WebSocketSessionAttachment ==
  [last_acknowledged_sequence : Nat, last_sent_sequence : Nat,
   last_lag_notice_acknowledged_sequence : Nat]

FreshAttachment == [last_acknowledged_sequence |-> 0, last_sent_sequence |-> 0,
                    last_lag_notice_acknowledged_sequence |-> 0]

-----------------------------------------------------------------------------
(* Helpers of the room object. *)

(* Faulty variant: the loop trims when the buffer reaches its capacity, not when it exceeds it. *)
push_websocket_replay_event_Early(b, e) ==
  LET l == Append(b, e) IN IF Len(l) >= Capacity THEN Tail(l) ELSE l

(* push_websocket_replay_event: the oldest events go once the buffer is over its capacity. *)
push_websocket_replay_event(b, e) ==
  LET l == Append(b, e) IN IF Len(l) > Capacity THEN Tail(l) ELSE l

websocket_gap_is_irrecoverable(a, b) ==
  /\ a.last_acknowledged_sequence > 0
  /\ b # << >>
  /\ a.last_acknowledged_sequence + 1 < b[1].sequence

websocket_lagged_messages(a, sequence) ==
  IF a.last_acknowledged_sequence = 0 \/ sequence < a.last_acknowledged_sequence
  THEN 0 ELSE sequence - a.last_acknowledged_sequence

should_emit_websocket_lag_notice(a, sequence) ==
  /\ a.last_acknowledged_sequence > 0
  /\ websocket_lagged_messages(a, sequence) \in LagThreshold..MaxLag
  /\ a.last_lag_notice_acknowledged_sequence # a.last_acknowledged_sequence

(* The buffered events with a number after the one and up to the other, in their order. *)
buffered_websocket_events_after(b, after, upTo) ==
  LET kept[k \in 0..Len(b)] ==
        IF k = 0 THEN << >>
        ELSE IF b[k].sequence > after /\ b[k].sequence <= upTo THEN Append(kept[k - 1], b[k])
        ELSE kept[k - 1]
  IN  kept[Len(b)]

(* Faulty variant: a client that has acknowledged everything gets the last event once more. *)
replay_websocket_gap_Inclusive(a) ==
  IF a.last_acknowledged_sequence = 0 THEN << >>
  ELSE [i \in 1..Len(buffered_websocket_events_after(buf, a.last_acknowledged_sequence - 1, a.last_sent_sequence)) |->
          Event(buffered_websocket_events_after(buf, a.last_acknowledged_sequence - 1, a.last_sent_sequence)[i])]

(* replay_websocket_gap: the retained events the socket was sent and has not acknowledged. *)
replay_websocket_gap(a) ==
  LET gap == buffered_websocket_events_after(buf, a.last_acknowledged_sequence, a.last_sent_sequence)
  IN  IF \/ a.last_acknowledged_sequence = 0
         \/ a.last_acknowledged_sequence >= a.last_sent_sequence
      THEN << >>
      ELSE [i \in 1..Len(gap) |-> Event(gap[i])]

-----------------------------------------------------------------------------
FeedInit ==
  /\ next = 0 /\ buf = << >>
  /\ accepted = FALSE /\ att = FreshAttachment /\ down = << >> /\ up = << >>
  /\ linked = FALSE /\ cursor = 0 /\ seen = {} /\ base = 0
  /\ events = 0 /\ drops = 0 /\ evictions = 0

(* broadcast_websocket_payload, for the one socket: a client behind the buffer is told to
   reconcile and is closed, with its attachment left as it is; any other gets a lag notice
   if one is due and then the event. *)
PushToSocket(sequence, b) ==
  IF websocket_gap_is_irrecoverable(att, b)
  THEN /\ down' = Append(down, Control("sync_required", sequence))
       /\ accepted' = FALSE
       /\ UNCHANGED att
  ELSE LET lag == should_emit_websocket_lag_notice(att, sequence) IN
       /\ down' = down \o (IF lag THEN <<Control("lag", sequence)>> ELSE << >>)
                       \o <<Event([sequence |-> sequence, id |-> events + 1])>>
       /\ att' = [att EXCEPT !.last_sent_sequence = sequence,
                             !.last_lag_notice_acknowledged_sequence =
                               IF lag THEN att.last_acknowledged_sequence ELSE @]
       /\ UNCHANGED accepted

(* Faulty variant: the lag notice takes the place of the event. *)
broadcast_websocket_payload_LagOnly ==
  /\ events < MaxEvents
  /\ events' = events + 1
  /\ next' = next + 1
  /\ buf' = push_websocket_replay_event(buf, [sequence |-> next', id |-> events'])
  /\ IF accepted /\ should_emit_websocket_lag_notice(att, next')
     THEN /\ down' = Append(down, Control("lag", next'))
          /\ att' = [att EXCEPT !.last_sent_sequence = next']
          /\ UNCHANGED accepted
     ELSE IF accepted THEN PushToSocket(next', buf') ELSE UNCHANGED <<accepted, att, down>>
  /\ UNCHANGED <<up, linked, cursor, seen, base, drops, evictions>>

broadcast_websocket_payload ==
  /\ events < MaxEvents
  /\ events' = events + 1
  /\ next' = next + 1
  /\ buf' = push_websocket_replay_event(buf, [sequence |-> next', id |-> events'])
  /\ IF accepted THEN PushToSocket(next', buf') ELSE UNCHANGED <<accepted, att, down>>
  /\ UNCHANGED <<up, linked, cursor, seen, base, drops, evictions>>

(* record_websocket_signal: ack and resume are treated alike.  A client behind the buffer is
   told to reconcile, under the number last sent on this very connection, and is closed. *)
record_websocket_signal ==
  /\ accepted /\ up # << >>
  /\ up' = Tail(up)
  /\ LET a == [att EXCEPT !.last_acknowledged_sequence = IF Head(up) > @ THEN Head(up) ELSE @]
     IN  IF websocket_gap_is_irrecoverable(a, buf)
         THEN /\ down' = Append(down, Control("sync_required", att.last_sent_sequence))
              /\ accepted' = FALSE
              /\ UNCHANGED att
         ELSE /\ down' = down \o replay_websocket_gap(a)
              /\ att' = a
              /\ UNCHANGED accepted
  /\ UNCHANGED <<room, linked, cursor, seen, base, bounds>>

(* The room object's memory is dropped: numbering and buffer restart, sockets stay. *)
Evict ==
  /\ evictions < MaxEvictions
  /\ evictions' = evictions + 1
  /\ next' = 0 /\ buf' = << >>
  /\ UNCHANGED <<wire, linked, cursor, seen, base, events, drops>>

-----------------------------------------------------------------------------
(* The client's side. *)

(* Faulty variant: `resume` is sent although nothing was observed yet. *)
Connect_AlwaysResumes ==
  /\ ~ linked
  /\ linked' = TRUE /\ accepted' = TRUE /\ att' = FreshAttachment
  /\ down' = << >>
  /\ up' = <<cursor>>
  /\ base' = events
  /\ UNCHANGED <<room, cursor, seen, bounds>>

(* handle_websocket_connect and the head of run_websocket_worker's loop: a new attachment
   with every number zero, and `resume` as the first frame if anything was ever observed. *)
Connect ==
  /\ ~ linked
  /\ linked' = TRUE /\ accepted' = TRUE /\ att' = FreshAttachment
  /\ down' = << >>
  /\ up' = IF cursor > 0 THEN <<cursor>> ELSE << >>
  /\ base' = events
  /\ UNCHANGED <<room, cursor, seen, bounds>>

Unlink == /\ linked' = FALSE /\ accepted' = FALSE /\ att' = FreshAttachment
          /\ down' = << >> /\ up' = << >>

(* One round of the read loop: observe the number, send the ack, then handle the frame.  On a
   socket the other side has closed the ack may fail, which ends the round before the frame
   is handled. *)
Receive ==
  /\ linked /\ down # << >>
  /\ LET f == Head(down) IN
     /\ cursor' = IF f.sequence > cursor THEN f.sequence ELSE cursor
     /\ \/ /\ ~ accepted
           /\ Unlink
           /\ UNCHANGED seen
        \/ /\ f.kind = "sync_required"
           /\ Unlink
           /\ UNCHANGED seen
        \/ /\ f.kind \in {"event", "lag"}
           /\ seen' = IF f.kind = "event" THEN seen \union {f.id} ELSE seen
           /\ down' = Tail(down)
           /\ up' = IF accepted THEN Append(up, cursor') ELSE up
           /\ UNCHANGED <<accepted, att, linked>>
  /\ UNCHANGED <<room, base, bounds>>

(* The network breaks the connection; what is on the wire is lost. *)
Drop ==
  /\ linked /\ drops < MaxDrops
  /\ drops' = drops + 1
  /\ Unlink
  /\ UNCHANGED <<room, cursor, seen, base, events, evictions>>

FeedNext == \/ broadcast_websocket_payload \/ record_websocket_signal \/ Evict
            \/ Connect \/ Receive \/ Drop

(* The reconnect loop, the read loop and the platform's delivery of signals keep running;
   notifications, evictions and broken connections are up to others. *)
Fairness == WF_feed_vars(Connect) /\ WF_feed_vars(Receive) /\ WF_feed_vars(record_websocket_signal)

FeedSpec == FeedInit /\ [][FeedNext]_feed_vars /\ Fairness

-----------------------------------------------------------------------------
(* The state has the types of the code. *)
FeedTypeOK ==
  /\ next \in 0..MaxEvents /\ buf \in Seq([sequence : 1..MaxEvents, id : 1..MaxEvents])
  /\ accepted \in BOOLEAN /\ linked \in BOOLEAN
  /\ att \in WebSocketSessionAttachment
  /\ down \in Seq(Frames) /\ up \in Seq(1..MaxEvents)
  /\ cursor \in 0..MaxEvents /\ seen \subseteq 1..MaxEvents /\ base \in 0..MaxEvents
  /\ events \in 0..MaxEvents /\ drops \in 0..MaxDrops /\ evictions \in 0..MaxEvictions

(* The replay buffer holds exactly the last numbers given out since the object's memory was
   last dropped, as many as its capacity allows and without a hole: what decides between
   replay and sync_required (websocket_gap_is_irrecoverable) looks at its front only. *)
WindowIsTail ==
  /\ Len(buf) = IF next < Capacity THEN next ELSE Capacity
  /\ \A i \in 1..Len(buf) : buf[i].sequence = next - Len(buf) + i

(* As long as the room object holds the socket, a notification broadcast since the client
   connected has been handled by the client or is on the wire to it: neither a lag notice
   that runs ahead of it, nor a replay, nor the loss of the object's memory drops it. *)
LiveHintsArrive ==
  linked /\ accepted =>
    \A id \in base + 1 .. events :
      id \in seen \/ \E i \in 1..Len(down) : down[i].kind = "event" /\ down[i].id = id

(* Every acknowledgement below the last number sent makes the object replay the whole gap, and
   every replayed frame is acknowledged again.  The exchange dies out all the same: a
   connection that is not broken reaches a state with nothing on the wire. *)
Drains == linked ~> (~ linked \/ (down = << >> /\ up = << >>))
=============================================================================
