------------------------------ MODULE GuiSession ------------------------------
(****************************************************************************)
(* The chat of the desktop client (cityg-gui/src/native): the poll loop     *)
(* that fetches messages, the sending of a message, the epoch sync that     *)
(* replaces the session under both, and the list the user sees.             *)
(*                                                                          *)
(* The interface thread owns the session.  A fetch, a sync and a send each  *)
(* run on values copied from it when they were scheduled, and hand back a   *)
(* result later.  What the interface knows about messages is a cursor (the  *)
(* largest timestamp seen, 0 for none) and the set of messages it has       *)
(* already opened in the epoch.                                             *)
(*                                                                          *)
(* The server keeps the messages of each epoch and stamps them with its own *)
(* clock; the stamp a client puts on its own message is its own clock,      *)
(* which runs `Skew` ticks ahead.  What a sync finds out about the barrier  *)
(* is not modelled here (ClientBarrier does that): it may or may not leave  *)
(* the session waiting for barrier recovery.                                *)
(****************************************************************************)
EXTENDS Integers, FiniteSets

CONSTANTS PeerIds,      \* messages the other members send
          OwnIds,       \* messages this device sends
          MaxEpoch,     \* epochs of the room
          MaxClock,     \* ticks of the server's clock
          Skew,         \* how far this device's clock is ahead
          MaxChanges,   \* syncs that change the session within an epoch
          MaxFailures   \* fetches and saves that fail

ASSUME GuiAssumption ==
  /\ PeerIds \cap OwnIds = {} /\ PeerIds \cup OwnIds \subseteq Nat \ {0}
  /\ MaxEpoch \in Nat /\ MaxClock \in Nat \ {0} /\ Skew \in Nat
  /\ MaxChanges \in Nat /\ MaxFailures \in Nat

VARIABLES clock, room, store,    \* the server: clock, current epoch, messages
          session,               \* the session of the interface
          list, keys,            \* sent and fetched entries shown, and their
                                 \* keys for deduplication
          own,                   \* the entry of a send that is not confirmed
          fetch, sync, send,     \* the three tasks
          after,                 \* fetch_after_epoch_sync
          jump,                  \* largest own timestamp put in the cursor
          changes, failures      \* budgets used

vars == <<clock, room, store, session, list, keys, own, fetch, sync, send, after,
          jump, changes, failures>>
server == <<clock, room, store>>
budget == <<changes, failures>>

----------------------------------------------------------------------------
(* State.                                                                   *)

Ids == PeerIds \cup OwnIds
Message == [id: Ids, we: Nat, ts: Nat]

\* The part of AppSession that chat uses.
AppSession == [we: Nat, cursor: Nat, seen: SUBSET Ids, recov: BOOLEAN]

Fetch == [at: {"idle", "wait", "read"}, we: Nat, since: Nat,
          seen: SUBSET Ids, got: SUBSET Ids, last: Nat]
NoFetch == [at |-> "idle", we |-> 0, since |-> 0, seen |-> {}, got |-> {},
            last |-> 0]

Sync == [at: {"idle", "run", "done"}, s: AppSession, changed: BOOLEAN]
NoSync == [at |-> "idle", changed |-> FALSE,
           s |-> [we |-> 0, cursor |-> 0, seen |-> {}, recov |-> FALSE]]

Send == [at: {"idle", "sent", "stored"}, id: Ids \cup {0}, we: Nat, ts: Nat]
NoSend == [at |-> "idle", id |-> 0, we |-> 0, ts |-> 0]

MaxTs(S, least) ==
  CHOOSE x \in {m.ts : m \in S} \cup {least} :
    \A y \in {m.ts : m \in S} \cup {least} : x >= y

----------------------------------------------------------------------------
(* The poll loop.                                                           *)

\* A fetch takes the cursor, the epoch and the opened messages of the session
\* as they are when it is scheduled, before it sleeps.  Nothing is scheduled
\* while one is outstanding, or while barrier recovery is pending.
schedule_fetch(f, s) ==
  IF f.at # "idle" \/ s.recov
    THEN f
    ELSE [NoFetch EXCEPT !.at = "wait", !.we = s.we, !.since = s.cursor,
                         !.seen = s.seen]

Init ==
  /\ clock = 1 /\ room = 1 /\ store = {}
  /\ session = [we |-> 1, cursor |-> 0, seen |-> {}, recov |-> FALSE]
  /\ list = [i \in Ids |-> 0] /\ keys = {} /\ own = [i \in Ids |-> "none"]
  /\ fetch = schedule_fetch(NoFetch, session)
  /\ sync = NoSync /\ send = NoSend
  /\ after = FALSE /\ jump = 0
  /\ changes = 0 /\ failures = 0

\* The answer of the server, filtered by the values the fetch started with:
\* messages not later than its cursor and messages already opened are passed
\* over.
perform_fetch ==
  /\ fetch.at = "wait"
  /\ LET new == {m \in store : /\ m.we = fetch.we
                               /\ m.ts > fetch.since
                               /\ m.id \notin fetch.seen} IN
     fetch' = [fetch EXCEPT
       !.at = "read", !.got = {m.id : m \in new},
       !.seen = @ \cup {m.id : m \in new},
       !.last = MaxTs(new, fetch.since)]
  /\ UNCHANGED <<server, session, list, keys, own, sync, send, after, jump, budget>>

\* Entries whose key is known are not shown again.
append_messages(ids) ==
  /\ list' = [i \in Ids |-> IF i \in ids \ keys THEN list[i] + 1 ELSE list[i]]
  /\ keys' = keys \cup ids

\* The result of another epoch ends the loop.  Otherwise progress is saved,
\* the messages are shown and the next poll is scheduled.
handle_fetch_result ==
  /\ fetch.at = "read"
  /\ IF fetch.we # session.we
       THEN /\ fetch' = NoFetch
            /\ UNCHANGED <<session, list, keys>>
       ELSE LET s == [session EXCEPT
                        !.seen = fetch.seen,
                        !.cursor = IF fetch.last > @ THEN fetch.last ELSE @] IN
            /\ session' = s
            /\ append_messages(fetch.got)
            /\ fetch' = schedule_fetch(NoFetch, s)
  /\ UNCHANGED <<server, own, sync, send, after, jump, budget>>

\* Faulty variant: the session keeps the progress that could not be saved.
FetchFails_Advances ==
  /\ fetch.at # "idle" /\ fetch.we = session.we
  /\ failures < MaxFailures
  /\ failures' = failures + 1
  /\ session' = [session EXCEPT !.cursor = IF fetch.last > @ THEN fetch.last ELSE @]
  /\ fetch' = schedule_fetch(NoFetch, session')
  /\ UNCHANGED <<server, list, keys, own, sync, send, after, jump, changes>>

\* The fetch fails, or its progress cannot be saved: nothing of it is kept and
\* it is tried again.
FetchFails ==
  /\ fetch.at # "idle" /\ fetch.we = session.we
  /\ failures < MaxFailures
  /\ failures' = failures + 1
  /\ fetch' = schedule_fetch(NoFetch, session)
  /\ UNCHANGED <<server, session, list, keys, own, sync, send, after, jump, changes>>

----------------------------------------------------------------------------
(* Epoch sync.                                                              *)

\* A sync runs on a copy of the session; while one runs, another request is
\* dropped.
schedule_epoch_sync ==
  sync' = IF sync.at = "idle"
            THEN [NoSync EXCEPT !.at = "run", !.s = session] ELSE sync

\* A hint of the realtime channel: a message asks for a fetch after the sync,
\* a membership change only for the sync.
handle_websocket_event(isMessage) ==
  /\ sync.at = "idle" \/ (isMessage /\ ~after)
  /\ after' = (after \/ isMessage)
  /\ schedule_epoch_sync
  /\ UNCHANGED <<server, session, list, keys, own, fetch, send, jump, budget>>

\* The sync ends: with nothing new, with a change of the barrier within the
\* epoch, or in the room's current epoch, where reading starts afresh.
perform_epoch_sync ==
  /\ sync.at = "run"
  /\ \E recov \in BOOLEAN :
     \/ /\ sync.s.we = room
        /\ sync' = [sync EXCEPT !.at = "done"]
        /\ recov = sync.s.recov
        /\ UNCHANGED changes
     \/ /\ sync.s.we = room /\ changes < MaxChanges
        /\ sync' = [sync EXCEPT !.at = "done", !.changed = TRUE, !.s.recov = recov]
        /\ changes' = changes + 1
     \/ /\ sync.s.we # room
        /\ sync' = [sync EXCEPT !.at = "done", !.changed = TRUE,
                      !.s = [@ EXCEPT !.we = room, !.cursor = 0, !.recov = recov]]
        /\ UNCHANGED changes
  /\ UNCHANGED <<server, session, list, keys, own, fetch, send, after, jump, failures>>

\* Faulty variant: the outstanding fetch is dropped and none scheduled.
handle_epoch_sync_result_Quiet ==
  /\ sync.at = "done"
  /\ sync' = NoSync
  /\ after' = FALSE
  /\ IF sync.changed
       THEN /\ session' = sync.s
            /\ fetch' = NoFetch
            /\ jump' = IF sync.s.we = session.we THEN jump ELSE 0
       ELSE /\ fetch' = fetch
            /\ UNCHANGED <<session, jump>>
  /\ UNCHANGED <<server, list, keys, own, send, budget>>

\* A session that did not change is left alone, but for the fetch a hint asked
\* for.  One that changed replaces the interface's, the outstanding fetch is
\* dropped and, unless recovery is pending, a new one scheduled.
handle_epoch_sync_result ==
  /\ sync.at = "done"
  /\ sync' = NoSync
  /\ after' = FALSE
  /\ IF sync.changed
       THEN /\ session' = sync.s
            /\ fetch' = schedule_fetch(NoFetch, sync.s)
            /\ jump' = IF sync.s.we = session.we THEN jump ELSE 0
       ELSE /\ fetch' = IF after THEN schedule_fetch(fetch, session) ELSE fetch
            /\ UNCHANGED <<session, jump>>
  /\ UNCHANGED <<server, list, keys, own, send, budget>>

SyncFails ==
  /\ sync.at = "run"
  /\ sync' = NoSync
  /\ after' = FALSE
  /\ UNCHANGED <<server, session, list, keys, own, fetch, send, jump, budget>>

----------------------------------------------------------------------------
(* Sending.                                                                 *)

queue_pending_message(id) == own' = [own EXCEPT ![id] = "pending"]

\* Faulty variant: the sent entry's key is not kept.
ConfirmWithoutKey(id) ==
  /\ list' = [list EXCEPT ![id] = @ + 1]
  /\ keys' = keys
  /\ own' = [own EXCEPT ![id] = "none"]

\* The pending entry becomes the sent one, or goes if a fetch showed the message
\* first.
confirm_pending_message(id) ==
  /\ append_messages({id})
  /\ own' = [own EXCEPT ![id] = "none"]

mark_pending_message_failed(id) == own' = [own EXCEPT ![id] = "failed"]

\* The message is stamped with this device's clock and shown as pending.  Its
\* index is drawn at random, so a second try is another message.
start_send(id) ==
  /\ send.at = "idle" /\ ~session.recov
  /\ id \notin keys /\ own[id] = "none" /\ \A m \in store : m.id # id
  /\ queue_pending_message(id)
  /\ send' = [at |-> "sent", id |-> id, we |-> session.we, ts |-> clock + Skew]
  /\ UNCHANGED <<server, session, list, keys, fetch, sync, after, jump, budget>>

\* The server stores it under its own clock.
StoreOwn ==
  /\ send.at = "sent"
  /\ store' = store \cup {[id |-> send.id, we |-> send.we, ts |-> clock]}
  /\ send' = [send EXCEPT !.at = "stored"]
  /\ UNCHANGED <<clock, room, session, list, keys, own, fetch, sync, after, jump, budget>>

\* The entry is confirmed and the cursor moves to the message's own stamp.
on_send_finished ==
  /\ send.at = "stored"
  /\ confirm_pending_message(send.id)
  /\ LET s == [session EXCEPT !.cursor = IF send.ts > @ THEN send.ts ELSE @] IN
     /\ session' = s
     /\ jump' = IF s # session THEN send.ts ELSE jump
     /\ fetch' = schedule_fetch(fetch, s)
  /\ send' = NoSend
  /\ UNCHANGED <<server, sync, after, budget>>

\* The send fails, or its answer is lost: the entry is marked failed and stays,
\* also when the server has stored the message.  (An answer that the server no
\* longer knows the session ends the session, and this chat with it.)
SendFails ==
  /\ send.at \in {"sent", "stored"}
  /\ send' = NoSend
  /\ mark_pending_message_failed(send.id)
  /\ UNCHANGED <<server, session, list, keys, fetch, sync, after, jump, budget>>

----------------------------------------------------------------------------
(* The room.                                                                *)

\* A member sends in an epoch the server still serves.  The stamp is taken
\* before the room's lock, so it may be the previous tick's.
PeerSends(id) ==
  /\ \A m \in store : m.id # id
  /\ \E ts \in {clock, clock - 1} \ {0}, we \in 1 .. room :
       store' = store \cup {[id |-> id, we |-> we, ts |-> ts]}
  /\ UNCHANGED <<clock, room, session, list, keys, own, fetch, sync, send, after,
                 jump, budget>>

Tick ==
  /\ clock < MaxClock
  /\ clock' = clock + 1
  /\ UNCHANGED <<room, store, session, list, keys, own, fetch, sync, send, after,
                 jump, budget>>

NewEpoch ==
  /\ room < MaxEpoch
  /\ room' = room + 1
  /\ UNCHANGED <<clock, store, session, list, keys, own, fetch, sync, send, after,
                 jump, budget>>

Next ==
  \/ perform_fetch \/ handle_fetch_result \/ FetchFails
  \/ \E isMessage \in BOOLEAN : handle_websocket_event(isMessage)
  \/ perform_epoch_sync \/ handle_epoch_sync_result \/ SyncFails
  \/ \E id \in OwnIds : start_send(id)
  \/ StoreOwn \/ on_send_finished \/ SendFails
  \/ \E id \in PeerIds : PeerSends(id)
  \/ Tick \/ NewEpoch

\* Requests end, answered or failed (the client sets no timeout of its own, so
\* this is a demand on network and server), and the interface thread handles
\* what they bring.
Fairness ==
  /\ WF_vars(perform_fetch) /\ WF_vars(handle_fetch_result)
  /\ WF_vars(perform_epoch_sync) /\ WF_vars(handle_epoch_sync_result)

Spec == Init /\ [][Next]_vars /\ Fairness

----------------------------------------------------------------------------
(* Properties.                                                              *)

\* The shape of the state.
TypeOK ==
  /\ clock \in Nat /\ room \in Nat /\ store \subseteq Message
  /\ session \in AppSession
  /\ list \in [Ids -> Nat] /\ keys \subseteq Ids
  /\ own \in [Ids -> {"none", "pending", "failed"}]
  /\ fetch \in Fetch /\ sync \in Sync /\ send \in Send
  /\ after \in BOOLEAN /\ jump \in Nat
  /\ changes \in 0 .. MaxChanges /\ failures \in 0 .. MaxFailures

\* A message has one entry in the chat, in whatever order the answer to its
\* sending and the fetches that return it arrive, and also after a sync that
\* started earlier has put an older cursor back into the session.  There are
\* two in two cases only: beside its pending entry while it is being sent, and
\* for good beside the entry of a send whose answer was lost
\* (confirm_pending_message, mark_pending_message_failed).
ShownOnce ==
  \A i \in Ids :
    /\ list[i] <= 1
    /\ list[i] = 1 /\ own[i] # "none" =>
         own[i] = "failed" \/ (send.at # "idle" /\ send.id = i)

\* The poll loop never dies: unless barrier recovery is pending, a fetch is
\* outstanding.
PollAlive == ~session.recov => fetch.at # "idle"

\* An outstanding fetch is one of the session's own epoch, so that its result
\* is never mistaken for the result of another (which would end the loop).
FetchOfSession == fetch.at # "idle" => fetch.we = session.we

\* A message stored in the epoch the client is in, stamped later than its
\* cursor and than what the fetch under way has read, is shown in the end,
\* unless the client leaves the epoch or loses the barrier first, or a message
\* of its own moved the cursor past it.
Delivered ==
  \A i \in PeerIds :
    (\E m \in store : /\ m.id = i /\ m.we = session.we /\ ~session.recov
                      /\ m.ts > session.cursor /\ m.ts > fetch.last)
    ~> \/ list[i] > 0
       \/ session.recov
       \/ \E m \in store : m.id = i /\ (m.we # session.we \/ m.ts <= jump)
=============================================================================
