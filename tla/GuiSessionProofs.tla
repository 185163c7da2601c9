-------------------------- MODULE GuiSessionProofs --------------------------
(***************************************************************************)
(* The chat's safety properties, for any number of messages, epochs, syncs *)
(* and failures.  What is needed beyond the properties themselves: an      *)
(* entry in the list has its key, the records are well typed, and a stored *)
(* message has a stamp of the past.  The last is why the largest stamp a   *)
(* fetch has read exists.                                                  *)
(***************************************************************************)
EXTENDS GuiSession, WellFoundedInduction, TLAPS

(* The records are well typed, what is being sent is a message, and no     *)
(* stored message has a stamp from the future.                              *)
Shape ==
  /\ TypeOK
  /\ send.at # "idle" => send.id \in Ids
  /\ clock >= 1 /\ \A m \in store : m.ts <= clock

(* An entry that is shown has its key, and no key has two entries. *)
ShownHasKey == \A i \in Ids : (list[i] > 0 => i \in keys) /\ list[i] <= 1

(* A pending entry belongs to the send under way. *)
PendingIsSent ==
  \A i \in Ids : own[i] = "pending" => send.at # "idle" /\ send.id = i

(* The inductive invariant. *)
IInv == Shape /\ ShownHasKey /\ PendingIsSent /\ PollAlive /\ FetchOfSession

(* A bounded set of numbers has a largest element. *)
LEMMA LargestExists ==
  ASSUME NEW T, NEW B \in Nat, T \subseteq 0 .. B, T # {}
  PROVE  \E x \in T : \A y \in T : x >= y
<1>. DEFINE D == {B - x : x \in T}
<1>1. D \subseteq Nat
  <2>1. \A x \in T : B - x \in Nat
    OBVIOUS
  <2>. QED
    BY <2>1, Zenon
<1>2. D # {}
  <2>1. PICK x \in T : TRUE
    OBVIOUS
  <2>2. B - x \in D
    BY <2>1
  <2>. QED
    BY <2>2, Zenon
<1>3. \E d \in D : \A e \in D : ~(<<e, d>> \in OpToRel(<, Nat))
  <2>. HIDE DEF D
  <2>. QED
    BY <1>1, <1>2, NatLessThanWellFounded, WFMin
<1>4. PICK d \in D : \A e \in D : ~(<<e, d>> \in OpToRel(<, Nat))
  BY <1>3
<1>5. PICK x \in T : d = B - x
  BY <1>4
<1>6. ASSUME NEW y \in T PROVE x >= y
  <2>1. B - y \in D
    OBVIOUS
  <2>2. ~(B - y < d)
    <3>. HIDE DEF D
    <3>. QED
      BY <1>1, <1>4, <2>1 DEF OpToRel
  <2>. QED
    BY <1>5, <2>2
<1>. QED
  BY <1>6

(* The largest of a set of stamps is one of them. *)
LEMMA MaxTsType ==
  ASSUME NEW S, NEW b \in Nat, NEW least \in Nat,
         \A m \in S : m.ts \in Nat /\ m.ts <= b
  PROVE  MaxTs(S, least) \in Nat
<1>. DEFINE T == {m.ts : m \in S} \cup {least}
<1>1. T \subseteq 0 .. (b + least) /\ T # {}
  OBVIOUS
<1>2. b + least \in Nat
  OBVIOUS
<1>3. \E x \in T : \A y \in T : x >= y
  <2>. HIDE DEF T
  <2>. QED
    BY <1>1, <1>2, LargestExists
<1>4. MaxTs(S, least) = CHOOSE x \in T : \A y \in T : x >= y
  BY Zenon DEF MaxTs
<1>5. MaxTs(S, least) \in T
  <2>. HIDE DEF T
  <2>. QED
    BY <1>3, <1>4
<1>6. T \subseteq Nat
  OBVIOUS
<1>. QED
  BY <1>5, <1>6, Zenon
(* What scheduling a fetch yields: for a session whose fetch was dropped,    *)
(* and in general.                                                           *)
LEMMA ScheduleFresh ==
  ASSUME NEW s \in AppSession
  PROVE  LET f == schedule_fetch(NoFetch, s) IN
         /\ f \in Fetch
         /\ ~s.recov => f.at # "idle"
         /\ f.at # "idle" => f.we = s.we
  BY DEF schedule_fetch, NoFetch, AppSession, Fetch

(* A scheduled fetch is one, whatever the session. *)
LEMMA ScheduleAny ==
  ASSUME NEW f \in Fetch, NEW s \in AppSession
  PROVE  schedule_fetch(f, s) \in Fetch
  BY DEF schedule_fetch, NoFetch, AppSession, Fetch

(* Showing messages keeps each shown once, because of the keys. *)
LEMMA AppendKeeps ==
  ASSUME IInv, NEW ids \in SUBSET Ids, append_messages(ids)
  PROVE  (list \in [Ids -> Nat] /\ keys \subseteq Ids)' /\ ShownHasKey'
<1>1. (list \in [Ids -> Nat] /\ keys \subseteq Ids)'
  BY DEF IInv, Shape, TypeOK, append_messages
<1>2. ASSUME NEW i \in Ids PROVE (list'[i] > 0 => i \in keys') /\ list'[i] <= 1
  BY DEF IInv, Shape, TypeOK, append_messages, ShownHasKey
<1>. QED
  BY <1>1, <1>2 DEF ShownHasKey

(* A fresh interface satisfies it. *)
LEMMA InitIInv == Init => IInv
<1>. SUFFICES ASSUME Init PROVE IInv
  OBVIOUS
<1>1. session \in AppSession /\ sync \in Sync /\ send \in Send
  BY DEF Init, NoSync, NoSend, AppSession, Sync, Send
<1>2. fetch \in Fetch /\ PollAlive /\ FetchOfSession
  BY <1>1, ScheduleFresh DEF Init, PollAlive, FetchOfSession
<1>3. after \in BOOLEAN /\ store \subseteq Message /\ send.at = "idle"
  BY DEF Init, NoSend
<1>4. clock \in Nat /\ clock >= 1 /\ room \in Nat /\ jump \in Nat
  BY DEF Init
<1>5. /\ list \in [Ids -> Nat] /\ keys \subseteq Ids
      /\ own \in [Ids -> {"none", "pending", "failed"}]
  BY DEF Init
<1>6. changes \in 0 .. MaxChanges /\ failures \in 0 .. MaxFailures
  BY GuiAssumption DEF Init
<1>7. \A m \in store : m.ts <= clock
  BY DEF Init
<1>8. Shape
  BY <1>1, <1>2, <1>3, <1>4, <1>5, <1>6, <1>7 DEF Shape, TypeOK
<1>. QED
  BY <1>2, <1>8 DEF Init, IInv, ShownHasKey, PendingIsSent

(* The server's answer changes the fetch's cargo, not its epoch. *)
LEMMA PerformFetchStep == IInv /\ perform_fetch => IInv'
<1>. SUFFICES ASSUME IInv, perform_fetch PROVE IInv'
  OBVIOUS
<1>. DEFINE new == {m \in store : /\ m.we = fetch.we
                                  /\ m.ts > fetch.since
                                  /\ m.id \notin fetch.seen}
            ids == {m.id : m \in new}
            top == MaxTs(new, fetch.since)
<1>1. ids \subseteq Ids
  BY DEF IInv, Shape, TypeOK, Message
<1>2. top \in Nat
  <2>1. clock \in Nat /\ fetch.since \in Nat /\ \A m \in new : m.ts \in Nat /\ m.ts <= clock
    BY DEF IInv, Shape, TypeOK, Message, Fetch
  <2>. HIDE DEF new
  <2>. QED
    BY <2>1, MaxTsType
<1>3. /\ fetch.at = "wait"
      /\ fetch' = [fetch EXCEPT !.at = "read", !.got = ids,
                     !.seen = @ \cup ids, !.last = top]
      /\ UNCHANGED <<server, session, list, keys, own, sync, send, after, jump, budget>>
  BY DEF perform_fetch
<1>. HIDE DEF ids, top
<1>4. fetch' \in Fetch /\ fetch'.we = fetch.we /\ fetch'.at = "read"
  BY <1>1, <1>2, <1>3 DEF IInv, Shape, TypeOK, Fetch
<1>5. Shape'
  BY <1>3, <1>4 DEF IInv, Shape, TypeOK, server, budget
<1>6. PollAlive' /\ FetchOfSession'
  BY <1>3, <1>4 DEF IInv, PollAlive, FetchOfSession
<1>. QED
  BY <1>3, <1>5, <1>6 DEF IInv, ShownHasKey, PendingIsSent

(* A result is shown, saved and followed by the next poll. *)
LEMMA HandleFetchStep == IInv /\ handle_fetch_result => IInv'
<1>. SUFFICES ASSUME IInv, handle_fetch_result PROVE IInv'
  OBVIOUS
<1>. DEFINE c == IF fetch.last > session.cursor THEN fetch.last ELSE session.cursor
            s == [session EXCEPT !.seen = fetch.seen, !.cursor = c]
<1>1. fetch.we = session.we
  BY DEF IInv, FetchOfSession, handle_fetch_result
<1>2. /\ session' = s
      /\ append_messages(fetch.got)
      /\ fetch' = schedule_fetch(NoFetch, s)
      /\ UNCHANGED <<server, own, sync, send, after, jump, budget>>
  BY <1>1, Zenon DEF handle_fetch_result
<1>3. fetch.got \in SUBSET Ids /\ fetch.seen \in SUBSET Ids /\ c \in Nat
  BY DEF IInv, Shape, TypeOK, Fetch, AppSession
<1>. HIDE DEF c
<1>4. s \in AppSession
  BY <1>3 DEF IInv, Shape, TypeOK, AppSession
<1>5. (list \in [Ids -> Nat] /\ keys \subseteq Ids)' /\ ShownHasKey'
  BY <1>2, <1>3, AppendKeeps
<1>. HIDE DEF s
<1>6. fetch' \in Fetch /\ PollAlive' /\ FetchOfSession'
  BY <1>2, <1>4, ScheduleFresh DEF PollAlive, FetchOfSession
<1>7. Shape'
  BY <1>2, <1>4, <1>5, <1>6 DEF IInv, Shape, TypeOK, server, budget
<1>. QED
  BY <1>2, <1>5, <1>6, <1>7 DEF IInv, PendingIsSent

(* A failed fetch keeps it. *)
LEMMA FetchFailsStep == IInv /\ FetchFails => IInv'
<1>. SUFFICES ASSUME IInv, FetchFails PROVE IInv'
  OBVIOUS
<1>1. /\ fetch' = schedule_fetch(NoFetch, session)
      /\ failures < MaxFailures /\ failures' = failures + 1
      /\ UNCHANGED <<server, session, list, keys, own, sync, send, after, jump, changes>>
  BY DEF FetchFails
<1>2. fetch' \in Fetch /\ PollAlive' /\ FetchOfSession'
  BY <1>1, ScheduleFresh DEF IInv, Shape, TypeOK, PollAlive, FetchOfSession
<1>3. failures' \in 0 .. MaxFailures
  BY <1>1, GuiAssumption DEF IInv, Shape, TypeOK
<1>4. Shape'
  BY <1>1, <1>2, <1>3 DEF IInv, Shape, TypeOK, server
<1>. QED
  BY <1>1, <1>2, <1>4 DEF IInv, ShownHasKey, PendingIsSent

(* Starting, running and losing a sync touches nothing the chat shows. *)
LEMMA SyncTaskStep ==
  IInv /\ ((\E b \in BOOLEAN : handle_websocket_event(b)) \/ perform_epoch_sync \/ SyncFails)
    => IInv'
<1>. SUFFICES ASSUME IInv, \/ \E b \in BOOLEAN : handle_websocket_event(b)
                           \/ perform_epoch_sync \/ SyncFails
              PROVE IInv'
  OBVIOUS
<1>1. UNCHANGED <<server, session, list, keys, own, fetch, send, jump, failures>>
  BY DEF handle_websocket_event, perform_epoch_sync, SyncFails, budget
<1>2. sync' \in Sync
  <2>1. CASE \E b \in BOOLEAN : handle_websocket_event(b)
    BY <2>1 DEF handle_websocket_event, schedule_epoch_sync, NoSync, IInv, Shape, TypeOK,
                Sync
  <2>2. CASE perform_epoch_sync
    <3>1. PICK recov \in BOOLEAN :
            \/ sync' = [sync EXCEPT !.at = "done"]
            \/ sync' = [sync EXCEPT !.at = "done", !.changed = TRUE, !.s.recov = recov]
            \/ sync' = [sync EXCEPT !.at = "done", !.changed = TRUE,
                          !.s = [@ EXCEPT !.we = room, !.cursor = 0, !.recov = recov]]
      BY <2>2 DEF perform_epoch_sync
    <3>2. CASE sync' = [sync EXCEPT !.at = "done"]
      BY <3>2 DEF IInv, Shape, TypeOK, Sync
    <3>3. CASE sync' = [sync EXCEPT !.at = "done", !.changed = TRUE, !.s.recov = recov]
      <4>1. [sync.s EXCEPT !.recov = recov] \in AppSession
        BY DEF IInv, Shape, TypeOK, Sync, AppSession
      <4>. QED
        BY <3>3, <4>1 DEF IInv, Shape, TypeOK, Sync
    <3>4. CASE sync' = [sync EXCEPT !.at = "done", !.changed = TRUE,
                          !.s = [@ EXCEPT !.we = room, !.cursor = 0, !.recov = recov]]
      <4>1. [sync.s EXCEPT !.we = room, !.cursor = 0, !.recov = recov] \in AppSession
        BY DEF IInv, Shape, TypeOK, Sync, AppSession
      <4>. QED
        BY <3>4, <4>1 DEF IInv, Shape, TypeOK, Sync
    <3>. QED
      BY <3>1, <3>2, <3>3, <3>4
  <2>3. CASE SyncFails
    BY <2>3 DEF SyncFails, NoSync, Sync, AppSession
  <2>. QED
    BY <2>1, <2>2, <2>3
<1>3. after' \in BOOLEAN
  BY DEF handle_websocket_event, perform_epoch_sync, SyncFails, IInv, Shape, TypeOK
<1>4. changes' \in 0 .. MaxChanges
  <2>1. changes' = changes \/ (changes < MaxChanges /\ changes' = changes + 1)
    BY DEF handle_websocket_event, perform_epoch_sync, SyncFails, budget
  <2>. QED
    BY <2>1, GuiAssumption DEF IInv, Shape, TypeOK
<1>5. Shape'
  BY <1>1, <1>2, <1>3, <1>4 DEF IInv, Shape, TypeOK, server
<1>. QED
  BY <1>1, <1>5 DEF IInv, ShownHasKey, PendingIsSent, PollAlive, FetchOfSession

(* The session is replaced together with the outstanding fetch. *)
LEMMA HandleSyncStep == IInv /\ handle_epoch_sync_result => IInv'
<1>. SUFFICES ASSUME IInv, handle_epoch_sync_result PROVE IInv'
  OBVIOUS
<1>1. /\ UNCHANGED <<server, list, keys, own, send, budget>>
      /\ sync' = NoSync /\ after' = FALSE /\ jump' \in {jump, 0}
  BY DEF handle_epoch_sync_result
<1>2. sync' \in Sync
  BY <1>1 DEF NoSync, Sync, AppSession
<1>3. session' \in AppSession /\ fetch' \in Fetch /\ PollAlive' /\ FetchOfSession'
  <2>1. CASE sync.changed
    <3>1. session' = sync.s /\ fetch' = schedule_fetch(NoFetch, sync.s)
      BY <2>1 DEF handle_epoch_sync_result
    <3>2. sync.s \in AppSession
      BY DEF IInv, Shape, TypeOK, Sync
    <3>. QED
      BY <3>1, <3>2, ScheduleFresh DEF PollAlive, FetchOfSession
  <2>2. CASE ~sync.changed
    <3>1. session' = session /\ fetch' \in {fetch, schedule_fetch(fetch, session)}
      BY <2>2 DEF handle_epoch_sync_result
    <3>2. session' \in AppSession /\ fetch' \in Fetch
      BY <3>1, ScheduleAny DEF IInv, Shape, TypeOK
    <3>3. PollAlive' /\ FetchOfSession'
      BY <3>1 DEF IInv, PollAlive, FetchOfSession, schedule_fetch, NoFetch
    <3>. QED
      BY <3>2, <3>3
  <2>. QED
    BY <2>1, <2>2
<1>4. after' \in BOOLEAN
  BY <1>1
<1>5. jump' \in Nat
  BY <1>1 DEF IInv, Shape, TypeOK
<1>6. Shape'
  BY <1>1, <1>2, <1>3, <1>4, <1>5 DEF IInv, Shape, TypeOK, server, budget
<1>. QED
  BY <1>1, <1>3, <1>6 DEF IInv, ShownHasKey, PendingIsSent

(* A send that is under way concerns the send task and the store only. *)
LEMMA SendTaskStep ==
  IInv /\ ((\E id \in OwnIds : start_send(id)) \/ StoreOwn \/ SendFails) => IInv'
<1>. SUFFICES ASSUME IInv, (\E id \in OwnIds : start_send(id)) \/ StoreOwn \/ SendFails
              PROVE IInv'
  OBVIOUS
<1>1. UNCHANGED <<clock, room, session, list, keys, fetch, sync, after, jump, budget>>
  BY DEF start_send, StoreOwn, SendFails, server
<1>2. /\ send' \in Send
      /\ send'.at # "idle" => send'.id \in Ids
      /\ store' \subseteq Message /\ \A m \in store' : m.ts <= clock
  <2>1. CASE \E id \in OwnIds : start_send(id)
    BY <2>1, GuiAssumption
       DEF start_send, server, IInv, Shape, TypeOK, Ids, Send, AppSession
  <2>2. CASE StoreOwn
    <3>1. [id |-> send.id, we |-> send.we, ts |-> clock] \in Message
      BY <2>2 DEF StoreOwn, IInv, Shape, TypeOK, Send, Message
    <3>. QED
      BY <2>2, <3>1 DEF StoreOwn, IInv, Shape, TypeOK, Send
  <2>3. CASE SendFails
    BY <2>3 DEF SendFails, NoSend, server, IInv, Shape, TypeOK, Send
  <2>. QED
    BY <2>1, <2>2, <2>3
<1>3. own' \in [Ids -> {"none", "pending", "failed"}] /\ PendingIsSent'
  <2>1. ASSUME NEW id \in OwnIds, start_send(id)
        PROVE  own' \in [Ids -> {"none", "pending", "failed"}] /\ PendingIsSent'
    BY <2>1 DEF start_send, queue_pending_message, IInv, Shape, TypeOK, PendingIsSent, Ids
  <2>2. CASE StoreOwn
    BY <2>2 DEF StoreOwn, IInv, Shape, TypeOK, PendingIsSent, Send
  <2>3. CASE SendFails
    BY <2>3 DEF SendFails, mark_pending_message_failed, NoSend, IInv, Shape, TypeOK,
                PendingIsSent
  <2>. QED
    BY <2>1, <2>2, <2>3
<1>4. Shape'
  BY <1>1, <1>2, <1>3 DEF IInv, Shape, TypeOK, budget
<1>. QED
  BY <1>1, <1>3, <1>4 DEF IInv, ShownHasKey, PollAlive, FetchOfSession

(* The answer to a send: the entry is shown under its key. *)
LEMMA SendFinishedStep == IInv /\ on_send_finished => IInv'
<1>. SUFFICES ASSUME IInv, on_send_finished PROVE IInv'
  OBVIOUS
<1>. DEFINE c == IF send.ts > session.cursor THEN send.ts ELSE session.cursor
            s == [session EXCEPT !.cursor = c]
<1>1. /\ session' = s
      /\ append_messages({send.id})
      /\ own' = [own EXCEPT ![send.id] = "none"]
      /\ fetch' = schedule_fetch(fetch, s)
      /\ send' = NoSend
      /\ jump' = IF s # session THEN send.ts ELSE jump
      /\ UNCHANGED <<server, sync, after, budget>>
  BY Zenon DEF on_send_finished, confirm_pending_message
<1>2. c \in Nat /\ jump' \in Nat
  BY <1>1 DEF IInv, Shape, TypeOK, Send, AppSession
<1>. HIDE DEF c
<1>3. s \in AppSession /\ s.we = session.we /\ s.recov = session.recov
  BY <1>2 DEF IInv, Shape, TypeOK, AppSession
<1>4. (list \in [Ids -> Nat] /\ keys \subseteq Ids)' /\ ShownHasKey'
  <2>1. {send.id} \in SUBSET Ids
    BY DEF IInv, Shape, on_send_finished
  <2>. QED
    BY <1>1, <2>1, AppendKeeps
<1>. HIDE DEF s
<1>5. fetch' \in Fetch
  BY <1>1, <1>3, ScheduleAny DEF IInv, Shape, TypeOK
<1>8. own' \in [Ids -> {"none", "pending", "failed"}] /\ PendingIsSent'
  BY <1>1 DEF IInv, Shape, TypeOK, PendingIsSent
<1>6. Shape'
  BY <1>1, <1>2, <1>3, <1>4, <1>5, <1>8
  DEF IInv, Shape, TypeOK, server, budget, NoSend, Send
<1>7. PollAlive' /\ FetchOfSession'
  BY <1>1, <1>3 DEF IInv, PollAlive, FetchOfSession, schedule_fetch, NoFetch
<1>. QED
  BY <1>4, <1>6, <1>7, <1>8 DEF IInv

(* What happens in the room reaches the client only through its tasks. *)
LEMMA RoomStep ==
  IInv /\ ((\E id \in PeerIds : PeerSends(id)) \/ Tick \/ NewEpoch) => IInv'
<1>. SUFFICES ASSUME IInv, (\E id \in PeerIds : PeerSends(id)) \/ Tick \/ NewEpoch
              PROVE IInv'
  OBVIOUS
<1>1. UNCHANGED <<session, list, keys, own, fetch, sync, send, after, jump, budget>>
  BY DEF PeerSends, Tick, NewEpoch
<1>2. /\ clock' \in Nat /\ clock' >= 1 /\ room' \in Nat
      /\ store' \subseteq Message /\ \A m \in store' : m.ts <= clock'
  <2>1. CASE \E id \in PeerIds : PeerSends(id)
    <3>1. PICK id \in PeerIds, ts \in {clock, clock - 1} \ {0}, we \in 1 .. room :
            store' = store \cup {[id |-> id, we |-> we, ts |-> ts]}
      BY <2>1 DEF PeerSends
    <3>2. ts \in Nat /\ ts <= clock /\ we \in Nat
      BY DEF IInv, Shape, TypeOK
    <3>3. [id |-> id, we |-> we, ts |-> ts] \in Message
      BY <3>2 DEF Message, Ids
    <3>4. clock' = clock /\ room' = room
      BY <2>1 DEF PeerSends
    <3>. QED
      BY <3>1, <3>2, <3>3, <3>4 DEF IInv, Shape, TypeOK
  <2>2. CASE Tick \/ NewEpoch
    BY <2>2 DEF Tick, NewEpoch, IInv, Shape, TypeOK, Message
  <2>. QED
    BY <2>1, <2>2
<1>3. Shape'
  BY <1>1, <1>2 DEF IInv, Shape, TypeOK, budget
<1>. QED
  BY <1>1, <1>3 DEF IInv, ShownHasKey, PendingIsSent, PollAlive, FetchOfSession

(* No step disturbs it. *)
LEMMA NextStep == IInv /\ [Next]_vars => IInv'
<1>. SUFFICES ASSUME IInv, [Next]_vars PROVE IInv'
  OBVIOUS
<1>1. CASE Next
  BY <1>1, PerformFetchStep, HandleFetchStep, FetchFailsStep, SyncTaskStep,
     HandleSyncStep, SendTaskStep, SendFinishedStep, RoomStep DEF Next
<1>2. CASE UNCHANGED vars
  BY <1>2 DEF vars, IInv, Shape, TypeOK, ShownHasKey, PendingIsSent, PollAlive, FetchOfSession
<1>. QED
  BY <1>1, <1>2

(* The state keeps the types of the client's records: a cursor, for one, is  *)
(* always a time, whatever stamps perform_fetch takes the largest of.        *)
THEOREM ChatTypeCorrect == Spec => []TypeOK
<1>1. IInv => TypeOK
  BY DEF IInv, Shape
<1>. QED
  BY InitIInv, NextStep, <1>1, PTL DEF Spec

(* However fetches, sends and syncs interleave, the chat shows one entry of  *)
(* a message: append_messages and on_send_finished share the keys, and the   *)
(* pending entry goes with the send.  A second entry is that of a send still *)
(* unanswered, or of one that ended without its answer.                      *)
THEOREM ChatShowsOnce == Spec => []ShownOnce
<1>1. IInv => ShownOnce
  BY DEF IInv, Shape, TypeOK, ShownHasKey, PendingIsSent, ShownOnce
<1>. QED
  BY InitIInv, NextStep, <1>1, PTL DEF Spec

(* Every handler that ends or drops a fetch schedules the next one, unless   *)
(* barrier recovery is pending.                                              *)
THEOREM PollNeverDies == Spec => []PollAlive
<1>1. IInv => PollAlive
  BY DEF IInv
<1>. QED
  BY InitIInv, NextStep, <1>1, PTL DEF Spec

(* handle_epoch_sync_result replaces the session and its fetch together, so  *)
(* a fetch of an epoch that was left is never outstanding.                   *)
THEOREM FetchMatchesSession == Spec => []FetchOfSession
<1>1. IInv => FetchOfSession
  BY DEF IInv
<1>. QED
  BY InitIInv, NextStep, <1>1, PTL DEF Spec
=============================================================================
