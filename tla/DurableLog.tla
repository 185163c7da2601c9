----------------------------- MODULE DurableLog -----------------------------
(***************************************************************************)
(* What the server's journal promises the server, without files, cells or  *)
(* syncs: a log of epochs of which a first part is durable, a restart that *)
(* rebuilds the state from the log as far as its epochs carry the saved    *)
(* key, and the flag that says the log has taken damage and no longer      *)
(* grows.  ServerJournal implements it.                                    *)
(***************************************************************************)
EXTENDS Naturals, Sequences

CONSTANTS Epochs, Keys

VARIABLES log,      \* the epochs the journal hands to a replay
          durable,  \* how many of them no crash can take away
          memory,   \* the epochs in the server's state
          damaged,  \* what is written from now on is not replayed
          kept,     \* history: epochs accepted while the log was not damaged
          key,      \* the broadcast key in force
          saved,    \* the broadcast key that outlives the process
          sealed    \* the broadcast key each epoch carries

vars == <<log, durable, memory, damaged, kept, key, saved, sealed>>

Elements(s) == {s[i] : i \in 1..Len(s)}

Init ==
  /\ log = << >> /\ durable = 0 /\ memory = << >> /\ damaged = FALSE /\ kept = {}
  /\ key \in Keys /\ saved = key /\ sealed \in [Epochs -> Keys]

(* accept_epoch returns Ok.  An epoch that is in the log already, because   *)
(* an earlier attempt was recorded and not acknowledged, damages the log:   *)
(* the replay stops at the second record.                                   *)
Accept(e) ==
  /\ e \notin Elements(memory) /\ sealed[e] = key
  /\ memory' = Append(memory, e)
  /\ IF damaged \/ e \in Elements(log)
     THEN log' = log /\ damaged' = TRUE /\ kept' = kept
     ELSE log' = Append(log, e) /\ damaged' = FALSE /\ kept' = kept \cup {e}
  /\ durable' = Len(log')
  /\ UNCHANGED <<key, saved, sealed>>

(* accept_epoch returns Err after a part of the record, or all of it, was   *)
(* written.  The part is not handed to a replay; all of it is, although the *)
(* server does not hold the epoch.                                          *)
Fail ==
  /\ \/ log' = log
     \/ ~damaged /\ \E e \in Epochs \ (Elements(log) \cup Elements(memory)) : log' = Append(log, e)
  /\ damaged => damaged'
  /\ damaged' \in BOOLEAN
  /\ UNCHANGED <<durable, memory, kept, key, saved, sealed>>

(* The key in force changes, and the saved one with it unless saving fails. *)
Rotate ==
  /\ key' \in Keys
  /\ saved' \in {saved, key'}
  /\ UNCHANGED <<log, durable, memory, damaged, kept, sealed>>

(* The process dies, loses what is not durable and replays the rest, up to   *)
(* an epoch under another key than the saved one at the latest; the lost     *)
(* part may have been what damaged the log.                                  *)
Restart ==
  /\ \E n \in durable..Len(log) : log' = SubSeq(log, 1, n) /\ durable' = n
  /\ \E n \in 0..Len(log') : /\ memory' = SubSeq(log', 1, n)
                            /\ \A k \in 1..n : sealed[log'[k]] = saved
  /\ key' = saved
  /\ damaged' \in BOOLEAN
  /\ UNCHANGED <<kept, saved, sealed>>

Next == (\E e \in Epochs : Accept(e)) \/ Fail \/ Rotate \/ Restart

Spec == Init /\ [][Next]_vars

-----------------------------------------------------------------------------
(* What Ok means: an epoch accepted while the journal was undamaged is in   *)
(* the part of the log that no crash takes away, for ever.                  *)
KeptIsDurable == \A e \in kept : \E i \in 1..durable : log[i] = e

(* The durable part is never rewritten: every later log has it as a prefix. *)
DurableNeverRewritten ==
  [][durable' >= durable /\ \A i \in 1..durable : log'[i] = log[i]]_vars
=============================================================================
