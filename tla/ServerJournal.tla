--------------------------- MODULE ServerJournal ---------------------------
(***************************************************************************)
(* The append-only journal of accepted epochs (cityg-server journal_io.rs) *)
(* and the use CityGServer makes of it: accept_epoch journals the staged   *)
(* bundle before it commits it, and recover_from_state submits what        *)
(* load_entries reads back to the acceptance rules again after a restart.  *)
(* One of these rules is in the model: a bundle must carry the broadcast   *)
(* key (KBROAD) in force, and the replay runs under the latest one saved.  *)
(*                                                                         *)
(* The file is a sequence of cells.  A record is a length prefix of two    *)
(* cells followed by BodyLen cells of payload, so that a write can stop    *)
(* inside the prefix, inside the payload, or between the two.              *)
(***************************************************************************)
EXTENDS Integers, Sequences, Functions

CONSTANTS Epochs,   \* the epoch bundles clients submit
          Keys,     \* broadcast keys of the room
          BodyLen,  \* cells of payload per record
          MaxTears  \* bound on interrupted writes

ASSUME JournalAssumption == BodyLen \in Nat \ {0} /\ MaxTears \in Nat

VARIABLES file,     \* the journal file
          synced,   \* how many of its cells sync_data has made durable
          pending,  \* cells of the running append still to be written
          memory,   \* epochs applied to the in-memory server state, in order
          acked,    \* history: epochs accept_epoch returned Ok for, in order
          safe,     \* history: epochs acked while the journal was whole records
          tears,    \* writes interrupted so far
          key,      \* the broadcast key in the registry
          saved,    \* the broadcast key in the metadata file beside the journal
          sealed    \* the broadcast key each epoch carries; never changes

key_vars == <<key, saved, sealed>>

journal_vars == <<file, synced, pending, memory, acked, safe, tears, key_vars>>

PrefixLen == 2

RecordLen == PrefixLen + BodyLen

Cells == ({"len"} \X (1..PrefixLen)) \cup ({"body"} \X Epochs \X (1..BodyLen))

(* One record: len.to_le_bytes(), the same for every bundle of BodyLen cells, and
   then the bundle's bytes. *)
Record(e) == [i \in 1..RecordLen |-> IF i <= PrefixLen THEN <<"len", i>>
                                                       ELSE <<"body", e, i - PrefixLen>>]

(* Where record k begins in a file of whole records. *)
Start(k) == (k - 1) * RecordLen

(* Cells read as a length are BodyLen when they are a record's prefix.  Any others
   read as an arbitrary number: load_entries then either breaks or yields bytes that
   do not decode, and replay stops in both cases. *)
IsPrefixAt(f, p) == \A i \in 1..PrefixLen : f[p + i] = <<"len", i>>

(* The cursor has reached record k and finds all of it. *)
Whole(f, k) == Start(k) + RecordLen <= Len(f) /\ IsPrefixAt(f, Start(k))

(* Faulty variant: the record that ends the file is taken for a short one. *)
load_entries_DropsLast(f) ==
  LET n == CHOOSE m \in 0..Len(f) :
             /\ \A k \in 1..m : Whole(f, k) /\ Start(k) + RecordLen < Len(f)
             /\ ~ (Whole(f, m + 1) /\ Start(m + 1) + RecordLen < Len(f))
  IN  [k \in 1..n |-> SubSeq(f, Start(k) + PrefixLen + 1, Start(k) + RecordLen)]

(* load_entries: the raw payloads up to the first short record. *)
load_entries(f) ==
  LET n == CHOOSE m \in 0..Len(f) : (\A k \in 1..m : Whole(f, k)) /\ ~ Whole(f, m + 1)
  IN  [k \in 1..n |-> SubSeq(f, Start(k) + PrefixLen + 1, Start(k) + RecordLen)]

(* from_cbor refuses everything but the exact encoding of one bundle. *)
Decodes(raw, e) == raw = [i \in 1..BodyLen |-> <<"body", e, i>>]

(* The first n payloads decode, and none of them repeats. *)
Replayable(raws, n) == /\ \A k \in 1..n : \E e \in Epochs : Decodes(raws[k], e)
                       /\ \A j, k \in 1..n : j # k => raws[j] # raws[k]

(* The epochs the journal hands to the replay: up to the first entry that does not
   decode, or that was applied already and is refused. *)
Journaled(f) ==
  LET raws == load_entries(f)
      n == CHOOSE m \in 0..Len(raws) :
             Replayable(raws, m) /\ (m = Len(raws) \/ ~ Replayable(raws, m + 1))
  IN  [k \in 1..n |-> CHOOSE e \in Epochs : Decodes(raws[k], e)]

(* recover_from_state: the registry holds the saved key, entries are staged and
   committed in order, and ensure_kbroad_pub refuses the first one that carries
   another key.  A refusal aborts the replay; the prefix before it stays applied. *)
recover_from_state(f) ==
  LET held == Journaled(f)
      n == CHOOSE m \in 0..Len(held) :
             /\ \A k \in 1..m : sealed[held[k]] = saved
             /\ m = Len(held) \/ sealed[held[m + 1]] # saved
  IN  SubSeq(held, 1, n)

(* Cells of the file that are the record of e, as its k-th. *)
HasRecord(f, k, e) == /\ Start(k) + RecordLen <= Len(f)
                      /\ \A i \in 1..RecordLen : f[Start(k) + i] = Record(e)[i]

(* A file that is a sequence of whole records, no epoch twice. *)
Clean(f) == \E n \in 0..Len(f) :
  /\ Len(f) = n * RecordLen
  /\ \A k \in 1..n : \E e \in Epochs : HasRecord(f, k, e)
  /\ \A j, k \in 1..n : \A e \in Epochs : HasRecord(f, j, e) /\ HasRecord(f, k, e) => j = k

-----------------------------------------------------------------------------

(* Cells, positions and histories have their types; at most one record is being
   written, and what counts as safe was acknowledged. *)
JournalTypeOK ==
  /\ file \in Seq(Cells)
  /\ synced \in 0..Len(file)
  /\ pending \in Seq(Cells) /\ Len(pending) <= RecordLen
  /\ memory \in Seq(Epochs) /\ acked \in Seq(Epochs)
  /\ safe \subseteq Range(acked)
  /\ tears \in 0..MaxTears
  /\ key \in Keys /\ saved \in Keys /\ sealed \in [Epochs -> Keys]

JournalInit ==
  /\ file = << >> /\ synced = 0 /\ pending = << >>
  /\ memory = << >> /\ acked = << >>
  /\ safe = {} /\ tears = 0
  /\ key \in Keys /\ saved = key
  /\ sealed \in [Epochs -> Keys]

(* Faulty variant: a second append starts before the first one is through. *)
BeginAppend_Interleaved(e) ==
  /\ e \notin Range(memory) \cup Range(acked)
  /\ Len(pending) <= RecordLen
  /\ sealed[e] = key
  /\ pending' = pending \o Record(e)
  /\ UNCHANGED <<file, synced, memory, acked, safe, tears, key_vars>>

(* accept_epoch stages e on clones (nothing visible changes) and enters append.
   An epoch already in memory, or one that does not carry the key in force, is
   refused by the acceptance rules, and a client does not submit an acknowledged
   epoch again. *)
BeginAppend(e) ==
  /\ pending = << >>
  /\ e \notin Range(memory) \cup Range(acked)
  /\ sealed[e] = key
  /\ pending' = Record(e)
  /\ UNCHANGED <<file, synced, memory, acked, safe, tears, key_vars>>

(* write_all makes progress one cell at a time; the last cell is written by
   SyncAndCommit or SyncFails. *)
WriteCell ==
  /\ Len(pending) > 1
  /\ file' = Append(file, Head(pending))
  /\ pending' = Tail(pending)
  /\ UNCHANGED <<synced, memory, acked, safe, tears, key_vars>>

(* write_all or flush reports an error (disk full): append returns Err, accept_epoch
   returns it, nothing is committed, and what was written stays in the file. *)
WriteFails ==
  /\ pending # << >> /\ tears < MaxTears
  /\ tears' = tears + 1
  /\ pending' = << >>
  /\ UNCHANGED <<file, synced, memory, acked, safe, key_vars>>

(* Faulty variant: append returns Ok without sync_data. *)
SyncAndCommit_NoSync ==
  /\ Len(pending) = 1
  /\ LET e == Head(pending)[2] IN
       /\ file' = Append(file, Head(pending))
       /\ memory' = Append(memory, e)
       /\ acked' = Append(acked, e)
       /\ safe' = IF Clean(file') THEN safe \cup {e} ELSE safe
  /\ pending' = << >>
  /\ UNCHANGED <<synced, tears, key_vars>>

(* The last cell is written, sync_data succeeds, append returns Ok and commit_staged
   installs the staged state. *)
SyncAndCommit ==
  /\ Len(pending) = 1
  /\ LET e == Head(pending)[2] IN
       /\ file' = Append(file, Head(pending))
       /\ synced' = Len(file')
       /\ memory' = Append(memory, e)
       /\ acked' = Append(acked, e)
       /\ safe' = IF Clean(file') THEN safe \cup {e} ELSE safe
  /\ pending' = << >>
  /\ UNCHANGED <<tears, key_vars>>

(* The record is written in full but sync_data fails: the client is told Err although
   the record is in the file. *)
SyncFails ==
  /\ Len(pending) = 1 /\ tears < MaxTears
  /\ file' = Append(file, Head(pending))
  /\ pending' = << >>
  /\ tears' = tears + 1
  /\ UNCHANGED <<synced, memory, acked, safe, key_vars>>

(* rotate_group_kbroad: the registry gets a key that differs from the present one,
   and then the metadata is saved.  Saving may fail: the caller is told Err, and the
   new key stays in force. *)
rotate_group_kbroad(k) ==
  /\ pending = << >>
  /\ k # key
  /\ key' = k
  /\ saved' \in {saved, k}
  /\ UNCHANGED <<file, synced, pending, memory, acked, safe, tears, sealed>>

(* Every later administrative command saves the metadata again, the key with it. *)
persist_kbroad_state ==
  /\ pending = << >>
  /\ saved' = key
  /\ UNCHANGED <<file, synced, pending, memory, acked, safe, tears, key, sealed>>

(* The process dies. Cells that were never synced survive up to an arbitrary point;
   `new` opens the file in append mode, without truncating it, and replays it under the
   saved key, which is the one in force afterwards.  The rules that are not in the model
   are applied again as well and may end the replay earlier. *)
CrashAndRestart ==
  /\ (pending # << >> \/ synced # Len(file)) => tears < MaxTears
  /\ \E k \in synced..Len(file) :
       /\ file' = SubSeq(file, 1, k)
       /\ synced' = k
       /\ LET replayed == recover_from_state(file')
          IN  \E n \in 0..Len(replayed) : memory' = SubSeq(replayed, 1, n)
  /\ key' = saved
  /\ pending' = << >>
  /\ tears' = IF pending # << >> \/ synced # Len(file) THEN tears + 1 ELSE tears
  /\ UNCHANGED <<acked, safe, saved, sealed>>

JournalNext ==
  \/ \E e \in Epochs : BeginAppend(e)
  \/ WriteCell
  \/ WriteFails
  \/ SyncAndCommit
  \/ SyncFails
  \/ \E k \in Keys : rotate_group_kbroad(k)
  \/ persist_kbroad_state
  \/ CrashAndRestart

JournalSpec == JournalInit /\ [][JournalNext]_journal_vars

-----------------------------------------------------------------------------
(* Every epoch acknowledged while the journal was a sequence of whole records is handed
   to the replay, in acceptance order, whatever is torn or crashes later; and it is
   replayed unless an epoch that carries another key than the saved one comes first. *)
CleanAcksSurvive ==
  LET held == Journaled(file)
      replayed == recover_from_state(file)
  IN
  \A i, j \in DOMAIN acked : i <= j /\ {acked[i], acked[j]} \subseteq safe =>
    \E k, l \in DOMAIN held :
      /\ k <= l /\ held[k] = acked[i] /\ held[l] = acked[j]
      /\ l \in DOMAIN replayed \/ \E m \in 1..l : sealed[held[m]] # saved

(* docs/configuration.md: the replay on restart rebuilds the accepted state. Every
   epoch whose accept_epoch returned Ok is recovered. *)
AckedSurviveRestart == Range(acked) \subseteq Range(recover_from_state(file))

-----------------------------------------------------------------------------
(* The abstract log the journal implements.  While an append runs, what it has *)
(* written so far is not yet damage.                                           *)
Written == IF pending = << >> THEN 0 ELSE RecordLen - Len(pending)

Log == INSTANCE DurableLog WITH
         log     <- Journaled(file),
         durable <- Len(Journaled(SubSeq(file, 1, synced))),
         damaged <- ~ Clean(SubSeq(file, 1, Len(file) - Written)),
         kept    <- safe

(* journal_io.rs, accept_epoch and recover_from_state together implement the durable
   log: an interrupted append, a failed sync and a crash are each one of its failures
   or restarts, nothing else changes what the journal hands to a replay, and a restart
   serves a first part of it, with no epoch under another key than the saved one. *)
ImplementsLog == Log!Spec
=============================================================================
