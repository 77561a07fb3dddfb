----------------------------- MODULE SourceSchedule -----------------------------
(***************************************************************************)
(* When a source is collected next, and what the collector remembers of it:*)
(* SourceScheduleService over the rows of source_cursors, used by the      *)
(* scheduler's tick and by the discover tasks.                             *)
(*                                                                         *)
(* The tick decides on a cursor that the discover updates only at its end, *)
(* so discovers of one source overlap; each reads the cursor in one        *)
(* transaction and overwrites it in a later one.                           *)
(***************************************************************************)
EXTENDS Naturals, FiniteSets

CONSTANTS Discovers, \* discover tasks of the source
          Base,      \* base_interval_seconds
          Maximum,   \* max_interval_seconds
          Threshold, \* failure_threshold
          Versions,  \* bound: versions of the feed, each adds an item
          None,
          MaxTime    \* bound: time that passes

VARIABLES
  now,
  feed,     \* the version of the feed at the source; its items are 1 .. feed
  saved,    \* items with a row in fetch_candidates
  cursor,   \* source_cursors, or None
  discover  \* what a discover is doing

vars == <<now, feed, saved, cursor, discover>>

-----------------------------------------------------------------------------
Least(a, b) == IF a <= b THEN a ELSE b

Cursor == [etag : 1 .. Versions \cup {None}, due : Nat,
           unchanged : Nat, failures : Nat, open : Nat \cup {None}]

Idle == [at |-> "idle"]
Discover ==
       [at : {"fetch"}, sees : 1 .. Versions \cup {None}]
  \cup [at : {"save"}, version : 1 .. Versions, todo : SUBSET (1 .. Versions), fresh : BOOLEAN]
  \cup [at : {"succeed"}, version : 1 .. Versions, fresh : BOOLEAN]
  \cup [at : {"fail"}]
  \cup [at : {"write"}, cursor : Cursor]

Become(d, j) == discover' = [discover EXCEPT ![d] = j]

Init ==
  /\ now = 0
  /\ feed = 1
  /\ saved = {}
  /\ cursor = None
  /\ discover = [d \in Discovers |-> Idle]

(* is_due.                                                                 *)
IsDue ==
  cursor # None =>
    /\ cursor.open # None => now >= cursor.open
    /\ now >= cursor.due

(* The tick finds the source due; the discover it sends reads the cursor.  *)
StartRun(d) ==
  /\ discover[d] = Idle /\ IsDue
  /\ Become(d, [at |-> "fetch", sees |-> IF cursor = None THEN None ELSE cursor.etag])
  /\ UNCHANGED <<now, feed, saved, cursor>>

(* _discover_candidates: a conditional request with the remembered ETag.   *)
FetchFeed(d) ==
  /\ discover[d].at = "fetch"
  /\ IF discover[d].sees = feed
       THEN Become(d, [at |-> "succeed", version |-> feed, fresh |-> FALSE])
       ELSE Become(d, [at |-> "save", version |-> feed, todo |-> 1 .. feed, fresh |-> FALSE])
  /\ UNCHANGED <<now, feed, saved, cursor>>

(* find_by_idempotency_key, save_candidate and the fetch message.          *)
SaveCandidate(d) ==
  /\ discover[d].at = "save"
  /\ \E item \in discover[d].todo :
       /\ \A other \in discover[d].todo : item <= other
       /\ saved' = saved \cup {item}
       /\ Become(d, [at |-> "save", version |-> discover[d].version,
                     todo |-> discover[d].todo \ {item},
                     fresh |-> discover[d].fresh \/ item \notin saved])
  /\ UNCHANGED <<now, feed, cursor>>

(* Variant: the discover ends as soon as an item was saved.                *)
SavedSome(d) ==
  /\ discover[d].at = "save"
  /\ discover[d].fresh \/ discover[d].todo = {}
  /\ Become(d, [at |-> "succeed", version |-> discover[d].version, fresh |-> discover[d].fresh])
  /\ UNCHANGED <<now, feed, saved, cursor>>

SavedAll(d) ==
  /\ discover[d].at = "save" /\ discover[d].todo = {}
  /\ Become(d, [at |-> "succeed", version |-> discover[d].version, fresh |-> discover[d].fresh])
  /\ UNCHANGED <<now, feed, saved, cursor>>

Streak(field) == IF cursor = None THEN 0 ELSE cursor[field]

Backoff(n) == Least(Maximum, Base * 2 ^ n)

(* record_success reads the cursor; a response without an ETag keeps the   *)
(* one that is stored.                                                     *)
RecordSuccess(d) ==
  /\ discover[d].at = "succeed"
  /\ LET unchanged == IF discover[d].fresh THEN 0 ELSE Streak("unchanged") + 1
         interval  == IF discover[d].fresh THEN Base ELSE Backoff(unchanged)
     IN \E etag \in {discover[d].version, IF cursor = None THEN None ELSE cursor.etag} :
          Become(d, [at |-> "write",
            cursor |-> [etag |-> etag, due |-> now + interval, unchanged |-> unchanged,
                        failures |-> 0, open |-> None]])
  /\ UNCHANGED <<now, feed, saved, cursor>>

(* record_failure reads the cursor; the circuit opens at the threshold.    *)
RecordFailure(d) ==
  /\ discover[d].at = "fail"
  /\ LET failures == Streak("failures") + 1
         due      == now + Backoff(failures)
     IN Become(d, [at |-> "write",
          cursor |-> [etag |-> IF cursor = None THEN None ELSE cursor.etag, due |-> due,
                      unchanged |-> Streak("unchanged"), failures |-> failures,
                      open |-> IF failures >= Threshold THEN due ELSE None]])
  /\ UNCHANGED <<now, feed, saved, cursor>>

SaveCursor(d) ==
  /\ discover[d].at = "write"
  /\ cursor' = discover[d].cursor
  /\ Become(d, Idle)
  /\ UNCHANGED <<now, feed, saved>>

(* The feed cannot be fetched or parsed, or a call of a store raises.      *)
DiscoverRaises(d) ==
  /\ discover[d].at \in {"fetch", "save", "succeed"}
  /\ Become(d, [at |-> "fail"])
  /\ UNCHANGED <<now, feed, saved, cursor>>

(* The worker dies: what was saved stays, the cursor is not written.       *)
Crash(d) ==
  /\ discover[d] # Idle
  /\ Become(d, Idle)
  /\ UNCHANGED <<now, feed, saved, cursor>>

Publish ==
  /\ feed < Versions
  /\ feed' = feed + 1
  /\ UNCHANGED <<now, saved, cursor, discover>>

Tick ==
  /\ now < MaxTime
  /\ now' = now + 1
  /\ UNCHANGED <<feed, saved, cursor, discover>>

Next ==
  \/ \E d \in Discovers :
       \/ StartRun(d) \/ FetchFeed(d) \/ SaveCandidate(d) \/ SavedAll(d) \/ RecordSuccess(d)
       \/ RecordFailure(d) \/ SaveCursor(d) \/ DiscoverRaises(d) \/ Crash(d)
  \/ Publish \/ Tick

-----------------------------------------------------------------------------
TypeOK ==
  /\ now \in 0 .. MaxTime /\ feed \in 1 .. Versions
  /\ saved \subseteq 1 .. Versions
  /\ cursor \in Cursor \cup {None}
  /\ discover \in [Discovers -> Discover \cup {Idle}]

(* The remembered ETag never stands for a version of the feed with an item *)
(* that was not saved: the source would answer 304 and the item would be   *)
(* lost (discover_source_task saves all candidates before record_success). *)
RememberedIsSaved ==
  cursor # None /\ cursor.etag # None => 1 .. cursor.etag \subseteq saved

(* Inductive form: what a discover read, fetched or is about to write      *)
(* stands for saved items too, but for the ones it is still saving.        *)
Remembered(etag, items) == etag # None => 1 .. etag \subseteq items
JobOK(j, items) ==
  /\ j.at = "fetch" => Remembered(j.sees, items)
  /\ j.at = "save" => 1 .. j.version \subseteq items \cup j.todo
  /\ j.at = "succeed" => 1 .. j.version \subseteq items
  /\ j.at = "write" => Remembered(j.cursor.etag, items)
IInv ==
  /\ feed \in Nat
  /\ cursor # None => Remembered(cursor.etag, saved)
  /\ discover = [d \in Discovers |-> discover[d]]
  /\ \A d \in Discovers : JobOK(discover[d], saved)
=================================================================================
