--------------------------- MODULE ArtifactRetention ---------------------------
(***************************************************************************)
(* The raw bodies of fetched artifacts: files of the blob store, named in  *)
(* raw_fetch_artifacts, shared by artifacts with the same body, and        *)
(* deleted by cleanup_fetch_artifacts_task.                                *)
(*                                                                         *)
(* A fetch looks for a stored body, stores one and saves its row in steps  *)
(* of their own; the cleanup lists files in one transaction, deletes them  *)
(* one by one and forgets the rows' paths in another.                      *)
(***************************************************************************)
EXTENDS Naturals, FiniteSets

CONSTANTS Candidates, \* fetch candidates, all with the same body
          Fetches,    \* fetch tasks
          Cleanups,   \* cleanup tasks
          Life,       \* how long a body is kept, 24 hours
          Limit,      \* paths a cleanup lists at most
          None,
          MaxTime,    \* bound: time that passes
          MaxFiles    \* bound: files written

VARIABLES
  now,
  artifact, \* raw_fetch_artifacts: the row of a candidate, or None
  files,    \* files in the blob store
  written,  \* files written so far, the number that names the next one
  fetch,    \* what a fetch is doing
  cleanup   \* what a cleanup is doing

vars == <<now, artifact, files, written, fetch, cleanup>>

-----------------------------------------------------------------------------
Paths == 1 .. MaxFiles
Times == 0 .. MaxTime + Life

(* late is history: no row kept the file alive when this one took it over. *)
Row == [path : Paths \cup {None}, expires : Times, observed : Times, late : BOOLEAN]

Idle == [at |-> "idle"]
Fetch ==
       [at : {"body"}, candidate : Candidates, observed : Times]
  \cup [at : {"row"}, candidate : Candidates, path : Paths, observed : Times, reused : BOOLEAN]
Cleanup == [at : {"delete"}, todo : SUBSET Paths, before : Times]

Init ==
  /\ now = 0
  /\ artifact = [c \in Candidates |-> None]
  /\ files = {}
  /\ written = 0
  /\ fetch = [f \in Fetches |-> Idle]
  /\ cleanup = [k \in Cleanups |-> Idle]

With(p) == {c \in Candidates : artifact[c] # None /\ artifact[c].path = p}
Stored == {c \in Candidates : artifact[c] # None /\ artifact[c].path # None}
Expired(c, before) == artifact[c].expires < before

(* The engine returned a body.  find_by_body_hash: the latest row that     *)
(* still names a file, expired or not.                                     *)
FindBody(f) ==
  /\ fetch[f] = Idle
  /\ \E c \in Candidates :
       \/ /\ Stored = {}
          /\ fetch' = [fetch EXCEPT ![f] = [at |-> "body", candidate |-> c, observed |-> now]]
       \/ \E other \in Stored :
            /\ \A o \in Stored : artifact[o].observed <= artifact[other].observed
            /\ fetch' = [fetch EXCEPT ![f] =
                 [at |-> "row", candidate |-> c, path |-> artifact[other].path, observed |-> now,
                  reused |-> TRUE]]
  /\ UNCHANGED <<now, artifact, files, written, cleanup>>

(* put: a new file, under the id of the new artifact; a fetch that looked  *)
(* at the same time writes one of its own.                                 *)
PutBody(f) ==
  /\ fetch[f].at = "body"
  /\ written < MaxFiles
  /\ written' = written + 1
  /\ files' = files \cup {written'}
  /\ fetch' = [fetch EXCEPT ![f] =
       [at |-> "row", candidate |-> fetch[f].candidate, path |-> written',
        observed |-> fetch[f].observed, reused |-> FALSE]]
  /\ UNCHANGED <<now, artifact, cleanup>>

(* save_artifact: a row per candidate, method and body; a later fetch      *)
(* overwrites its path and its expiry.                                     *)
SaveArtifact(f) ==
  /\ fetch[f].at = "row"
  /\ artifact' = [artifact EXCEPT ![fetch[f].candidate] =
       [path |-> fetch[f].path, expires |-> fetch[f].observed + Life,
        observed |-> fetch[f].observed,
        late |-> fetch[f].reused /\ \A c \in With(fetch[f].path) : Expired(c, now) \/ artifact[c].late]]
  /\ fetch' = [fetch EXCEPT ![f] = Idle]
  /\ UNCHANGED <<now, files, written, cleanup>>

FetchDies(f) ==
  /\ fetch[f] # Idle
  /\ fetch' = [fetch EXCEPT ![f] = Idle]
  /\ UNCHANGED <<now, artifact, files, written, cleanup>>

(* Variant: a path is listed as soon as one of its rows expired.           *)
SomeExpired(p, before) == \E c \in With(p) : Expired(c, before)

AllExpired(p, before) == With(p) # {} /\ \A c \in With(p) : Expired(c, before)

(* list_expired_blob_paths.                                                *)
ListExpired(k) ==
  /\ cleanup[k] = Idle
  /\ LET expired == {p \in Paths : AllExpired(p, now)}
     IN \E listed \in SUBSET expired :
          /\ listed = expired \/ Cardinality(listed) = Limit
          /\ Cardinality(listed) <= Limit
          /\ cleanup' = [cleanup EXCEPT ![k] = [at |-> "delete", todo |-> listed, before |-> now]]
  /\ UNCHANGED <<now, artifact, files, written, fetch>>

DeleteFile(k) ==
  /\ cleanup[k].at = "delete"
  /\ \E p \in cleanup[k].todo :
       /\ files' = files \ {p}
       /\ cleanup' = [cleanup EXCEPT ![k] =
            [at |-> "delete", todo |-> cleanup[k].todo \ {p}, before |-> cleanup[k].before]]
  /\ UNCHANGED <<now, artifact, written, fetch>>

(* expire_unretained: without a limit, for the time of the listing.  No    *)
(* artifact is ever retained, promote has no caller.                       *)
ExpireUnretained(k) ==
  /\ cleanup[k].at = "delete" /\ cleanup[k].todo = {}
  /\ artifact' = [c \in Candidates |->
       IF c \in Stored /\ Expired(c, cleanup[k].before) THEN [artifact[c] EXCEPT !.path = None]
       ELSE artifact[c]]
  /\ cleanup' = [cleanup EXCEPT ![k] = Idle]
  /\ UNCHANGED <<now, files, written, fetch>>

CleanupDies(k) ==
  /\ cleanup[k] # Idle
  /\ cleanup' = [cleanup EXCEPT ![k] = Idle]
  /\ UNCHANGED <<now, artifact, files, written, fetch>>

Tick ==
  /\ now < MaxTime
  /\ now' = now + 1
  /\ UNCHANGED <<artifact, files, written, fetch, cleanup>>

Next ==
  \/ \E f \in Fetches : FindBody(f) \/ PutBody(f) \/ SaveArtifact(f) \/ FetchDies(f)
  \/ \E k \in Cleanups : ListExpired(k) \/ DeleteFile(k) \/ ExpireUnretained(k) \/ CleanupDies(k)
  \/ Tick

-----------------------------------------------------------------------------
TypeOK ==
  /\ now \in 0 .. MaxTime
  /\ artifact \in [Candidates -> Row \cup {None}]
  /\ files \subseteq Paths /\ written \in 0 .. MaxFiles
  /\ fetch \in [Fetches -> Fetch \cup {Idle}]
  /\ cleanup \in [Cleanups -> Cleanup \cup {Idle}]

(* A body is there for as long as a row that names it has not expired,     *)
(* whoever shares it, unless its fetch saved the row after all others had  *)
(* expired (list_expired_blob_paths, fetch_candidate).                     *)
BodyIsKept ==
  \A c \in Stored : ~Expired(c, now) /\ ~artifact[c].late => artifact[c].path \in files

(* Inductive form: a listed path has only rows that had expired by then, or*)
(* came too late to keep it; a new file is known to its own fetch alone.   *)
Known ==
  /\ \A c \in Stored : artifact[c].path <= written
  /\ \A f \in Fetches : fetch[f].at \in {"body", "row"} => fetch[f].observed <= now
  /\ \A f \in Fetches : fetch[f].at = "row" => fetch[f].path <= written
ListedIsExpired ==
  \A k \in Cleanups : cleanup[k].at = "delete" =>
    /\ cleanup[k].before <= now
    /\ \A p \in cleanup[k].todo :
         p <= written /\ \A c \in With(p) : Expired(c, cleanup[k].before) \/ artifact[c].late
NewIsAlone ==
  \A f \in Fetches : fetch[f].at = "row" /\ ~fetch[f].reused =>
    /\ fetch[f].path \in files /\ With(fetch[f].path) = {}
    /\ \A g \in Fetches \ {f} : fetch[g].at = "row" => fetch[g].path # fetch[f].path
    /\ \A k \in Cleanups : cleanup[k].at = "delete" => fetch[f].path \notin cleanup[k].todo
IInv == TypeOK /\ BodyIsKept /\ Known /\ ListedIsExpired /\ NewIsAlone
================================================================================
