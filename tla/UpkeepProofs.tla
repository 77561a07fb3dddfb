------------------------------- MODULE UpkeepProofs -------------------------------
(* That the secrets of the channels were typed, that what the commands     *)
(* record was done, that a tier never parts from its revision, and that a  *)
(* reload reaches every component and brings the tools back: for any       *)
(* requests, reloads, commands, migrations and domains, and any ends of    *)
(* processes.                                                              *)
EXTENDS Assistant, TLAPS

(* Nothing is stored and nothing asked for at first.                       *)
LEMMA InitIInv == Init => IInv
  BY WebhooksAssumption DEF Init, IInv, NoFile, Idle, Files, Jobs, JobOK, Good, Ops

(* A step that leaves the file, what was typed and the counts, and changes *)
(* one request to one that is as it should be.                             *)
LEMMA JobStep ==
  ASSUME IInv, NEW t \in Threads, NEW p, JobOK(p), push' = [push EXCEPT ![t] = p],
         UNCHANGED <<file, typed, asked, crashes>>
  PROVE  IInv'
<1>1. push' \in [Threads -> Jobs] /\ \A u \in Threads : push'[u] = IF u = t THEN p ELSE push[u]
  BY DEF IInv, JobOK
<1>2. \A u \in Threads : JobOK(push[u])'
  BY <1>1 DEF IInv, JobOK, Good
<1> QED BY <1>1, <1>2 DEF IInv, Good

(* An edit keeps the secrets typed: it takes one from the form only when   *)
(* that is not the mask.                                                   *)
LEMMA EditedGood ==
  ASSUME IInv, NEW t \in Threads, push[t].at # "idle"
  PROVE  Edited(file.channels, push[t]) \subseteq Channel /\ Good(Edited(file.channels, push[t]))
<1> DEFINE p == push[t]
           old == file.channels
<1>1. p \in Jobs /\ p.id \in Ids /\ (p.secret = Mask \/ <<p.id, p.secret>> \in typed)
      /\ (p.op = "add" => p.secret # Mask)
  BY DEF IInv, JobOK
<1>2. old \subseteq Channel /\ Good(old)
  BY DEF IInv, Files
<1>3. p.secret \in Secrets \cup {Mask} /\ p.enabled \in BOOLEAN
  BY <1>1 DEF Jobs
<1> HIDE DEF p, old
<1>4. CASE p.op = "add"
  <2> DEFINE c == [id |-> p.id, secret |-> p.secret, enabled |-> TRUE]
  <2>1. c \in Channel /\ <<c.id, c.secret>> \in typed
    BY <1>1, <1>3, <1>4 DEF Channel
  <2>2. Edited(old, p) = old \cup {c}
    BY <1>4 DEF Edited
  <2> QED BY <1>2, <2>1, <2>2 DEF Good, p, old
<1>5. CASE p.op = "update"
  <2>1. \A c \in old : c.id = p.id => Merged(c, p) \in Channel /\ <<Merged(c, p).id, Merged(c, p).secret>> \in typed
    BY <1>1, <1>2, <1>3 DEF Merged, Channel, Good
  <2>2. Edited(old, p) = {IF c.id = p.id THEN Merged(c, p) ELSE c : c \in old}
    BY <1>5 DEF Edited
  <2> QED BY <1>2, <2>1, <2>2 DEF Good, p, old
<1>6. CASE p.op \notin {"add", "update"}
  <2>1. Edited(old, p) \subseteq old
    BY <1>6 DEF Edited
  <2> QED BY <1>2, <2>1 DEF Good, p, old
<1> QED BY <1>4, <1>5, <1>6 DEF p, old

-----------------------------------------------------------------------------
LEMMA RequestStep == ASSUME IInv, NEW t \in Threads, Request(t) PROVE IInv'
<1>1. PICK op \in Ops, id \in Ids, secret \in Secrets \cup {Mask}, enabled \in BOOLEAN :
        /\ op = "add" => id = asked' /\ secret # Mask /\ enabled
        /\ op \in {"update", "delete"} => id <= asked
        /\ op \in {"delete", "auto", "push"} => secret = Mask
        /\ op \in {"delete", "push"} => enabled
        /\ op \in {"auto", "push"} => id = asked'
        /\ push' = [push EXCEPT ![t] = [at |-> "load", op |-> op, id |-> id, secret |-> secret,
                                        enabled |-> enabled, channels |-> {}, auto |-> FALSE, clean |-> TRUE]]
        /\ typed' = IF secret = Mask THEN typed ELSE typed \cup {<<id, secret>>}
  BY DEF Request
<1> DEFINE p == [at |-> "load", op |-> op, id |-> id, secret |-> secret,
                 enabled |-> enabled, channels |-> {}, auto |-> FALSE, clean |-> TRUE]
<1>2. /\ p \in Jobs /\ p.op = op /\ p.id = id /\ p.secret = secret 
      /\ p.at = "load" /\ p.channels = {}
  BY WebhooksAssumption DEF Jobs, Ids
<1>3. push' = [push EXCEPT ![t] = p]
  BY <1>1
<1> HIDE DEF p
<1>4. push' \in [Threads -> Jobs] /\ \A u \in Threads : push'[u] = IF u = t THEN p ELSE push[u]
  BY <1>2, <1>3 DEF IInv
<1>5. typed \subseteq typed' /\ typed' \subseteq Ids \X Secrets /\ (secret = Mask \/ <<id, secret>> \in typed')
  BY <1>1 DEF IInv
<1>6. JobOK(p)'
  BY <1>1, <1>2, <1>5 DEF JobOK, Good
<1>7. \A u \in Threads : JobOK(push[u])'
  BY <1>4, <1>5, <1>6 DEF IInv, JobOK, Good
<1>8. file' \in Files /\ Good(file.channels)' /\ asked' \in 0 .. MaxRequests /\ crashes' \in 0 .. MaxCrashes
  BY WebhooksAssumption, <1>5 DEF Request, IInv, Good
<1> QED BY <1>4, <1>5, <1>7, <1>8 DEF IInv

LEMMA LoadStep == ASSUME IInv, NEW t \in Threads, Load(t) PROVE IInv'
<1> DEFINE next == CASE push[t].op = "push" -> "send" [] push[t].op = "auto" -> "open" [] OTHER -> "again"
           e == Edited(file.channels, push[t])
           p == [push[t] EXCEPT !.at = next, !.channels = e, !.auto = push[t].enabled]
<1>1. push[t] \in Jobs /\ JobOK(push[t]) /\ push[t].at = "load"
  BY DEF IInv, Load
<1>2. e \subseteq Channel /\ Good(e)
  BY <1>1, EditedGood
<1>3. next \in {"send", "open", "again"}
  OBVIOUS
<1>4. push' = [push EXCEPT ![t] = p]
  BY DEF Load, IInv
<1> HIDE DEF e, next
<1>5. p \in Jobs /\ p.op = push[t].op /\ p.id = push[t].id /\ p.secret = push[t].secret /\ p.channels = e
  BY <1>1, <1>2, <1>3 DEF Jobs
<1> HIDE DEF p
<1>6. JobOK(p)
  BY <1>1, <1>2, <1>5 DEF JobOK
<1> QED BY <1>4, <1>6, JobStep DEF Load

LEMMA LoadAgainStep == ASSUME IInv, NEW t \in Threads, LoadAgain(t) PROVE IInv'
<1> DEFINE p == [push[t] EXCEPT !.at = "open", !.auto = file.auto]
<1>1. push[t] \in Jobs /\ JobOK(push[t]) /\ push[t].at = "again" /\ file.auto \in BOOLEAN
  BY DEF IInv, LoadAgain, Files
<1>2. push' = [push EXCEPT ![t] = p]
  BY DEF LoadAgain, IInv
<1>3. p \in Jobs /\ p.op = push[t].op /\ p.id = push[t].id /\ p.secret = push[t].secret /\ p.channels = push[t].channels
  BY <1>1 DEF Jobs
<1> HIDE DEF p
<1>4. JobOK(p)
  BY <1>1, <1>3 DEF JobOK
<1> QED BY <1>2, <1>4, JobStep DEF LoadAgain

LEMMA IdleOK == JobOK(Idle)
  BY WebhooksAssumption DEF JobOK, Idle, Jobs, Ops, Good

LEMMA RefuseStep == ASSUME IInv, NEW t \in Threads, Refuse(t) PROVE IInv'
  BY IdleOK, JobStep DEF Refuse

LEMMA SendStep == ASSUME IInv, NEW t \in Threads, Send(t) PROVE IInv'
<1>1. CASE push' = [push EXCEPT ![t] = Idle]
  BY <1>1, IdleOK, JobStep DEF Send
<1>2. CASE \E c \in push[t].channels : push' = [push EXCEPT ![t].channels = @ \ {c}]
  <2>1. PICK c \in push[t].channels : push' = [push EXCEPT ![t].channels = @ \ {c}]
    BY <1>2
  <2> DEFINE p == [push[t] EXCEPT !.channels = @ \ {c}]
  <2>2. push[t] \in Jobs /\ JobOK(push[t])
    BY DEF IInv
  <2>3. push' = [push EXCEPT ![t] = p]
    BY <2>1 DEF IInv
  <2>4. p \in Jobs /\ p.op = push[t].op /\ p.id = push[t].id /\ p.secret = push[t].secret
        /\ p.at = push[t].at /\ p.channels \subseteq push[t].channels
    BY <2>2 DEF Jobs
  <2> HIDE DEF p
  <2>5. JobOK(p)
    BY <2>2, <2>4 DEF JobOK, Good
  <2> QED BY <2>3, <2>5, JobStep DEF Send
<1> QED BY <1>1, <1>2 DEF Send

(* A file opened for writing has no channels.                              *)
LEMMA OpenStep == ASSUME IInv, NEW t \in Threads, Open(t) PROVE IInv'
<1> DEFINE p == [push[t] EXCEPT !.at = "dump", !.clean = TRUE]
<1>1. push[t] \in Jobs /\ JobOK(push[t]) /\ push[t].at = "open"
  BY DEF IInv, Open
<1>2. push' = [push EXCEPT ![t] = p]
  BY DEF Open, IInv
<1>3. p \in Jobs /\ p.op = push[t].op /\ p.id = push[t].id /\ p.secret = push[t].secret /\ p.channels = push[t].channels
  BY <1>1 DEF Jobs
<1> HIDE DEF p
<1>4. JobOK(p)
  BY <1>1, <1>3 DEF JobOK
<1>5. push' \in [Threads -> Jobs] /\ \A u \in Threads : JobOK(push'[u])
  BY <1>2, <1>4 DEF IInv, JobOK
<1>6. file' \in Files /\ file'.channels = {}
  BY DEF Open, NoFile, Files
<1> QED BY <1>5, <1>6 DEF IInv, Open, JobOK, Good

(* The file gets the channels of the request, or is not readable.          *)
LEMMA DumpStep == ASSUME IInv, NEW t \in Threads, Dump(t) PROVE IInv'
<1>1. file' \in Files /\ Good(file'.channels)
  <2>1. PICK readable \in BOOLEAN :
          file' = IF readable THEN [readable |-> TRUE, channels |-> push[t].channels, auto |-> push[t].auto]
                  ELSE [NoFile EXCEPT !.readable = FALSE]
    BY DEF Dump, IInv, Jobs
  <2>2. push[t].channels \subseteq Channel /\ push[t].auto \in BOOLEAN /\ Good(push[t].channels)
    BY DEF IInv, JobOK, Jobs
  <2>3. CASE readable
    BY <2>1, <2>2, <2>3 DEF Files
  <2>4. CASE ~readable
    BY <2>1, <2>4 DEF Files, NoFile, Good
  <2> QED BY <2>3, <2>4
<1>2. push' = [u \in Threads |-> IF u = t THEN Idle ELSE [push[u] EXCEPT !.clean = FALSE]]
  BY DEF Dump
<1>3. \A u \in Threads : JobOK(push'[u])
  <2> SUFFICES ASSUME NEW u \in Threads, u # t PROVE JobOK([push[u] EXCEPT !.clean = FALSE])
    BY <1>2, IdleOK
  <2> DEFINE p == [push[u] EXCEPT !.clean = FALSE]
  <2>1. push[u] \in Jobs /\ JobOK(push[u])
    BY DEF IInv
  <2>2. p \in Jobs /\ p.op = push[u].op /\ p.id = push[u].id /\ p.secret = push[u].secret
        /\ p.at = push[u].at /\ p.channels = push[u].channels
    BY <2>1 DEF Jobs
  <2> HIDE DEF p
  <2>3. JobOK(p)
    BY <2>1, <2>2 DEF JobOK
  <2> QED BY <2>3 DEF p
<1>4. push' \in [Threads -> Jobs]
  BY <1>2, <1>3 DEF JobOK
<1> QED BY <1>1, <1>3, <1>4 DEF IInv, Dump, JobOK, Good

LEMMA CrashStep == ASSUME IInv, Crash PROVE IInv'
<1>1. push' \in [Threads -> Jobs] /\ \A u \in Threads : JobOK(push'[u])
  BY IdleOK DEF Crash, JobOK
<1> QED BY WebhooksAssumption, <1>1 DEF IInv, Crash, JobOK, Good

(* The invariant is inductive.                                             *)
LEMMA NextIInv == IInv /\ [Next]_vars => IInv'
<1> SUFFICES ASSUME IInv, [Next]_vars PROVE IInv'
  OBVIOUS
<1>1. CASE UNCHANGED vars
  BY <1>1 DEF vars, IInv, JobOK, Good
<1>2. CASE \E t \in Threads : Request(t) \/ Load(t) \/ LoadAgain(t) \/ Refuse(t) \/ Open(t) \/ Dump(t) \/ Send(t)
  BY <1>2, RequestStep, LoadStep, LoadAgainStep, RefuseStep, OpenStep, DumpStep, SendStep
<1>3. CASE Crash
  BY <1>3, CrashStep
<1> QED BY <1>1, <1>2, <1>3 DEF Next

-----------------------------------------------------------------------------
(* A command that does nothing, and one that begins a batch.               *)
LEMMA RebuildBeginnings ==
  /\ Reb!JobOK(Reb!Idle, schema, drafts) /\ Reb!JobOK([Reb!Idle EXCEPT !.at = "bootstrap"], schema, drafts)
         /\ \A b \in 1 .. Len(Batches) :
              Reb!JobOK([Reb!Idle EXCEPT !.at = "row", !.batch = b, !.row = 1], schema, drafts)
<1>1. Reb!Idle \in Reb!Jobs /\ Reb!Idle.at = "idle" /\ Reb!Idle.applied = {} /\ Reb!Idle.marked = {}
  BY RebuildAssumption DEF Reb!Idle, Reb!Jobs
<1>2. Reb!JobOK(Reb!Idle, schema, drafts)
  BY <1>1 DEF Reb!JobOK, Reb!FilesOK, Reb!BatchOK
<1>3. Reb!JobOK([Reb!Idle EXCEPT !.at = "bootstrap"], schema, drafts)
  BY <1>1 DEF Reb!JobOK, Reb!FilesOK, Reb!BatchOK, Reb!Jobs
<1>4. ASSUME NEW b \in 1 .. Len(Batches)
      PROVE  Reb!JobOK([Reb!Idle EXCEPT !.at = "row", !.batch = b, !.row = 1], schema, drafts)
  <2> DEFINE j == [Reb!Idle EXCEPT !.at = "row", !.batch = b, !.row = 1]
  <2>1. b \in 0 .. Len(Batches) /\ 1 \in Nat
    BY RebuildAssumption
  <2>2. j \in Reb!Jobs
    BY <1>1, <2>1 DEF Reb!Jobs
  <2>3. j.at = "row" /\ j.batch = b /\ j.row = 1 /\ j.applied = {} /\ j.marked = {}
    BY <1>1 DEF Reb!Jobs
  <2>4. 1 \in 1 .. Len(Batches[b])
    BY RebuildAssumption
  <2> HIDE DEF j
  <2>5. Reb!JobOK(j, schema, drafts)
    BY <2>2, <2>3, <2>4 DEF Reb!JobOK, Reb!FilesOK, Reb!BatchOK
  <2> QED BY <2>5 DEF j
<1> QED BY <1>2, <1>3, <1>4

(* Nothing is undone: what a command may hold it may hold after any more   *)
(* files took effect and any more drafts were made.                        *)
LEMMA RebuildMoreIsFine ==
  ASSUME Reb!IInv, NEW j, Reb!JobOK(j, schema, drafts), schema \subseteq schema',
         drafts' \in [Reb!Versions -> 0 .. MaxDrafts], \A v \in Reb!Versions : drafts[v] <= drafts'[v]
  PROVE  Reb!JobOK(j, schema', drafts')
<1>1. Reb!FilesOK(j, schema')
  BY DEF Reb!JobOK, Reb!FilesOK
<1>2. \A v \in Reb!Versions : drafts[v] > 0 => drafts'[v] > 0
  BY RebuildAssumption DEF Reb!IInv, Reb!StateOK
<1>3. j.marked \subseteq Reb!Versions
  BY DEF Reb!JobOK, Reb!Jobs
<1>4. j.at = "anchor" => Batches[j.batch][j.row] \in Reb!Versions
  BY DEF Reb!JobOK, Reb!BatchOK, Reb!Versions
<1>5. Reb!BatchOK(j, drafts')
  BY <1>2, <1>3, <1>4 DEF Reb!JobOK, Reb!BatchOK
<1> QED BY <1>1, <1>5 DEF Reb!JobOK

(* A step that undoes nothing and leaves one command as it should be.      *)
LEMMA RebuildCommandStep ==
  ASSUME Reb!IInv, NEW c \in Threads, NEW j, Reb!Become(c, j), Reb!JobOK(j, schema', drafts'), Reb!StateOK',
         schema \subseteq schema', \A v \in Reb!Versions : drafts[v] <= drafts'[v]
  PROVE  Reb!IInv'
<1>1. command' \in [Threads -> Reb!Jobs] /\ \A d \in Threads : command'[d] = IF d = c THEN j ELSE command[d]
  BY DEF Reb!IInv, Reb!Become, Reb!JobOK
<1>2. drafts' \in [Reb!Versions -> 0 .. MaxDrafts]
  BY DEF Reb!StateOK
<1>3. \A d \in Threads : Reb!JobOK(command'[d], schema', drafts')
  <2> SUFFICES ASSUME NEW d \in Threads, d # c PROVE Reb!JobOK(command'[d], schema', drafts')
    BY <1>1
  <2>1. Reb!JobOK(command[d], schema, drafts)
    BY DEF Reb!IInv
  <2>2. command'[d] = command[d]
    BY <1>1
  <2>3. \A x : Reb!JobOK(x, schema, drafts) => Reb!JobOK(x, schema', drafts')
    BY <1>2, RebuildMoreIsFine
  <2> QED BY <2>1, <2>2, <2>3
<1> QED BY <1>1, <1>3 DEF Reb!IInv

(* The same when only the command changes.                                 *)
LEMMA RebuildOnlyCommand ==
  ASSUME Reb!IInv, NEW c \in Threads, NEW j, Reb!Become(c, j), Reb!JobOK(j, schema, drafts),
         UNCHANGED <<Reb!Schema, Reb!Facts, starts>>
  PROVE  Reb!IInv'
<1>1. Reb!StateOK' /\ Reb!JobOK(j, schema', drafts')
  BY DEF Reb!IInv, Reb!StateOK, Reb!JobOK, Reb!RecordedIsDone, Reb!Schema, Reb!Facts
<1>2. \A v \in Reb!Versions : drafts[v] <= drafts'[v]
  BY RebuildAssumption DEF Reb!IInv, Reb!StateOK, Reb!Facts
<1> QED BY <1>1, <1>2, RebuildCommandStep DEF Reb!Schema

-----------------------------------------------------------------------------
(* Nothing is recorded in a database whose first migrations are there.     *)
LEMMA RebuildInitIInv == Reb!Init => Reb!IInv
<1> SUFFICES ASSUME Reb!Init PROVE Reb!IInv
  OBVIOUS
<1>1. Reb!StateOK
  BY RebuildAssumption DEF Reb!Init, Reb!StateOK, Reb!RecordedIsDone, Reb!Files
<1>2. Reb!JobOK(Reb!Idle, schema, drafts)
  BY RebuildBeginnings
<1> QED BY <1>1, <1>2 DEF Reb!Init, Reb!IInv, Reb!JobOK

LEMMA RebuildDriftStep == ASSUME Reb!IInv, Reb!Drift PROVE Reb!IInv'
<1>1. Reb!StateOK' /\ UNCHANGED <<schema, drafts, command>>
  BY DEF Reb!Drift, Reb!IInv, Reb!StateOK, Reb!RecordedIsDone, Reb!Facts
<1> QED BY <1>1 DEF Reb!IInv, Reb!JobOK

(* Start: the ledger that was read names only migrations that took effect. *)
LEMMA RebuildStartStep == ASSUME Reb!IInv, NEW c \in Threads, Reb!Start(c) PROVE Reb!IInv'
<1>1. Reb!StateOK' /\ schema' = schema /\ drafts' = drafts /\ \A v \in Reb!Versions : drafts[v] <= drafts'[v]
  BY RebuildAssumption DEF Reb!Start, Reb!IInv, Reb!StateOK, Reb!RecordedIsDone, Reb!Schema,
                           Reb!Facts
<1> DEFINE j == [Reb!Idle EXCEPT !.at = "next", !.applied = ledger]
<1>2. Reb!JobOK(j, schema, drafts)
  <2>1. Reb!Idle \in Reb!Jobs /\ Reb!Idle.file = 0 /\ Reb!Idle.marked = {}
    BY RebuildAssumption DEF Reb!Idle, Reb!Jobs
  <2>2. ledger \subseteq Reb!Files /\ \A f \in ledger : 1 .. f \subseteq schema
    BY DEF Reb!IInv, Reb!StateOK, Reb!RecordedIsDone
  <2>3. j \in Reb!Jobs /\ j.at = "next" /\ j.applied = ledger /\ j.file = 0 /\ j.marked = {}
    BY <2>1, <2>2 DEF Reb!Jobs
  <2> HIDE DEF j
  <2> QED BY <2>2, <2>3 DEF Reb!JobOK, Reb!FilesOK, Reb!BatchOK
<1> HIDE DEF j
<1>3. 1 \in 1 .. Len(Batches)
  BY RebuildAssumption
<1>4. ASSUME NEW k, Reb!JobOK(k, schema, drafts), Reb!Become(c, k) PROVE Reb!IInv'
  <2>1. Reb!JobOK(k, schema', drafts')
    BY <1>1, <1>4 DEF Reb!JobOK
  <2> QED BY <1>1, <1>4, <2>1, RebuildCommandStep
<1> QED BY <1>2, <1>3, <1>4, RebuildBeginnings DEF Reb!Start, j

(* Bootstrap: what it records it has looked for.                           *)
LEMMA RebuildBootstrapStep == ASSUME Reb!IInv, NEW c \in Threads, Reb!Bootstrap(c) PROVE Reb!IInv'
<1>1. schema' = schema /\ drafts' = drafts /\ \A v \in Reb!Versions : drafts[v] <= drafts'[v]
  BY RebuildAssumption DEF Reb!Bootstrap, Reb!IInv, Reb!StateOK, Reb!Facts
<1>2. 1 .. Published \subseteq Reb!Files
  BY RebuildAssumption DEF Reb!Files
<1>3. Reb!StateOK'
  <2>1. CASE ledger' = ledger
    BY <1>1, <2>1 DEF Reb!Bootstrap, Reb!IInv, Reb!StateOK, Reb!RecordedIsDone, Reb!Facts
  <2>2. CASE ledger' = ledger \cup (1 .. Published) /\ Reb!Sentinels
    <3>1. \A f \in 1 .. Published : 1 .. f \subseteq schema
      <4>1. CASE Published = 0
        BY <4>1
      <4>2. CASE Published # 0
        <5>1. Published \in (1 .. Published) \ Silent
          BY RebuildAssumption, SentinelsAssumption, <4>2
        <5>2. 1 .. Published \subseteq schema
          BY <2>2, <5>1 DEF Reb!Sentinels, Reb!IInv, Reb!StateOK
        <5> QED BY RebuildAssumption, <5>2
      <4> QED BY <4>1, <4>2
    <3> QED BY <1>1, <1>2, <2>2, <3>1 DEF Reb!Bootstrap, Reb!IInv, Reb!StateOK,
                                          Reb!RecordedIsDone, Reb!Facts
  <2> QED BY <2>1, <2>2 DEF Reb!Bootstrap
<1>4. Reb!JobOK(Reb!Idle, schema', drafts')
  BY <1>1, RebuildBeginnings DEF Reb!JobOK
<1> QED BY <1>1, <1>3, <1>4, RebuildCommandStep DEF Reb!Bootstrap

(* NextFile: a file that is passed over is recorded, so that all before    *)
(* the next one took effect.                                               *)
LEMMA RebuildNextFileStep == ASSUME Reb!IInv, NEW c \in Threads, Reb!NextFile(c) PROVE Reb!IInv'
<1> DEFINE p == command[c]
           pending == {f \in Reb!Files : f > p.file /\ f \notin p.applied}
<1>1. Reb!JobOK(p, schema, drafts) /\ p.at = "next" /\ p.file \in 0 .. LastFile /\ p.applied \subseteq Reb!Files
  BY DEF Reb!IInv, Reb!NextFile, Reb!JobOK, Reb!Jobs
<1>2. CASE Reb!Become(c, Reb!Idle)
  BY <1>2, RebuildBeginnings, RebuildOnlyCommand DEF Reb!NextFile
<1>3. ASSUME NEW next \in pending, \A g \in pending : next <= g,
             Reb!Become(c, [p EXCEPT !.at = "run", !.file = next])
      PROVE  Reb!IInv'
  <2> DEFINE j == [p EXCEPT !.at = "run", !.file = next]
  <2>1. next \in Reb!Files /\ next \in 0 .. LastFile
    BY DEF Reb!Files
  <2>2. 1 .. (next - 1) \subseteq schema
    <3> SUFFICES ASSUME NEW g \in 1 .. (next - 1) PROVE g \in schema
      OBVIOUS
    <3>1. g \in Reb!Files /\ g \in Nat /\ ~(next <= g)
      BY RebuildAssumption, <2>1 DEF Reb!Files
    <3>2. g <= p.file \/ g \in p.applied
      BY RebuildAssumption, <1>1, <1>3, <3>1
    <3>3. CASE g <= p.file
      BY RebuildAssumption, <1>1, <3>1, <3>3 DEF Reb!JobOK, Reb!FilesOK, Reb!Files
    <3>4. CASE g \in p.applied
      BY <1>1, <3>1, <3>4 DEF Reb!JobOK, Reb!FilesOK, Reb!Files
    <3> QED BY <3>2, <3>3, <3>4
  <2>3. j \in Reb!Jobs /\ j.at = "run" /\ j.file = next /\ j.applied = p.applied /\ j.marked = p.marked
    BY <1>1, <2>1 DEF Reb!JobOK, Reb!Jobs
  <2>4. Reb!Become(c, j)
    BY <1>3
  <2> HIDE DEF j, p
  <2>5. Reb!JobOK(j, schema, drafts)
    BY <1>1, <2>1, <2>2, <2>3 DEF Reb!JobOK, Reb!FilesOK, Reb!BatchOK
  <2> QED BY <2>4, <2>5, RebuildOnlyCommand DEF Reb!NextFile
<1> QED BY <1>2, <1>3 DEF Reb!NextFile

(* RunFile: the last of the files up to this one takes effect.             *)
LEMMA RebuildRunFileStep == ASSUME Reb!IInv, NEW c \in Threads, Reb!RunFile(c) PROVE Reb!IInv'
<1> DEFINE p == command[c]
           j == [p EXCEPT !.at = "record"]
<1>1. Reb!JobOK(p, schema, drafts) /\ p \in Reb!Jobs /\ p.at = "run" /\ p.file \in Reb!Files
  BY DEF Reb!IInv, Reb!RunFile, Reb!JobOK, Reb!FilesOK
<1>2. schema' = schema \cup {p.file} /\ drafts' = drafts /\ \A v \in Reb!Versions : drafts[v] <= drafts'[v]
  BY RebuildAssumption DEF Reb!RunFile, Reb!IInv, Reb!StateOK, Reb!Facts
<1>3. 1 .. p.file \subseteq schema'
  BY RebuildAssumption, <1>1, <1>2 DEF Reb!JobOK, Reb!FilesOK, Reb!Files
<1>4. Reb!StateOK'
  BY <1>1, <1>2, <1>3 DEF Reb!RunFile, Reb!IInv, Reb!StateOK, Reb!RecordedIsDone, Reb!Facts
<1>5. j \in Reb!Jobs /\ j.at = "record" /\ j.file = p.file /\ j.applied = p.applied /\ j.marked = p.marked
  BY <1>1 DEF Reb!Jobs
<1>6. Reb!Become(c, j)
  BY DEF Reb!RunFile
<1> HIDE DEF j, p
<1>7. Reb!JobOK(j, schema', drafts')
  BY <1>1, <1>2, <1>3, <1>5 DEF Reb!JobOK, Reb!FilesOK, Reb!BatchOK
<1> QED BY <1>2, <1>4, <1>6, <1>7, RebuildCommandStep

(* FileFails, Killed: nothing but the command ends.                        *)
LEMMA RebuildEndStep == ASSUME Reb!IInv, NEW c \in Threads, Reb!FileFails(c) \/ Reb!Killed(c) PROVE Reb!IInv'
  BY RebuildBeginnings, RebuildOnlyCommand DEF Reb!FileFails, Reb!Killed

(* RecordFile: the file and all before it took effect.                     *)
LEMMA RebuildRecordFileStep == ASSUME Reb!IInv, NEW c \in Threads, Reb!RecordFile(c) PROVE Reb!IInv'
<1> DEFINE p == command[c]
           j == [p EXCEPT !.at = "next"]
<1>1. Reb!JobOK(p, schema, drafts) /\ p \in Reb!Jobs /\ p.at = "record" /\ p.file \in Reb!Files /\ 1 .. p.file \subseteq schema
  BY DEF Reb!IInv, Reb!RecordFile, Reb!JobOK, Reb!FilesOK
<1>2. schema' = schema /\ drafts' = drafts /\ \A v \in Reb!Versions : drafts[v] <= drafts'[v]
  BY RebuildAssumption DEF Reb!RecordFile, Reb!IInv, Reb!StateOK, Reb!Facts
<1>3. Reb!StateOK'
  BY <1>1, <1>2 DEF Reb!RecordFile, Reb!IInv, Reb!StateOK, Reb!RecordedIsDone, Reb!Facts
<1>4. j \in Reb!Jobs /\ j.at = "next" /\ j.file = p.file /\ j.applied = p.applied /\ j.marked = p.marked
  BY <1>1 DEF Reb!Jobs
<1>5. Reb!Become(c, Reb!Idle) \/ Reb!Become(c, j)
  BY DEF Reb!RecordFile
<1> HIDE DEF j, p
<1>6. Reb!JobOK(j, schema, drafts)
  BY <1>1, <1>4 DEF Reb!JobOK, Reb!FilesOK, Reb!BatchOK
<1>7. Reb!JobOK(j, schema', drafts') /\ Reb!JobOK(Reb!Idle, schema', drafts')
  BY <1>2, <1>6, RebuildBeginnings DEF Reb!JobOK
<1> QED BY <1>2, <1>3, <1>5, <1>7, RebuildCommandStep

-----------------------------------------------------------------------------
(* Advance: the next version of the batch, or its end.                     *)
LEMMA RebuildAdvanceOK ==
  ASSUME Reb!IInv, NEW c \in Threads, command[c].at \in {"row", "anchor"},
         NEW marked \in SUBSET Reb!Versions, \A v \in marked \ BareVersions : drafts[v] > 0,
         Reb!Advance(c, marked), UNCHANGED <<Reb!Schema, Reb!Facts, starts>>
  PROVE  Reb!IInv'
<1> DEFINE p == command[c]
           after == IF p.row = Len(Batches[p.batch]) THEN "commit" ELSE "row"
           j == [p EXCEPT !.marked = marked, !.row = @ + 1, !.at = after]
<1>1. /\ Reb!JobOK(p, schema, drafts) /\ p \in Reb!Jobs /\ p.batch \in 1 .. Len(Batches)
      /\ p.row \in 1 .. Len(Batches[p.batch]) /\ p.row \in Nat
  BY DEF Reb!IInv, Reb!JobOK, Reb!BatchOK, Reb!Jobs
<1>2. after \in {"commit", "row"} /\ p.row + 1 \in Nat
  BY <1>1
<1>3. Reb!Become(c, j)
  BY DEF Reb!Advance
<1>4. after = "row" => p.row + 1 \in 1 .. Len(Batches[p.batch])
  BY RebuildAssumption, <1>1
<1> HIDE DEF after
<1>5. /\ j \in Reb!Jobs /\ j.at = after /\ j.batch = p.batch /\ j.row = p.row + 1
      /\ j.applied = p.applied /\ j.marked = marked
  BY <1>1, <1>2 DEF Reb!Jobs
<1> HIDE DEF j, p
<1>6. Reb!JobOK(j, schema, drafts)
  BY <1>1, <1>2, <1>4, <1>5 DEF Reb!JobOK, Reb!FilesOK, Reb!BatchOK
<1> QED BY <1>3, <1>6, RebuildOnlyCommand

(* The version a command is at.                                            *)
LEMMA RebuildRowIsVersion ==
  ASSUME Reb!IInv, NEW c \in Threads, command[c].at \in {"row", "anchor"}
  PROVE  Reb!Row(c) \in Reb!Versions
  BY DEF Reb!IInv, Reb!JobOK, Reb!BatchOK, Reb!Row, Reb!Versions

LEMMA RebuildSkipVersionStep == ASSUME Reb!IInv, NEW c \in Threads, Reb!SkipVersion(c) PROVE Reb!IInv'
<1> DEFINE marked == IF Reb!Row(c) \in progress THEN command[c].marked ELSE command[c].marked \cup {Reb!Row(c)}
<1>1. Reb!Row(c) \in Reb!Versions /\ command[c].at = "row"
  BY RebuildRowIsVersion DEF Reb!SkipVersion
<1>2. command[c].marked \subseteq Reb!Versions /\ \A v \in command[c].marked \ BareVersions : drafts[v] > 0
  BY DEF Reb!IInv, Reb!JobOK, Reb!Jobs, Reb!BatchOK
<1>3. marked \subseteq Reb!Versions /\ \A v \in marked \ BareVersions : drafts[v] > 0
  BY <1>1, <1>2 DEF Reb!SkipVersion
<1>4. Reb!Advance(c, marked)
  BY DEF Reb!SkipVersion
<1> HIDE DEF marked
<1> QED BY <1>1, <1>3, <1>4, RebuildAdvanceOK DEF Reb!SkipVersion

LEMMA RebuildAnchorDraftStep == ASSUME Reb!IInv, NEW c \in Threads, Reb!AnchorDraft(c) PROVE Reb!IInv'
<1> DEFINE marked == command[c].marked \cup {Reb!Row(c)}
<1>1. Reb!Row(c) \in Reb!Versions /\ command[c].at = "anchor"
  BY RebuildRowIsVersion DEF Reb!AnchorDraft
<1>2. /\ command[c].marked \subseteq Reb!Versions /\ \A v \in command[c].marked \ BareVersions : drafts[v] > 0
      /\ drafts[Reb!Row(c)] > 0
  BY <1>1 DEF Reb!IInv, Reb!JobOK, Reb!Jobs, Reb!BatchOK, Reb!Row
<1>3. marked \subseteq Reb!Versions /\ \A v \in marked \ BareVersions : drafts[v] > 0
  BY <1>1, <1>2
<1>4. Reb!Advance(c, marked)
  BY DEF Reb!AnchorDraft
<1> HIDE DEF marked
<1> QED BY <1>1, <1>3, <1>4, RebuildAdvanceOK DEF Reb!AnchorDraft

(* CreateDraft: the version has a draft from here on, whatever becomes of  *)
(* the batch.                                                              *)
LEMMA RebuildCreateDraftStep == ASSUME Reb!IInv, NEW c \in Threads, Reb!CreateDraft(c) PROVE Reb!IInv'
<1> DEFINE p == command[c]
           j == [p EXCEPT !.at = "anchor"]
<1>1. Reb!JobOK(p, schema, drafts) /\ p \in Reb!Jobs /\ p.at = "row" /\ Reb!Row(c) \in Reb!Versions
  BY RebuildRowIsVersion DEF Reb!IInv, Reb!CreateDraft, Reb!JobOK
<1>2. drafts[Reb!Row(c)] \in 0 .. MaxDrafts /\ drafts[Reb!Row(c)] < MaxDrafts
  BY <1>1 DEF Reb!CreateDraft, Reb!IInv, Reb!StateOK
<1>3. /\ drafts' \in [Reb!Versions -> 0 .. MaxDrafts] /\ drafts'[Reb!Row(c)] > 0
      /\ \A v \in Reb!Versions : drafts[v] <= drafts'[v]
  BY RebuildAssumption, <1>1, <1>2 DEF Reb!CreateDraft, Reb!IInv, Reb!StateOK
<1>4. Reb!StateOK'
  <2>1. \A v \in progress \ BareVersions : drafts'[v] > 0
    BY RebuildAssumption, <1>3 DEF Reb!IInv, Reb!StateOK, Reb!RecordedIsDone
  <2> QED BY <1>3, <2>1 DEF Reb!CreateDraft, Reb!IInv, Reb!StateOK, Reb!RecordedIsDone, Reb!Schema
<1>5. Reb!JobOK(p, schema', drafts')
  <2>1. \A x : Reb!JobOK(x, schema, drafts) => Reb!JobOK(x, schema', drafts')
    BY <1>3, RebuildMoreIsFine DEF Reb!CreateDraft, Reb!Schema
  <2> QED BY <1>1, <2>1 DEF Reb!JobOK
<1>6. Reb!Row(c) = Batches[p.batch][p.row]
  BY DEF Reb!Row
<1>7. /\ j \in Reb!Jobs /\ j.at = "anchor" /\ j.batch = p.batch /\ j.row = p.row
      /\ j.applied = p.applied /\ j.marked = p.marked
  BY <1>1 DEF Reb!Jobs
<1>8. Reb!Become(c, j)
  BY DEF Reb!CreateDraft
<1>9. Reb!FilesOK(p, schema') /\ Reb!BatchOK(p, drafts')
  BY <1>5 DEF Reb!JobOK
<1> HIDE DEF j, p
<1>10. Reb!JobOK(j, schema', drafts')
  BY <1>1, <1>3, <1>6, <1>7, <1>9 DEF Reb!JobOK, Reb!FilesOK, Reb!BatchOK
<1> QED BY <1>3, <1>4, <1>8, <1>10, RebuildCommandStep DEF Reb!CreateDraft, Reb!Schema

(* NextBatch begins a batch or ends the command.                           *)
LEMMA RebuildNextBatchOK ==
  ASSUME Reb!IInv, NEW c \in Threads, command[c].at \in {"row", "anchor", "commit"}, Reb!NextBatch(c)
  PROVE  \E j : Reb!JobOK(j, schema, drafts) /\ Reb!Become(c, j)
<1>1. command[c].batch \in 1 .. Len(Batches)
  BY DEF Reb!IInv, Reb!JobOK, Reb!BatchOK
<1>2. CASE command[c].batch = Len(Batches)
  BY <1>2, RebuildBeginnings DEF Reb!NextBatch
<1>3. CASE command[c].batch # Len(Batches)
  <2>1. command[c].batch + 1 \in 1 .. Len(Batches)
    BY RebuildAssumption, <1>1, <1>3
  <2> QED BY <1>3, <2>1, RebuildBeginnings DEF Reb!NextBatch
<1> QED BY <1>2, <1>3

LEMMA RebuildCommitBatchStep == ASSUME Reb!IInv, NEW c \in Threads, Reb!CommitBatch(c) PROVE Reb!IInv'
<1>1. PICK j : Reb!JobOK(j, schema, drafts) /\ Reb!Become(c, j)
  BY RebuildNextBatchOK DEF Reb!CommitBatch
<1>2. command[c].marked \subseteq Reb!Versions /\ \A v \in command[c].marked \ BareVersions : drafts[v] > 0
  BY DEF Reb!IInv, Reb!JobOK, Reb!Jobs, Reb!BatchOK
<1>3. schema' = schema /\ drafts' = drafts /\ \A v \in Reb!Versions : drafts[v] <= drafts'[v]
  BY RebuildAssumption DEF Reb!CommitBatch, Reb!IInv, Reb!StateOK, Reb!Schema
<1>4. Reb!StateOK'
  BY <1>2, <1>3 DEF Reb!CommitBatch, Reb!IInv, Reb!StateOK, Reb!RecordedIsDone, Reb!Schema
<1>5. Reb!JobOK(j, schema', drafts')
  BY <1>1, <1>3 DEF Reb!JobOK
<1> QED BY <1>1, <1>3, <1>4, <1>5, RebuildCommandStep

LEMMA RebuildBatchFailsStep == ASSUME Reb!IInv, NEW c \in Threads, Reb!BatchFails(c) PROVE Reb!IInv'
<1>1. PICK j : Reb!JobOK(j, schema, drafts) /\ Reb!Become(c, j)
  BY RebuildNextBatchOK DEF Reb!BatchFails
<1> QED BY <1>1, RebuildOnlyCommand DEF Reb!BatchFails

-----------------------------------------------------------------------------
(* The invariant is inductive.                                             *)
LEMMA RebuildNextIInv == Reb!IInv /\ [Reb!Next]_(Reb!vars) => Reb!IInv'
<1> SUFFICES ASSUME Reb!IInv, [Reb!Next]_(Reb!vars) PROVE Reb!IInv'
  OBVIOUS
<1>1. CASE UNCHANGED Reb!vars
  BY <1>1 DEF Reb!vars, Reb!IInv, Reb!StateOK, Reb!RecordedIsDone, Reb!JobOK
<1>2. CASE Reb!Drift
  BY <1>2, RebuildDriftStep
<1>3. ASSUME NEW c \in Threads,
             \/ Reb!Start(c) \/ Reb!Bootstrap(c) \/ Reb!NextFile(c) \/ Reb!RunFile(c) \/ Reb!FileFails(c) \/ Reb!RecordFile(c)
             \/ Reb!SkipVersion(c) \/ Reb!CreateDraft(c) \/ Reb!AnchorDraft(c) \/ Reb!CommitBatch(c) \/ Reb!BatchFails(c)
             \/ Reb!Killed(c)
      PROVE  Reb!IInv'
  BY <1>3, RebuildStartStep, RebuildBootstrapStep, RebuildNextFileStep, RebuildRunFileStep,
     RebuildEndStep, RebuildRecordFileStep,
     RebuildSkipVersionStep, RebuildCreateDraftStep, RebuildAnchorDraftStep, RebuildCommitBatchStep, RebuildBatchFailsStep
<1> QED BY <1>1, <1>2, <1>3 DEF Reb!Next

-----------------------------------------------------------------------------
(* The initial state: no profile, no request.                              *)
LEMMA ProfileInitIInv == Pro!Init => Pro!IInv
  BY WebhooksAssumption, ProfilesAssumption DEF Pro!Init, Pro!IInv, Pro!TypeOK, Pro!JobsOK,
                                                Pro!Jobs, Pro!Idle, Pro!Tiers, Pro!Ids,
                                                Pro!TierHasRevision

(* A request takes a number no other has.                                  *)
LEMMA ProfilePutStep == ASSUME Pro!IInv, NEW t \in Threads, Pro!Put(t) PROVE Pro!IInv'
<1>1. PICK d \in Domains, tier \in Pro!Tiers, inherit \in BOOLEAN :
        filing' = [filing EXCEPT ![t] =
                  [at |-> "resolve", n |-> filings', domain |-> d, tier |-> tier, inherit |-> inherit,
                   names |-> <<d>> \o Parents[d], id |-> None, revision |-> None]]
  BY DEF Pro!Put
<1>2. filings' \in Pro!Ids /\ filings' \in 0 .. MaxRequests
  BY WebhooksAssumption, ProfilesAssumption DEF Pro!IInv, Pro!TypeOK, Pro!Put, Pro!Ids
<1>3. <<d>> \o Parents[d] \in Seq(Domains)
  BY WebhooksAssumption, ProfilesAssumption
<1> DEFINE j == [at |-> "resolve", n |-> filings', domain |-> d, tier |-> tier, inherit |-> inherit,
                 names |-> <<d>> \o Parents[d], id |-> None, revision |-> None]
<1>4. j \in Pro!Jobs /\ j.at = "resolve" /\ j.n = filings' /\ j.domain = d
  BY <1>2, <1>3 DEF Pro!Jobs, Pro!Ids
<1>5. filing' = [filing EXCEPT ![t] = j]
  BY <1>1
<1> HIDE DEF j
<1>6. filing'[t] = j /\ filing' \in [Threads -> Pro!Jobs] /\ \A u \in Threads \ {t} : filing'[u] = filing[u]
  BY <1>4, <1>5 DEF Pro!IInv, Pro!JobsOK
<1>7. Pro!JobsOK'
  BY <1>2, <1>4, <1>6 DEF Pro!IInv, Pro!JobsOK, Pro!Ids
<1>8. Pro!TypeOK' /\ Pro!TierHasRevision'
  BY <1>2, <1>4, <1>6, <1>7 DEF Pro!IInv, Pro!TypeOK, Pro!JobsOK, Pro!Jobs, Pro!Put,
                                Pro!TierHasRevision, Pro!Ids, Pro!Profiles, Pro!Revisions
<1> QED BY <1>7, <1>8 DEF Pro!IInv

(* A step that changes only its request, to one that is as it should be.   *)
LEMMA ProfileJobStep ==
  ASSUME Pro!IInv, NEW t \in Threads, NEW j \in Pro!Jobs,
         filing' = [filing EXCEPT ![t] = j], UNCHANGED <<profile, revisions, filings>>,
         j.at # "idle" => j.n \in Pro!Ids /\ j.domain \in Domains,
         j.at = "save" => j.id \in Pro!Ids
  PROVE  Pro!IInv'
<1>1. filing' \in [Threads -> Pro!Jobs] /\ filing'[t] = j /\ \A u \in Threads \ {t} : filing'[u] = filing[u]
  BY DEF Pro!IInv, Pro!JobsOK
<1>2. Pro!JobsOK'
  BY <1>1 DEF Pro!IInv, Pro!JobsOK, Pro!Ids
<1>3. Pro!TypeOK' /\ Pro!TierHasRevision'
  BY <1>1, <1>2 DEF Pro!IInv, Pro!TypeOK, Pro!JobsOK, Pro!Jobs, Pro!TierHasRevision, Pro!Ids,
                    Pro!Profiles, Pro!Revisions
<1> QED BY <1>2, <1>3 DEF Pro!IInv

LEMMA ProfileResolveStep == ASSUME Pro!IInv, NEW t \in Threads, Pro!Resolve(t) PROVE Pro!IInv'
<1> DEFINE name == Head(filing[t].names)
<1>1. CASE Pro!Resolved(t, name)
  <2>1. PICK r \in revisions :
          filing' = [filing EXCEPT ![t] = [@ EXCEPT !.at = "save", !.id = r.of, !.revision = r.id]]
    BY <1>1 DEF Pro!Resolve
  <2> DEFINE j == [filing[t] EXCEPT !.at = "save", !.id = r.of, !.revision = r.id]
  <2>2. r.of \in Pro!Ids /\ r.id \in Pro!Ids
    BY DEF Pro!IInv, Pro!TypeOK, Pro!Revisions
  <2>3. j \in Pro!Jobs /\ j.n \in Pro!Ids /\ j.domain \in Domains /\ j.id \in Pro!Ids
    BY <2>2 DEF Pro!IInv, Pro!JobsOK, Pro!Jobs, Pro!Resolve
  <2> HIDE DEF j
  <2>4. filing' = [filing EXCEPT ![t] = j]
    BY <2>1 DEF j, Pro!IInv, Pro!JobsOK
  <2> QED BY <2>3, <2>4, ProfileJobStep DEF Pro!Resolve
<1>2. CASE ~Pro!Resolved(t, name)
  <2> DEFINE j == [filing[t] EXCEPT !.names = Tail(@)]
  <2>1. filing[t] \in Pro!Jobs /\ filing[t].at = "resolve" /\ filing[t].names # <<>>
    BY DEF Pro!IInv, Pro!JobsOK, Pro!Resolve
  <2>2. filing[t].names \in Seq(Domains)
    BY <2>1 DEF Pro!Jobs
  <2>3. Tail(filing[t].names) \in Seq(Domains)
    BY <2>1, <2>2
  <2>4. j \in Pro!Jobs /\ j.at = filing[t].at /\ j.n = filing[t].n /\ j.domain = filing[t].domain /\ j.at = "resolve"
    BY <2>1, <2>3 DEF Pro!Jobs
  <2>5. filing' = [filing EXCEPT ![t] = j]
    BY <1>2 DEF Pro!Resolve, Pro!IInv, Pro!JobsOK
  <2>6. j.n \in Pro!Ids /\ j.domain \in Domains
    BY <2>4 DEF Pro!IInv, Pro!JobsOK
  <2> HIDE DEF j
  <2> QED BY <2>4, <2>5, <2>6, ProfileJobStep DEF Pro!Resolve
<1> QED BY <1>1, <1>2

LEMMA ProfileNewProfileStep == ASSUME Pro!IInv, NEW t \in Threads, Pro!NewProfile(t) PROVE Pro!IInv'
<1> DEFINE j == [filing[t] EXCEPT !.at = "save", !.id = filing[t].n]
<1>1. j \in Pro!Jobs /\ j.n \in Pro!Ids /\ j.domain \in Domains /\ j.id \in Pro!Ids
  BY DEF Pro!IInv, Pro!JobsOK, Pro!Jobs, Pro!NewProfile
<1>2. filing' = [filing EXCEPT ![t] = j]
  BY DEF Pro!NewProfile, Pro!IInv, Pro!JobsOK
<1> HIDE DEF j
<1> QED BY <1>1, <1>2, ProfileJobStep DEF Pro!NewProfile

LEMMA ProfileRefuseStep == ASSUME Pro!IInv, NEW t \in Threads, Pro!Refuse(t) PROVE Pro!IInv'
<1>1. Pro!Idle \in Pro!Jobs /\ Pro!Idle.at = "idle"
  BY DEF Pro!Idle, Pro!Jobs, Pro!Tiers
<1> QED BY <1>1, ProfileJobStep DEF Pro!Refuse

(* The row and its revision are written together: the row keeps its id or  *)
(* takes one that no other domain has, and the revision is of that id.     *)
LEMMA ProfileSaveStep == ASSUME Pro!IInv, NEW t \in Threads, Pro!Save(t) PROVE Pro!IInv'
<1> DEFINE j == filing[t]
           d == j.domain
<1>1. j \in Pro!Jobs /\ d \in Domains /\ j.n \in Pro!Ids /\ j.id \in Pro!Ids /\ j.tier \in Pro!Tiers /\ j.inherit \in BOOLEAN
  BY DEF Pro!IInv, Pro!JobsOK, Pro!Jobs, Pro!Save
<1>2. profile[d] = None \/ profile[d] \in Pro!Profiles
  BY <1>1 DEF Pro!IInv, Pro!TypeOK
<1>3. Pro!Row(j) \in Pro!Profiles /\ Pro!Row(j).tier = j.tier
  BY <1>1, <1>2 DEF Pro!Row, Pro!Profiles
<1>4. Pro!Revision(j) \in Pro!Revisions /\ Pro!Revision(j).of = Pro!Row(j).id /\ Pro!Revision(j).tier = j.tier
  BY <1>1, <1>3 DEF Pro!Revision, Pro!Revisions, Pro!Profiles, Pro!Jobs
<1>5. /\ profile' = [profile EXCEPT ![d] = Pro!Row(j)] /\ revisions' = revisions \cup {Pro!Revision(j)}
      /\ filing' = [filing EXCEPT ![t] = Pro!Idle] /\ filings' = filings
  BY DEF Pro!Save
<1>6. profile' \in [Domains -> Pro!Profiles \cup {None}] /\ profile'[d] = Pro!Row(j)
      /\ \A e \in Domains \ {d} : profile'[e] = profile[e]
  BY <1>1, <1>3, <1>5 DEF Pro!IInv, Pro!TypeOK
<1>7. profile[d] # None => Pro!Row(j).id = profile[d].id
  BY DEF Pro!Row
<1>8. \A e \in Domains \ {d} : profile[e] # None => profile[e].id # Pro!Row(j).id
  <2>1. CASE profile[d] = None
    BY DEF Pro!Save, Pro!Refused, Pro!OtherHasId
  <2>2. CASE profile[d] # None
    BY <2>2, <1>1, <1>7 DEF Pro!IInv, Pro!TypeOK
  <2> QED BY <2>1, <2>2
<1>9. \A e, f \in Domains : profile'[e] # None /\ profile'[f] # None /\ profile'[e].id = profile'[f].id => e = f
  BY <1>6, <1>8, <1>1 DEF Pro!IInv, Pro!TypeOK
<1>10. Pro!Idle \in Pro!Jobs /\ Pro!Idle.at = "idle"
  BY DEF Pro!Idle, Pro!Jobs, Pro!Tiers
<1>11. filing' \in [Threads -> Pro!Jobs] /\ filing'[t] = Pro!Idle /\ \A u \in Threads \ {t} : filing'[u] = filing[u]
  BY <1>5, <1>10 DEF Pro!IInv, Pro!JobsOK
<1>12. Pro!JobsOK'
  BY <1>10, <1>11 DEF Pro!IInv, Pro!JobsOK, Pro!Ids
<1>13. Pro!TypeOK'
  <2>1. \A u \in Threads : filing'[u].at \in {"idle", "resolve", "save"}
    BY <1>11 DEF Pro!Jobs
  <2>2. revisions' \subseteq Pro!Revisions /\ filings' \in 0 .. MaxRequests
    BY <1>4, <1>5 DEF Pro!IInv, Pro!TypeOK
  <2> QED BY <1>6, <1>9, <2>1, <2>2 DEF Pro!TypeOK, Pro!Profiles, Pro!Revisions, Pro!Ids
<1>14. Pro!TierHasRevision'
  <2> SUFFICES ASSUME NEW e \in Domains, profile'[e] # None
               PROVE \E r \in revisions' : r.of = profile'[e].id /\ r.tier = profile'[e].tier
    BY DEF Pro!TierHasRevision
  <2>1. CASE e = d
    BY <2>1, <1>3, <1>4, <1>5, <1>6
  <2>2. CASE e # d
    BY <2>2, <1>5, <1>6 DEF Pro!IInv, Pro!TierHasRevision
  <2> QED BY <2>1, <2>2
<1> QED BY <1>12, <1>13, <1>14 DEF Pro!IInv

(* The invariant is inductive.                                             *)
LEMMA ProfileNextIInv == Pro!IInv /\ [Pro!Next]_(Pro!vars) => Pro!IInv'
<1> SUFFICES ASSUME Pro!IInv, [Pro!Next]_(Pro!vars) PROVE Pro!IInv'
  OBVIOUS
<1>1. CASE UNCHANGED Pro!vars
  BY <1>1 DEF Pro!vars, Pro!IInv, Pro!TypeOK, Pro!JobsOK, Pro!Jobs, Pro!TierHasRevision,
              Pro!Profiles, Pro!Revisions, Pro!Ids
<1>2. CASE Pro!Next
  <2>1. PICK t \in Threads : Pro!Put(t) \/ Pro!Resolve(t) \/ Pro!NewProfile(t) \/ Pro!Save(t) \/ Pro!Refuse(t)
    BY <1>2 DEF Pro!Next
  <2> QED BY <2>1, ProfilePutStep, ProfileResolveStep, ProfileNewProfileStep, ProfileSaveStep,
             ProfileRefuseStep
<1> QED BY <1>1, <1>2

-----------------------------------------------------------------------------
(* The components of a process.                                            *)

(* What a component is built from, by the tables of the components.        *)
LEMMA ComponentTables ==
  /\ \A c \in Com!Eager \cup Com!Lazy :
       /\ Com!Reads(c) \subseteq Com!Carries(c) /\ Com!Carries(c) \subseteq Com!Groups
       /\ \A d \in Com!Holds(c) : d \in Com!Eager \cup Com!Lazy /\ Com!Carries(d) \subseteq Com!Carries(c)
  /\ \A c \in Com!Eager : Com!Holds(c) = {} /\ Com!Carries(c) = Com!Reads(c)
<1>1. ASSUME NEW c \in Com!Eager
      PROVE  Com!Holds(c) = {} /\ Com!Carries(c) = Com!Reads(c) /\ Com!Reads(c) \subseteq Com!Groups
  BY DEF Com!Eager, Com!Holds, Com!Carries, Com!Reads, Com!Groups
<1>2. ASSUME NEW c \in Com!Lazy
      PROVE  Com!Reads(c) \subseteq Com!Carries(c) /\ Com!Carries(c) \subseteq Com!Groups
  BY DEF Com!Lazy, Com!Carries, Com!Reads, Com!Groups
<1>3. ASSUME NEW c \in Com!Lazy, NEW d \in Com!Holds(c)
      PROVE  d \in Com!Eager \cup Com!Lazy /\ Com!Carries(d) \subseteq Com!Carries(c)
  <2>1. CASE c = "hybrid"
    BY <2>1 DEF Com!Eager, Com!Lazy, Com!Holds, Com!Carries, Com!Reads, Com!Groups
  <2>2. CASE c = "intel"
    BY <2>2 DEF Com!Eager, Com!Lazy, Com!Holds, Com!Carries, Com!Reads, Com!Groups
  <2>3. CASE c \in {"competitor", "insight", "web"}
    BY <2>3 DEF Com!Eager, Com!Lazy, Com!Holds, Com!Carries, Com!Reads, Com!Groups
  <2>4. CASE c = "report"
    BY <2>4 DEF Com!Eager, Com!Lazy, Com!Holds, Com!Carries, Com!Reads, Com!Groups
  <2>5. CASE c = "registry"
    BY <2>5 DEF Com!Eager, Com!Lazy, Com!Holds, Com!Carries, Com!Reads, Com!Groups
  <2>6. CASE c = "factory"
    BY <2>6 DEF Com!Eager, Com!Lazy, Com!Holds, Com!Carries, Com!Reads, Com!Groups
  <2>7. CASE c = "query"
    BY <2>7 DEF Com!Eager, Com!Lazy, Com!Holds, Com!Carries, Com!Reads, Com!Groups
  <2>8. CASE c = "memory"
    BY <2>8 DEF Com!Eager, Com!Lazy, Com!Holds, Com!Carries, Com!Reads, Com!Groups
  <2>9. CASE c = "ingestion"
    BY <2>9 DEF Com!Eager, Com!Lazy, Com!Holds, Com!Carries, Com!Reads, Com!Groups
  <2> QED BY <2>1, <2>2, <2>3, <2>4, <2>5, <2>6, <2>7, <2>8, <2>9 DEF Com!Lazy
<1> QED BY <1>1, <1>2, <1>3

(* reload rebuilds or drops what carries a group it follows.               *)
LEMMA ReloadTables ==
  /\ \A c \in Com!Eager : Com!Carries(c) \cap Com!Followed \subseteq Com!RebuiltOn(c)
  /\ \A c \in Com!Lazy : Com!Carries(c) \cap Com!Followed \subseteq Com!DroppedOn(c)
  /\ Com!RebuiltOn("judge_client") = {"judge"} /\ "judge_client" \in Com!Clients
  /\ "extraction" \notin Com!Followed /\ Com!Followed \subseteq Com!Groups
<1>1. ASSUME NEW c \in Com!Eager PROVE Com!Carries(c) \cap Com!Followed \subseteq Com!RebuiltOn(c)
  BY DEF Com!Eager, Com!Carries, Com!Reads, Com!Followed, Com!Groups, Com!RebuiltOn
<1>2. ASSUME NEW c \in Com!Lazy PROVE Com!Carries(c) \cap Com!Followed \subseteq Com!DroppedOn(c)
  BY DEF Com!Lazy, Com!Carries, Com!Reads, Com!Followed, Com!Groups, Com!DroppedOn, Com!Document
<1> QED BY <1>1, <1>2 DEF Com!RebuiltOn, Com!Clients, Com!Followed

LEMMA Disjoint == Com!Eager \cap Com!Lazy = {}
  BY DEF Com!Eager, Com!Lazy

(* What is built of components that are up to date is up to date.          *)
LEMMA MadeOK ==
  ASSUME NEW b, NEW cfg \in [Com!Groups -> Nat], NEW G, NEW c \in Com!Eager \cup Com!Lazy,
         Com!BuiltOK(b, cfg, G), NEW m, m = Com!Made(b, cfg, c)
  PROVE  /\ m \in [Com!Groups -> SUBSET Nat]
         /\ \A g \in Com!Groups : m[g] # {} => g \in Com!Carries(c) /\ (g \in G => m[g] = {cfg[g]})
         /\ m # None
<1>1. \A g \in Com!Groups : m[g] = (IF g \in Com!Reads(c) THEN {cfg[g]} ELSE {}) \cup
        UNION {b[d][g] : d \in {e \in Com!Holds(c) : b[e] # None}}
  BY DEF Com!Made
<1>2. ASSUME NEW g \in Com!Groups, NEW d \in Com!Holds(c), b[d] # None
      PROVE  b[d][g] \in SUBSET Nat /\ (b[d][g] # {} => g \in Com!Carries(c) /\ (g \in G => b[d][g] = {cfg[g]}))
  <2>1. d \in Com!Eager \cup Com!Lazy /\ Com!Carries(d) \subseteq Com!Carries(c)
    BY ComponentTables
  <2>2. b[d] \in [Com!Groups -> SUBSET Nat]
    BY <1>2, <2>1 DEF Com!BuiltOK
  <2>3. b[d][g] # {} => g \in Com!Carries(d) /\ (g \in G => b[d][g] = {cfg[g]})
    BY <1>2, <2>1 DEF Com!BuiltOK
  <2> QED BY <2>1, <2>2, <2>3
<1>3. ASSUME NEW g \in Com!Groups
      PROVE  m[g] \in SUBSET Nat /\ (m[g] # {} => g \in Com!Carries(c) /\ (g \in G => m[g] = {cfg[g]}))
  <2>1. cfg[g] \in Nat /\ (g \in Com!Reads(c) => g \in Com!Carries(c))
    BY ComponentTables
  <2>2. ASSUME NEW x \in m[g]
        PROVE  x \in Nat /\ g \in Com!Carries(c) /\ (g \in G => x = cfg[g])
    <3>1. CASE g \in Com!Reads(c) /\ x = cfg[g]
      BY <2>1, <3>1
    <3>2. CASE ~(g \in Com!Reads(c) /\ x = cfg[g])
      <4>1. PICK d \in Com!Holds(c) : b[d] # None /\ x \in b[d][g]
        BY <1>1, <2>2, <3>2
      <4>2. b[d][g] \in SUBSET Nat /\ g \in Com!Carries(c) /\ (g \in G => b[d][g] = {cfg[g]})
        BY <1>2, <4>1
      <4> QED BY <4>1, <4>2
    <3> QED BY <3>1, <3>2
  <2> QED BY <2>2
<1>4. m \in [Com!Groups -> SUBSET Nat]
  BY <1>3 DEF Com!Made
<1> QED BY <1>3, <1>4, ComponentsAssumption

LEMMA FillOK ==
  ASSUME NEW b, NEW cfg \in [Com!Groups -> Nat], NEW G, NEW S \in SUBSET Com!Lazy, NEW f,
         f = Com!Fill(S, b, cfg),
         DOMAIN b = Com!Eager \cup Com!Lazy, Com!BuiltOK(b, cfg, G)
  PROVE  /\ DOMAIN f = Com!Eager \cup Com!Lazy
         /\ Com!BuiltOK(f, cfg, G)
         /\ \A c \in Com!Eager : f[c] = b[c]
         /\ \A c \in Com!Eager \cup Com!Lazy : b[c] # None => f[c] # None
         /\ \A c \in S : f[c] # None
<1>2. DOMAIN f = Com!Eager \cup Com!Lazy
  BY DEF Com!Fill
<1>3. ASSUME NEW c \in Com!Eager \cup Com!Lazy
      PROVE  f[c] = IF c \in S /\ b[c] = None THEN Com!Made(b, cfg, c) ELSE b[c]
  BY DEF Com!Fill
<1>4. Com!BuiltOK(f, cfg, G)
  <2> SUFFICES ASSUME NEW c \in Com!Eager \cup Com!Lazy, f[c] # None
               PROVE  /\ f[c] \in [Com!Groups -> SUBSET Nat]
                      /\ \A g \in Com!Groups : f[c][g] # {} =>
                           g \in Com!Carries(c) /\ (g \in G => f[c][g] = {cfg[g]})
    BY DEF Com!BuiltOK
  <2>1. CASE c \in S /\ b[c] = None
    BY <1>3, <2>1, MadeOK
  <2>2. CASE ~(c \in S /\ b[c] = None)
    BY <1>3, <2>2 DEF Com!BuiltOK
  <2> QED BY <2>1, <2>2
<1>5. \A c \in Com!Eager : f[c] = b[c]
  BY <1>3, Disjoint
<1>6. ASSUME NEW c \in Com!Eager \cup Com!Lazy, b[c] # None PROVE f[c] # None
  BY <1>3, <1>6
<1>7. ASSUME NEW c \in S PROVE f[c] # None
  <2>1. c \in Com!Eager \cup Com!Lazy
    OBVIOUS
  <2>2. Com!Made(b, cfg, c) # None
    BY <2>1, MadeOK
  <2>3. CASE b[c] = None
    BY <1>3, <2>1, <2>2, <2>3
  <2>4. CASE b[c] # None
    BY <1>3, <2>1, <2>4
  <2> QED BY <2>3, <2>4
<1> QED BY <1>2, <1>4, <1>5, <1>6, <1>7

(* What building a service leaves: what was there, and the services that   *)
(* were wanted, if nothing raises.                                         *)
LEMMA BuildOK ==
  ASSUME NEW b, NEW cfg \in [Com!Groups -> Nat], NEW G, NEW c, NEW m,
         m = Com!Build(b, cfg, c),
         DOMAIN b = Com!Eager \cup Com!Lazy, Com!BuiltOK(b, cfg, G)
  PROVE  /\ DOMAIN m = Com!Eager \cup Com!Lazy
         /\ Com!BuiltOK(m, cfg, G)
         /\ \A d \in Com!Eager : m[d] = b[d]
         /\ ~Com!Raises(b, c) /\ c \in {"registry", "factory"} => m[c] # None
<1>1. PICK wanted : wanted = (Com!Needs(c) \cup {c}) \
        (IF Com!Raises(b, c) THEN {"hybrid", "web", "registry", "factory", "ingestion"} ELSE {})
  OBVIOUS
<1>2. PICK f : f = Com!Fill(wanted \cap (Com!Lazy \ {"report", "registry", "factory"}), b, cfg)
  OBVIOUS
<1>3. PICK h : h = Com!Fill(wanted \cap {"report"}, f, cfg)
  OBVIOUS
<1>4. PICK k : k = Com!Fill(wanted \cap {"registry"}, h, cfg)
  OBVIOUS
<1>5. m = Com!Fill(wanted \cap {"factory"}, k, cfg)
  BY <1>1, <1>2, <1>3, <1>4 DEF Com!Build
<1>6. PICK w1 : w1 = wanted \cap (Com!Lazy \ {"report", "registry", "factory"})
  OBVIOUS
<1>7. {"report", "registry", "factory"} \subseteq Com!Lazy
  BY DEF Com!Lazy
<1>8. DOMAIN f = Com!Eager \cup Com!Lazy /\ Com!BuiltOK(f, cfg, G) /\ \A d \in Com!Eager : f[d] = b[d]
  <2>1. w1 \in SUBSET Com!Lazy /\ f = Com!Fill(w1, b, cfg)
    BY <1>2, <1>6
  <2> QED BY <2>1, FillOK
<1>9. DOMAIN h = Com!Eager \cup Com!Lazy /\ Com!BuiltOK(h, cfg, G) /\ \A d \in Com!Eager : h[d] = f[d]
  <2>1. PICK w : w = wanted \cap {"report"}
    OBVIOUS
  <2>2. w \in SUBSET Com!Lazy /\ h = Com!Fill(w, f, cfg)
    BY <1>3, <1>7, <2>1
  <2> QED BY <1>8, <2>2, FillOK
<1>10. /\ DOMAIN k = Com!Eager \cup Com!Lazy /\ Com!BuiltOK(k, cfg, G) /\ \A d \in Com!Eager : k[d] = h[d]
       /\ "registry" \in wanted => k["registry"] # None
  <2>1. PICK w : w = wanted \cap {"registry"}
    OBVIOUS
  <2>2. w \in SUBSET Com!Lazy /\ k = Com!Fill(w, h, cfg)
    BY <1>4, <1>7, <2>1
  <2>3. /\ DOMAIN k = Com!Eager \cup Com!Lazy /\ Com!BuiltOK(k, cfg, G) /\ \A d \in Com!Eager : k[d] = h[d]
        /\ \A d \in w : k[d] # None
    <3>1. DOMAIN h = Com!Eager \cup Com!Lazy /\ Com!BuiltOK(h, cfg, G)
      BY <1>9
    <3> QED BY <2>2, <3>1, FillOK, SMTT(60)
  <2> QED BY <2>1, <2>3
<1>11. /\ DOMAIN m = Com!Eager \cup Com!Lazy /\ Com!BuiltOK(m, cfg, G) /\ \A d \in Com!Eager : m[d] = k[d]
       /\ k["registry"] # None => m["registry"] # None
       /\ "factory" \in wanted => m["factory"] # None
  <2>1. PICK w : w = wanted \cap {"factory"}
    OBVIOUS
  <2>2. w \in SUBSET Com!Lazy /\ m = Com!Fill(w, k, cfg)
    BY <1>5, <1>7, <2>1
  <2>3. /\ DOMAIN m = Com!Eager \cup Com!Lazy /\ Com!BuiltOK(m, cfg, G) /\ \A d \in Com!Eager : m[d] = k[d]
        /\ \A d \in w : m[d] # None
        /\ \A d \in Com!Eager \cup Com!Lazy : k[d] # None => m[d] # None
    <3>1. DOMAIN k = Com!Eager \cup Com!Lazy /\ Com!BuiltOK(k, cfg, G)
      BY <1>10
    <3> QED BY <2>2, <3>1, FillOK, SMTT(60)
  <2> QED BY <1>7, <2>1, <2>3
<1>12. ~Com!Raises(b, c) => c \in wanted
  BY <1>1
<1>13. \A d \in Com!Eager : m[d] = b[d]
  BY <1>8, <1>9, <1>10, <1>11
<1>14. ~Com!Raises(b, c) /\ c \in {"registry", "factory"} => m[c] # None
  BY <1>10, <1>11, <1>12
<1> QED BY <1>11, <1>13, <1>14

(* A component of a client or a store is made of settings only.            *)
LEMMA MadeEager ==
  ASSUME NEW b, NEW cfg \in [Com!Groups -> Nat], NEW c \in Com!Eager, NEW m, m = Com!Made(b, cfg, c)
  PROVE  /\ m \in [Com!Groups -> SUBSET Nat]
         /\ \A g \in Com!Groups : m[g] # {} => g \in Com!Carries(c) /\ m[g] = {cfg[g]}
<1>1. Com!Holds(c) = {} /\ Com!Reads(c) \subseteq Com!Carries(c)
  BY ComponentTables
<1>2. \A g \in Com!Groups : m[g] = IF g \in Com!Reads(c) THEN {cfg[g]} ELSE {}
  BY <1>1 DEF Com!Made
<1> QED BY <1>1, <1>2 DEF Com!Made

LEMMA BuiltShrinks ==
  ASSUME NEW b, NEW cfg, NEW G, NEW H \in SUBSET G, Com!BuiltOK(b, cfg, G)
  PROVE  Com!BuiltOK(b, cfg, H)
  BY DEF Com!BuiltOK

(* Nothing becomes settled while no reload sets or rebuilds.               *)
LEMMA SettledKept ==
  ASSUME NEW t \in Com!Callers, job[t].at # "set", lost' = lost,
         \A u \in Com!Callers \ {t} : job'[u] = job[u]
  PROVE  Com!Settled' \subseteq Com!Settled
<1> SUFFICES ASSUME NEW g \in Com!Settled' PROVE g \in Com!Settled
  OBVIOUS
<1>1. g \in Com!Followed \ lost /\ ~\E a \in Admins : Com!Awaits(a, g)'
  BY DEF Com!Settled, Com!Followed, Com!Groups
<1>2. ASSUME NEW a \in Admins, Com!Awaits(a, g) PROVE FALSE
  <2>1. a # t /\ a \in Com!Callers
    BY <1>2 DEF Com!Awaits, Com!Callers
  <2>2. Com!Awaits(a, g)'
    BY <1>2, <2>1 DEF Com!Awaits
  <2> QED BY <1>1, <2>2
<1> QED BY <1>1, <1>2 DEF Com!Settled

Req(a, w, r, c, n, l) == [at |-> a, want |-> w, refresh |-> r, changed |-> c, new |-> n, left |-> l]

LEMMA ToolsAreKnown == Tools \in Seq(Com!Known) /\ Tools # <<>> /\ Com!Known = {Tools[i] : i \in 1 .. Len(Tools)}
<1>1. PICK K : K = Com!Known
  OBVIOUS
<1>2. \A i \in 1 .. Len(Tools) : Tools[i] \in K
  BY <1>1 DEF Com!Known
<1>3. Tools \in Seq(K)
  BY <1>2, ComponentsAssumption
<1> QED BY <1>1, <1>3, ComponentsAssumption DEF Com!Known

(* A step of one request: it keeps the tables, what is built is built of   *)
(* what is settled, and a tool that is not registered will be.             *)
LEMMA ComStep ==
  ASSUME Com!IInv, NEW t \in Com!Callers, NEW j, job' = [job EXCEPT ![t] = j], Com!JobOK(j),
         env' \in [Com!Groups -> Nat], config' \in [Com!Groups -> Nat],
         DOMAIN built' = Com!Eager \cup Com!Lazy, Com!BuiltOK(built', config', Com!Settled'),
         tools' \subseteq Com!Known,
         built'["embedding_client"] # None => \A x \in Com!Known \ tools' :
           Com!Returns(j, x) \/ (built["embedding_client"] # None /\ x \notin tools /\ ~Com!Returns(job[t], x)),
         lock' = t => j.at = "register",
         lock' \in Com!Callers \ {t} => lock' = lock
  PROVE  Com!IInv'
<1>1. job = [u \in Com!Callers |-> job[u]]
  BY DEF Com!IInv
<1>2. job'[t] = j /\ \A u \in Com!Callers \ {t} : job'[u] = job[u]
  BY <1>1
<1>3. job' = [u \in Com!Callers |-> job'[u]]
  BY <1>1
<1>4. ASSUME NEW u \in Com!Callers PROVE Com!JobOK(job'[u]) /\ (lock' = u => job'[u].at = "register")
  <2>1. CASE u = t
    BY <1>2, <2>1
  <2>2. CASE u # t
    BY <1>2, <2>2 DEF Com!IInv
  <2> QED BY <2>1, <2>2
<1>5. ASSUME built'["embedding_client"] # None, NEW x \in Com!Known \ tools'
      PROVE  \E u \in Com!Callers : Com!Returns(job'[u], x)
  <2>1. CASE Com!Returns(j, x)
    BY <1>2, <2>1
  <2>2. CASE ~Com!Returns(j, x)
    <3>1. built["embedding_client"] # None /\ x \notin tools /\ ~Com!Returns(job[t], x)
      BY <1>5, <2>2
    <3>2. PICK u \in Com!Callers : Com!Returns(job[u], x)
      BY <3>1 DEF Com!IInv
    <3>3. job'[u] = job[u]
      BY <1>2, <3>1, <3>2
    <3> QED BY <3>2, <3>3
  <2> QED BY <2>1, <2>2
<1>6. Com!Known' = Com!Known /\ (\A i : Com!JobOK(i)' <=> Com!JobOK(i))
  BY DEF Com!Known, Com!JobOK, Com!Groups
<1> QED BY <1>3, <1>4, <1>5, <1>6 DEF Com!IInv, Com!Eager, Com!Lazy, Com!Groups, Com!Callers

(* What every step uses of the invariant.                                  *)
LEMMA ComFacts ==
  ASSUME Com!IInv, NEW t \in Com!Callers, NEW i, i = job[t]
  PROVE  /\ i = Req(i.at, i.want, i.refresh, i.changed, i.new, i.left)
         /\ i.at = "compared" => i.new \in [Com!Groups -> Nat]
         /\ i.left \in Seq(Com!Known) /\ (i.at = "unregister" => i.left # <<>>)
         /\ lock = t => i.at = "register"
         /\ env \in [Com!Groups -> Nat] /\ config \in [Com!Groups -> Nat]
         /\ DOMAIN built = Com!Eager \cup Com!Lazy /\ Com!BuiltOK(built, config, Com!Settled)
         /\ tools \subseteq Com!Known
         /\ job = [u \in Com!Callers |-> job[u]]
  BY DEF Com!IInv, Com!JobOK, Req

LEMMA IdleRequestOK ==
  /\ Com!Idle = Req("idle", None, FALSE, {}, None, <<>>)
  /\ Com!JobOK(Com!Idle)
  BY DEF Com!Idle, Com!JobOK, Req

(* Steps that move the request and leave the components and the tools.     *)
LEMMA QuietStep ==
  ASSUME Com!IInv, NEW t \in Com!Callers, NEW j, job' = [job EXCEPT ![t] = j], Com!JobOK(j),
         job[t].at # "set", env' \in [Com!Groups -> Nat], UNCHANGED <<config, built, lost, lock, tools>>,
         \A x \in Com!Known : Com!Returns(job[t], x) => Com!Returns(j, x),
         lock = t => j.at = "register"
  PROVE  Com!IInv'
<1>1. /\ config \in [Com!Groups -> Nat] /\ tools \subseteq Com!Known
      /\ DOMAIN built = Com!Eager \cup Com!Lazy /\ Com!BuiltOK(built, config, Com!Settled)
      /\ job = [u \in Com!Callers |-> job[u]]
  BY ComFacts
<1>2. \A u \in Com!Callers \ {t} : job'[u] = job[u]
  BY <1>1
<1>3. Com!Settled' \in SUBSET Com!Settled
  BY <1>2, SettledKept
<1>4. Com!BuiltOK(built', config', Com!Settled')
  BY <1>1, <1>3, BuiltShrinks
<1> QED BY <1>1, <1>4, ComStep

LEMMA SaveIInv ==
  ASSUME Com!IInv, NEW t \in Admins, Com!Save(t)
  PROVE  Com!IInv'
<1>1. t \in Com!Callers
  BY DEF Com!Callers
<1>2. PICK i : i = job[t]
  OBVIOUS
<1>3. /\ i = Req(i.at, i.want, i.refresh, i.changed, i.new, i.left)
      /\ i.left \in Seq(Com!Known) /\ (lock = t => i.at = "register")
      /\ env \in [Com!Groups -> Nat] /\ job = [u \in Com!Callers |-> job[u]]
  BY <1>1, <1>2, ComFacts
<1>4. i.at = "idle" /\ UNCHANGED <<config, built, lost, lock, tools>>
  BY <1>2 DEF Com!Save
<1>5. PICK j : j = [i EXCEPT !.at = "saved"]
  OBVIOUS
<1>6. j = Req("saved", i.want, i.refresh, i.changed, i.new, i.left)
  BY <1>3, <1>5 DEF Req
<1>7. job' = [job EXCEPT ![t] = j]
  BY <1>1, <1>2, <1>3, <1>5 DEF Com!Save
<1>8. env' \in [Com!Groups -> Nat]
  BY <1>3 DEF Com!Save
<1>9. Com!JobOK(j)
  BY <1>3, <1>6 DEF Com!JobOK, Req
<1>10. \A x : ~Com!Returns(i, x)
  BY <1>4 DEF Com!Returns
<1> QED BY <1>1, <1>2, <1>3, <1>4, <1>7, <1>8, <1>9, <1>10, QuietStep

LEMMA CompareIInv ==
  ASSUME Com!IInv, NEW t \in Admins, Com!Compare(t)
  PROVE  Com!IInv'
<1>1. t \in Com!Callers
  BY DEF Com!Callers
<1>2. PICK i : i = job[t]
  OBVIOUS
<1>3. /\ i = Req(i.at, i.want, i.refresh, i.changed, i.new, i.left)
      /\ i.left \in Seq(Com!Known) /\ (lock = t => i.at = "register")
      /\ env \in [Com!Groups -> Nat] /\ job = [u \in Com!Callers |-> job[u]]
  BY <1>1, <1>2, ComFacts
<1>4. i.at = "saved" /\ UNCHANGED <<env, config, built, lost, lock, tools>>
  BY <1>2 DEF Com!Compare
<1>5. PICK d : d = {g \in Com!Groups : env[g] # config[g]}
  OBVIOUS
<1>6. PICK k : k = [i EXCEPT !.at = "compared", !.new = env, !.changed = d]
  OBVIOUS
<1>7. k = Req("compared", i.want, i.refresh, d, env, i.left)
  BY <1>3, <1>6 DEF Req
<1>8. PICK j : j = IF env = config THEN Com!Idle ELSE k
  OBVIOUS
<1>9. job' = [job EXCEPT ![t] = j]
  BY <1>1, <1>2, <1>3, <1>5, <1>6, <1>8 DEF Com!Compare
<1>10. Com!JobOK(k)
  BY <1>3, <1>7 DEF Com!JobOK, Req
<1>11. Com!JobOK(j)
  BY <1>8, <1>10, IdleRequestOK
<1>12. \A x : ~Com!Returns(i, x)
  BY <1>4 DEF Com!Returns
<1> QED BY <1>1, <1>2, <1>3, <1>4, <1>9, <1>11, <1>12, QuietStep

LEMMA AskIInv ==
  ASSUME Com!IInv, NEW t \in Askers, Com!Ask(t)
  PROVE  Com!IInv'
<1>1. t \in Com!Callers
  BY DEF Com!Callers
<1>2. PICK i : i = job[t]
  OBVIOUS
<1>3. /\ i = Req(i.at, i.want, i.refresh, i.changed, i.new, i.left)
      /\ i.left \in Seq(Com!Known) /\ (lock = t => i.at = "register")
      /\ env \in [Com!Groups -> Nat] /\ job = [u \in Com!Callers |-> job[u]]
  BY <1>1, <1>2, ComFacts
<1>4. i.at = "idle" /\ UNCHANGED <<env, config, built, lost, lock, tools>>
  BY <1>2 DEF Com!Ask
<1>5. PICK c \in Wanted : job' = [job EXCEPT ![t].at = "check", ![t].want = c]
  BY DEF Com!Ask
<1>6. PICK j : j = [i EXCEPT !.at = "check", !.want = c]
  OBVIOUS
<1>7. j = Req("check", c, i.refresh, i.changed, i.new, i.left)
  BY <1>3, <1>6 DEF Req
<1>8. job' = [job EXCEPT ![t] = j]
  BY <1>1, <1>2, <1>3, <1>5, <1>6
<1>9. Com!JobOK(j)
  BY <1>3, <1>7 DEF Com!JobOK, Req
<1>10. \A x : ~Com!Returns(i, x)
  BY <1>4 DEF Com!Returns
<1> QED BY <1>1, <1>2, <1>3, <1>4, <1>8, <1>9, <1>10, QuietStep

LEMMA CheckIInv ==
  ASSUME Com!IInv, NEW t \in Com!Callers, Com!Check(t)
  PROVE  Com!IInv'
<1>2. PICK i : i = job[t]
  OBVIOUS
<1>3. /\ i = Req(i.at, i.want, i.refresh, i.changed, i.new, i.left)
      /\ i.left \in Seq(Com!Known) /\ (lock = t => i.at = "register")
      /\ env \in [Com!Groups -> Nat] /\ job = [u \in Com!Callers |-> job[u]]
  BY <1>2, ComFacts
<1>4. i.at = "check" /\ UNCHANGED <<env, config, built, lost, lock, tools>>
  BY <1>2 DEF Com!Check
<1>5. PICK v : v = IF built[i.want] = None THEN "build" ELSE "take"
  OBVIOUS
<1>6. PICK j : j = [i EXCEPT !.at = v]
  OBVIOUS
<1>7. j = Req(v, i.want, i.refresh, i.changed, i.new, i.left)
  BY <1>3, <1>6 DEF Req
<1>8. job' = [job EXCEPT ![t] = j]
  BY <1>2, <1>3, <1>5, <1>6 DEF Com!Check
<1>9. Com!JobOK(j)
  BY <1>3, <1>5, <1>7 DEF Com!JobOK, Req
<1>10. \A x : Com!Returns(i, x) => Com!Returns(j, x)
  BY <1>4, <1>5, <1>7 DEF Com!Returns, Req
<1> QED BY <1>2, <1>3, <1>4, <1>8, <1>9, <1>10, QuietStep

LEMMA TakeServiceIInv ==
  ASSUME Com!IInv, NEW t \in Com!Callers, Com!TakeService(t)
  PROVE  Com!IInv'
<1>2. PICK i : i = job[t]
  OBVIOUS
<1>3. /\ i = Req(i.at, i.want, i.refresh, i.changed, i.new, i.left)
      /\ i.left \in Seq(Com!Known) /\ (lock = t => i.at = "register")
      /\ env \in [Com!Groups -> Nat] /\ job = [u \in Com!Callers |-> job[u]]
  BY <1>2, ComFacts
<1>4. i.at = "take" /\ i.want # "factory" /\ UNCHANGED <<env, config, built, lost, lock, tools>>
  BY <1>2 DEF Com!TakeService
<1>5. PICK k : k = [i EXCEPT !.at = "check", !.want = "factory"]
  OBVIOUS
<1>6. k = Req("check", "factory", i.refresh, i.changed, i.new, i.left)
  BY <1>3, <1>5 DEF Req
<1>7. PICK j : j = IF i.want = "query" /\ built["query"] # None THEN k ELSE Com!Idle
  OBVIOUS
<1>8. job' = [job EXCEPT ![t] = j]
  BY <1>2, <1>3, <1>5, <1>7 DEF Com!TakeService
<1>9. Com!JobOK(k)
  BY <1>3, <1>6 DEF Com!JobOK, Req
<1>10. Com!JobOK(j)
  BY <1>7, <1>9, IdleRequestOK
<1>11. \A x : ~Com!Returns(i, x)
  BY <1>4 DEF Com!Returns
<1> QED BY <1>2, <1>3, <1>4, <1>8, <1>10, <1>11, QuietStep

(* The configuration is set: what was not to be rebuilt and is as before,  *)
(* or is lost, is all that remains settled.                                *)
LEMMA SetConfigIInv ==
  ASSUME Com!IInv, NEW t \in Admins, Com!SetConfig(t)
  PROVE  Com!IInv'
<1>1. t \in Com!Callers
  BY DEF Com!Callers
<1>2. PICK i : i = job[t]
  OBVIOUS
<1>3. /\ i = Req(i.at, i.want, i.refresh, i.changed, i.new, i.left)
      /\ i.left \in Seq(Com!Known) /\ (lock = t => i.at = "register")
      /\ (i.at = "compared" => i.new \in [Com!Groups -> Nat])
      /\ env \in [Com!Groups -> Nat] /\ job = [u \in Com!Callers |-> job[u]]
      /\ DOMAIN built = Com!Eager \cup Com!Lazy /\ Com!BuiltOK(built, config, Com!Settled)
      /\ tools \subseteq Com!Known
  BY <1>1, <1>2, ComFacts
<1>4. /\ i.at = "compared" /\ UNCHANGED <<env, built, lock, tools>> /\ config' = i.new
      /\ lost' = lost \cup {g \in Com!Groups \ i.changed : i.new[g] # config[g]}
  BY <1>2 DEF Com!SetConfig
<1>5. PICK j : j = [i EXCEPT !.at = "set", !.new = None]
  OBVIOUS
<1>6. j = Req("set", i.want, i.refresh, i.changed, None, i.left)
  BY <1>3, <1>5 DEF Req
<1>7. job' = [job EXCEPT ![t] = j]
  BY <1>1, <1>2, <1>3, <1>5 DEF Com!SetConfig
<1>8. Com!JobOK(j)
  BY <1>3, <1>6 DEF Com!JobOK, Req
<1>9. \A x : ~Com!Returns(i, x)
  BY <1>4 DEF Com!Returns
<1>10. job'[t] = j /\ \A u \in Com!Callers \ {t} : job'[u] = job[u]
  BY <1>1, <1>3, <1>7
<1>11. ASSUME NEW g \in Com!Settled' PROVE g \in Com!Settled /\ config'[g] = config[g]
  <2>1. g \in Com!Followed /\ g \in Com!Groups /\ g \notin lost' /\ ~\E a \in Admins : Com!Awaits(a, g)'
    BY DEF Com!Settled, Com!Followed, Com!Groups
  <2>2. ~Com!Awaits(t, g)'
    BY <2>1
  <2>3. g \notin i.changed
    BY <1>6, <1>10, <2>2 DEF Com!Awaits, Req
  <2>4. i.new[g] = config[g] /\ g \notin lost
    BY <1>4, <2>1, <2>3
  <2>5. ASSUME NEW a \in Admins, Com!Awaits(a, g) PROVE FALSE
    <3>1. a # t /\ a \in Com!Callers
      BY <1>2, <1>4, <2>5 DEF Com!Awaits, Com!Callers
    <3>2. Com!Awaits(a, g)'
      BY <1>10, <2>5, <3>1 DEF Com!Awaits
    <3> QED BY <2>1, <3>2
  <2> QED BY <1>4, <2>1, <2>4, <2>5 DEF Com!Settled
<1>12. PICK G : G = Com!Settled'
  OBVIOUS
<1>13. PICK cfg : cfg = config'
  OBVIOUS
<1>14. Com!BuiltOK(built, cfg, G)
  <2> SUFFICES ASSUME NEW c \in Com!Eager \cup Com!Lazy, built[c] # None
               PROVE  /\ built[c] \in [Com!Groups -> SUBSET Nat]
                      /\ \A g \in Com!Groups : built[c][g] # {} =>
                           g \in Com!Carries(c) /\ (g \in G => built[c][g] = {cfg[g]})
    BY DEF Com!BuiltOK
  <2>1. /\ built[c] \in [Com!Groups -> SUBSET Nat]
        /\ \A g \in Com!Groups : built[c][g] # {} =>
             g \in Com!Carries(c) /\ (g \in Com!Settled => built[c][g] = {config[g]})
    BY <1>3 DEF Com!BuiltOK
  <2>2. \A g \in G : g \in Com!Settled /\ cfg[g] = config[g]
    BY <1>11, <1>12, <1>13
  <2> QED BY <2>1, <2>2
<1>15. built' = built /\ Com!BuiltOK(built', config', Com!Settled') /\ config' \in [Com!Groups -> Nat]
  BY <1>3, <1>4, <1>12, <1>13, <1>14
<1> QED BY <1>1, <1>2, <1>3, <1>4, <1>7, <1>8, <1>9, <1>15, ComStep

(* Steps that build a service: what is settled stays.                      *)
LEMMA BuildStep ==
  ASSUME Com!IInv, NEW t \in Com!Callers, job[t].at # "set", NEW c, NEW j,
         job' = [job EXCEPT ![t] = j], Com!JobOK(j),
         built' = Com!Build(built, config, c) \/ built' = built,
         UNCHANGED <<env, config, lost, tools>>,
         built["embedding_client"] # None => \A x \in Com!Known : Com!Returns(job[t], x) => Com!Returns(j, x),
         lock' = t => j.at = "register", lock' \in Com!Callers \ {t} => lock' = lock
  PROVE  Com!IInv'
<1>1. /\ config \in [Com!Groups -> Nat] /\ env \in [Com!Groups -> Nat] /\ tools \subseteq Com!Known
      /\ DOMAIN built = Com!Eager \cup Com!Lazy /\ Com!BuiltOK(built, config, Com!Settled)
      /\ job = [u \in Com!Callers |-> job[u]]
  BY ComFacts
<1>2. PICK b : b = built'
  OBVIOUS
<1>3. PICK G : G = Com!Settled
  OBVIOUS
<1>4. /\ DOMAIN b = Com!Eager \cup Com!Lazy /\ Com!BuiltOK(b, config, G)
      /\ b["embedding_client"] = built["embedding_client"]
  <2>1. CASE b = built
    BY <1>1, <1>3, <2>1
  <2>2. CASE b = Com!Build(built, config, c)
    <3>1. Com!BuiltOK(built, config, G)
      BY <1>1, <1>3
    <3>2. DOMAIN b = Com!Eager \cup Com!Lazy /\ Com!BuiltOK(b, config, G) /\ \A d \in Com!Eager : b[d] = built[d]
      BY <1>1, <2>2, <3>1, BuildOK
    <3> QED BY <3>2 DEF Com!Eager
  <2> QED BY <1>2, <2>1, <2>2
<1>5. \A u \in Com!Callers \ {t} : job'[u] = job[u]
  BY <1>1
<1>6. PICK H : H = Com!Settled'
  OBVIOUS
<1>7. H \in SUBSET G
  BY <1>3, <1>5, <1>6, SettledKept
<1>8. Com!BuiltOK(b, config, H)
  BY <1>4, <1>7, BuiltShrinks
<1>9. DOMAIN built' = Com!Eager \cup Com!Lazy /\ Com!BuiltOK(built', config', Com!Settled')
  BY <1>2, <1>4, <1>6, <1>8
<1>10. built'["embedding_client"] # None => built["embedding_client"] # None
  BY <1>2, <1>4
<1> QED BY <1>1, <1>9, <1>10, ComStep

LEMMA BuildMissingIInv ==
  ASSUME Com!IInv, NEW t \in Com!Callers, Com!BuildMissing(t)
  PROVE  Com!IInv'
<1>2. PICK i : i = job[t]
  OBVIOUS
<1>3. /\ i = Req(i.at, i.want, i.refresh, i.changed, i.new, i.left)
      /\ i.left \in Seq(Com!Known) /\ (lock = t => i.at = "register")
      /\ job = [u \in Com!Callers |-> job[u]]
  BY <1>2, ComFacts
<1>4. /\ i.at = "build" /\ UNCHANGED <<env, config, lost, lock, tools>>
      /\ built' = Com!Build(built, config, i.want)
  BY <1>2 DEF Com!BuildMissing
<1>5. PICK k : k = [i EXCEPT !.at = "take"]
  OBVIOUS
<1>6. k = Req("take", i.want, i.refresh, i.changed, i.new, i.left)
  BY <1>3, <1>5 DEF Req
<1>7. PICK j : j = IF built[i.want] = None /\ Com!Raises(built, i.want) THEN Com!Idle ELSE k
  OBVIOUS
<1>8. job' = [job EXCEPT ![t] = j]
  BY <1>2, <1>3, <1>5, <1>7 DEF Com!BuildMissing
<1>9. Com!JobOK(k)
  BY <1>3, <1>6 DEF Com!JobOK, Req
<1>10. Com!JobOK(j)
  BY <1>7, <1>9, IdleRequestOK
<1>11. ASSUME built["embedding_client"] # None, NEW x, Com!Returns(i, x) PROVE Com!Returns(j, x)
  <2>1. j = k
    BY <1>7, <1>11 DEF Com!Raises
  <2> QED BY <1>4, <1>6, <1>11, <2>1 DEF Com!Returns, Req
<1>12. lock' = t => j.at = "register"
  BY <1>3, <1>4
<1> QED BY <1>2, <1>4, <1>8, <1>10, <1>11, <1>12, BuildStep

LEMMA BuildQueryIInv ==
  ASSUME Com!IInv, NEW t \in Com!Callers, Com!BuildQuery(t)
  PROVE  Com!IInv'
<1>2. PICK i : i = job[t]
  OBVIOUS
<1>3. /\ i = Req(i.at, i.want, i.refresh, i.changed, i.new, i.left)
      /\ i.left \in Seq(Com!Known) /\ (lock = t => i.at = "register")
      /\ job = [u \in Com!Callers |-> job[u]]
  BY <1>2, ComFacts
<1>4. i.at = "build" /\ i.want = "query" /\ lock = None /\ UNCHANGED <<env, config, lost, tools>>
  BY <1>2 DEF Com!BuildQuery
<1>5. \A x : ~Com!Returns(i, x)
  BY <1>4 DEF Com!Returns
<1>6. CASE built["query"] # None
  <2>1. PICK j : j = [i EXCEPT !.at = "take"]
    OBVIOUS
  <2>2. j = Req("take", i.want, i.refresh, i.changed, i.new, i.left)
    BY <1>3, <2>1 DEF Req
  <2>3. job' = [job EXCEPT ![t] = j] /\ UNCHANGED <<built, lock>>
    BY <1>2, <1>3, <1>6, <2>1 DEF Com!BuildQuery
  <2>4. Com!JobOK(j)
    BY <1>3, <2>2 DEF Com!JobOK, Req
  <2>5. lock' = t => j.at = "register"
    BY <1>3, <1>4, <2>3
  <2> QED BY <1>2, <1>4, <1>5, <2>3, <2>4, <2>5, BuildStep
<1>7. CASE built["query"] = None
  <2>1. PICK l : l = IF built'["factory"] = None THEN <<>> ELSE Tools
    OBVIOUS
  <2>2. PICK j : j = [i EXCEPT !.at = "register", !.left = l]
    OBVIOUS
  <2>3. j = Req("register", i.want, i.refresh, i.changed, i.new, l)
    BY <1>3, <2>2 DEF Req
  <2>4. built' = Com!Build(built, config, "factory") /\ lock' = t
    BY <1>7 DEF Com!BuildQuery
  <2>5. job' = [job EXCEPT ![t].at = "register", ![t].left = l]
    BY <1>7, <2>1 DEF Com!BuildQuery
  <2>6. job' = [job EXCEPT ![t] = j]
    BY <1>2, <1>3, <2>2, <2>5
  <2>7. l \in Seq(Com!Known)
    BY <2>1, ToolsAreKnown
  <2>8. Com!JobOK(j)
    BY <1>3, <2>3, <2>7 DEF Com!JobOK, Req
  <2>9. j.at = "register"
    BY <2>3 DEF Req
  <2> QED BY <1>2, <1>4, <1>5, <2>4, <2>6, <2>8, <2>9, BuildStep
<1> QED BY <1>6, <1>7

LEMMA FinishQueryIInv ==
  ASSUME Com!IInv, NEW t \in Com!Callers, Com!FinishQuery(t)
  PROVE  Com!IInv'
<1>2. PICK i : i = job[t]
  OBVIOUS
<1>3. /\ i = Req(i.at, i.want, i.refresh, i.changed, i.new, i.left)
      /\ i.left \in Seq(Com!Known) /\ (lock = t => i.at = "register")
      /\ job = [u \in Com!Callers |-> job[u]]
  BY <1>2, ComFacts
<1>4. /\ lock = t /\ i.left = <<>> /\ lock' = None /\ UNCHANGED <<env, config, lost, tools>>
      /\ built' = Com!Build(built, config, "query")
  BY <1>2 DEF Com!FinishQuery
<1>5. PICK j : j = [i EXCEPT !.at = "take"]
  OBVIOUS
<1>6. j = Req("take", i.want, i.refresh, i.changed, i.new, i.left)
  BY <1>3, <1>5 DEF Req
<1>7. job' = [job EXCEPT ![t] = j]
  BY <1>2, <1>3, <1>5 DEF Com!FinishQuery
<1>8. Com!JobOK(j)
  BY <1>3, <1>6 DEF Com!JobOK, Req
<1>9. \A x : ~Com!Returns(i, x)
  BY <1>3, <1>4 DEF Com!Returns
<1>10. lock' \notin Com!Callers
  BY <1>4, ComponentsAssumption
<1> QED BY <1>2, <1>3, <1>4, <1>7, <1>8, <1>9, <1>10, BuildStep

LEMMA TakeFactoryIInv ==
  ASSUME Com!IInv, NEW t \in Com!Callers, Com!TakeFactory(t)
  PROVE  Com!IInv'
<1>2. PICK i : i = job[t]
  OBVIOUS
<1>3. /\ i = Req(i.at, i.want, i.refresh, i.changed, i.new, i.left)
      /\ i.left \in Seq(Com!Known) /\ (lock = t => i.at = "register")
      /\ config \in [Com!Groups -> Nat]
      /\ DOMAIN built = Com!Eager \cup Com!Lazy /\ Com!BuiltOK(built, config, Com!Settled)
      /\ job = [u \in Com!Callers |-> job[u]]
  BY <1>2, ComFacts
<1>4. /\ i.at = "take" /\ UNCHANGED <<env, config, lost, lock, tools>>
      /\ built' = IF built["factory"] = None THEN Com!Build(built, config, "registry") ELSE built
  BY <1>2 DEF Com!TakeFactory
<1>5. PICK v : v = IF i.refresh THEN "unregister" ELSE "register"
  OBVIOUS
<1>6. PICK k : k = [i EXCEPT !.at = v, !.left = Tools]
  OBVIOUS
<1>7. k = Req(v, i.want, i.refresh, i.changed, i.new, Tools)
  BY <1>3, <1>6 DEF Req
<1>8. PICK j : j = IF built["factory"] = None /\ built'["registry"] = None THEN Com!Idle ELSE k
  OBVIOUS
<1>9. job' = [job EXCEPT ![t] = j]
  BY <1>2, <1>3, <1>5, <1>6, <1>8 DEF Com!TakeFactory
<1>10. Com!JobOK(k)
  BY <1>3, <1>5, <1>7, ToolsAreKnown DEF Com!JobOK, Req
<1>11. Com!JobOK(j)
  BY <1>8, <1>10, IdleRequestOK
<1>12. ASSUME built["embedding_client"] # None, NEW x \in Com!Known PROVE Com!Returns(j, x)
  <2>1. ASSUME built["factory"] = None PROVE built'["registry"] # None
    <3>1. PICK b : b = built'
      OBVIOUS
    <3>2. PICK G : G = Com!Settled
      OBVIOUS
    <3>3. PICK c : c = "registry"
      OBVIOUS
    <3>4. b = Com!Build(built, config, c) /\ Com!BuiltOK(built, config, G)
      BY <1>3, <1>4, <2>1, <3>1, <3>2, <3>3
    <3>5. ~Com!Raises(built, c) /\ c \in {"registry", "factory"}
      BY <1>12, <3>3 DEF Com!Raises
    <3>6. DOMAIN built = Com!Eager \cup Com!Lazy /\ config \in [Com!Groups -> Nat]
      BY <1>3
    <3>7. b[c] # None
      <4>1. ~Com!Raises(built, c) /\ c \in {"registry", "factory"} => b[c] # None
        BY <3>4, <3>6, BuildOK
      <4> QED BY <3>5, <4>1
    <3> QED BY <3>1, <3>3, <3>7
  <2>2. j = k
    BY <1>8, <2>1
  <2>3. PICK n \in 1 .. Len(Tools) : Tools[n] = x
    BY <1>12, ToolsAreKnown
  <2> QED BY <1>5, <1>7, <2>2, <2>3 DEF Com!Returns, Req
<1>13. lock' = t => j.at = "register"
  BY <1>3, <1>4
<1> QED BY <1>2, <1>4, <1>9, <1>11, <1>12, <1>13, BuildStep

LEMMA UnregisterIInv ==
  ASSUME Com!IInv, NEW t \in Com!Callers, Com!Unregister(t)
  PROVE  Com!IInv'
<1>2. PICK i : i = job[t]
  OBVIOUS
<1>3. /\ i = Req(i.at, i.want, i.refresh, i.changed, i.new, i.left)
      /\ i.left \in Seq(Com!Known) /\ (lock = t => i.at = "register")
      /\ env \in [Com!Groups -> Nat] /\ config \in [Com!Groups -> Nat]
      /\ DOMAIN built = Com!Eager \cup Com!Lazy /\ Com!BuiltOK(built, config, Com!Settled)
      /\ tools \subseteq Com!Known /\ job = [u \in Com!Callers |-> job[u]]
  BY <1>2, ComFacts
<1>14. i.at = "unregister" => i.left # <<>>
  BY <1>2, ComFacts
<1>4. /\ i.at = "unregister" /\ UNCHANGED <<env, config, built, lost, lock>>
      /\ tools' = tools \ {Head(i.left)}
  BY <1>2 DEF Com!Unregister
<1>5. PICK q : q = Tail(i.left)
  OBVIOUS
<1>6. PICK k : k = [i EXCEPT !.at = "register", !.left = Tools]
  OBVIOUS
<1>7. PICK m : m = [i EXCEPT !.left = q]
  OBVIOUS
<1>8. /\ k = Req("register", i.want, i.refresh, i.changed, i.new, Tools)
      /\ m = Req(i.at, i.want, i.refresh, i.changed, i.new, q)
  BY <1>3, <1>6, <1>7 DEF Req
<1>9. PICK j : j = IF Len(i.left) = 1 THEN k ELSE m
  OBVIOUS
<1>10. job' = [job EXCEPT ![t] = IF Len(i.left) = 1
         THEN [i EXCEPT !.at = "register", !.left = Tools] ELSE [i EXCEPT !.left = Tail(i.left)]]
  BY <1>2, <1>3 DEF Com!Unregister
<1>11. job' = [job EXCEPT ![t] = j]
  BY <1>5, <1>6, <1>7, <1>9, <1>10
<1>12. Com!JobOK(j)
  <2>1. CASE Len(i.left) = 1
    BY <1>3, <1>8, <1>9, <2>1, ToolsAreKnown DEF Com!JobOK, Req
  <2>2. CASE Len(i.left) # 1
    <3>1. q \in Seq(Com!Known) /\ q # <<>>
      <4>1. PICK l : l = i.left
        OBVIOUS
      <4>2. l \in Seq(Com!Known) /\ l # <<>> /\ Len(l) # 1 /\ q = Tail(l)
        BY <1>3, <1>4, <1>5, <1>14, <2>2, <4>1
      <4>3. Len(l) \in Nat /\ Len(l) # 0 /\ q \in Seq(Com!Known) /\ Len(q) = Len(l) - 1
        BY <4>2
      <4>4. Len(q) # 0
        BY <4>2, <4>3
      <4> QED BY <4>3, <4>4
    <3> QED BY <1>4, <1>8, <1>9, <2>2, <3>1 DEF Com!JobOK, Req
  <2> QED BY <2>1, <2>2
<1>13. ASSUME NEW x \in Com!Known PROVE Com!Returns(j, x)
  <2>1. CASE Len(i.left) = 1
    <3>1. PICK n \in 1 .. Len(Tools) : Tools[n] = x
      BY ToolsAreKnown
    <3> QED BY <1>8, <1>9, <2>1, <3>1 DEF Com!Returns, Req
  <2>2. CASE Len(i.left) # 1
    BY <1>4, <1>8, <1>9, <2>2 DEF Com!Returns, Req
  <2> QED BY <2>1, <2>2
<1>15. \A u \in Com!Callers \ {t} : job'[u] = job[u]
  BY <1>3, <1>11
<1>16. Com!Settled' \in SUBSET Com!Settled
  BY <1>2, <1>4, <1>15, SettledKept
<1>17. Com!BuiltOK(built', config', Com!Settled')
  BY <1>3, <1>4, <1>16, BuiltShrinks
<1>18. lock' = t => j.at = "register"
  BY <1>3, <1>4
<1> QED BY <1>3, <1>4, <1>11, <1>12, <1>13, <1>17, <1>18, ComStep

LEMMA RegisterIInv ==
  ASSUME Com!IInv, NEW t \in Com!Callers, Com!Register(t)
  PROVE  Com!IInv'
<1>2. PICK i : i = job[t]
  OBVIOUS
<1>3. /\ i = Req(i.at, i.want, i.refresh, i.changed, i.new, i.left)
      /\ i.left \in Seq(Com!Known) /\ (lock = t => i.at = "register")
      /\ env \in [Com!Groups -> Nat] /\ config \in [Com!Groups -> Nat]
      /\ DOMAIN built = Com!Eager \cup Com!Lazy /\ Com!BuiltOK(built, config, Com!Settled)
      /\ tools \subseteq Com!Known /\ job = [u \in Com!Callers |-> job[u]]
  BY <1>2, ComFacts
<1>4. /\ i.at = "register" /\ i.left # <<>> /\ UNCHANGED <<env, config, built, lost, lock>>
      /\ tools' = tools \cup {Head(i.left)}
  BY <1>2 DEF Com!Register
<1>5. PICK q : q = Tail(i.left)
  OBVIOUS
<1>6. PICK m : m = [i EXCEPT !.left = q]
  OBVIOUS
<1>7. m = Req("register", i.want, i.refresh, i.changed, i.new, q)
  BY <1>3, <1>4, <1>6 DEF Req
<1>8. PICK j : j = IF q = <<>> /\ lock # t THEN Com!Idle ELSE m
  OBVIOUS
<1>9. job' = [job EXCEPT ![t] = j]
  <2>1. job' = [job EXCEPT ![t] = IF q = <<>> /\ lock # t THEN Com!Idle ELSE [@ EXCEPT !.left = q]]
    BY <1>2, <1>5 DEF Com!Register, Com!After
  <2> QED BY <1>2, <1>3, <1>6, <1>8, <2>1
<1>10. PICK l : l = i.left
  OBVIOUS
<1>11. l \in Seq(Com!Known) /\ l # <<>> /\ q = Tail(l)
  BY <1>3, <1>4, <1>5, <1>10
<1>12. /\ q \in Seq(Com!Known) /\ Head(l) \in Com!Known /\ l[1] = Head(l) /\ Len(q) = Len(l) - 1
       /\ Len(l) \in Nat /\ \A n \in 1 .. Len(q) : q[n] = l[n + 1]
  BY <1>11
<1>13. Com!JobOK(m)
  BY <1>7, <1>12 DEF Com!JobOK, Req
<1>14. Com!JobOK(j)
  BY <1>8, <1>13, IdleRequestOK
<1>15. ASSUME NEW x \in Com!Known \ tools', Com!Returns(i, x) PROVE Com!Returns(j, x)
  <2>1. PICK n \in 1 .. Len(l) : l[n] = x
    BY <1>4, <1>10, <1>15 DEF Com!Returns
  <2>2. n # 1
    BY <1>4, <1>10, <1>12, <1>15, <2>1
  <2>3. n - 1 \in 1 .. Len(q) /\ q[n - 1] = x
    BY <1>12, <2>1, <2>2
  <2>4. q # <<>>
    BY <1>12, <2>3
  <2>5. j = m
    BY <1>8, <2>4
  <2> QED BY <1>7, <2>3, <2>5 DEF Com!Returns, Req
<1>16. \A u \in Com!Callers \ {t} : job'[u] = job[u]
  BY <1>3, <1>9
<1>17. Com!Settled' \in SUBSET Com!Settled
  BY <1>2, <1>4, <1>16, SettledKept
<1>18. Com!BuiltOK(built', config', Com!Settled')
  BY <1>3, <1>4, <1>17, BuiltShrinks
<1>19. lock' = t => j.at = "register"
  BY <1>4, <1>7, <1>8 DEF Req
<1>20. tools' \subseteq Com!Known /\ \A x \in Com!Known \ tools' : x \notin tools
  BY <1>3, <1>4, <1>10, <1>12
<1> QED BY <1>2, <1>3, <1>4, <1>9, <1>14, <1>15, <1>18, <1>19, <1>20, ComStep

(* A group that is settled after a reload has rebuilt was settled before,  *)
(* or is one of those it rebuilt, and is not lost.                         *)
LEMMA SettledAfter ==
  ASSUME NEW t \in Com!Callers, job[t].at = "set", \A u \in Com!Callers \ {t} : job'[u] = job[u],
         lost \ job[t].changed \subseteq lost',
         NEW g \in Com!Settled'
  PROVE  g \in Com!Followed /\ g \notin lost' /\ (g \notin job[t].changed => g \in Com!Settled)
<1>1. g \in Com!Followed /\ g \notin lost' /\ ~\E a \in Admins : Com!Awaits(a, g)'
  BY DEF Com!Settled, Com!Followed, Com!Groups
<1>2. ASSUME g \notin job[t].changed, NEW a \in Admins, Com!Awaits(a, g) PROVE FALSE
  <2>1. a # t /\ a \in Com!Callers
    BY <1>2 DEF Com!Awaits, Com!Callers
  <2>2. Com!Awaits(a, g)'
    BY <1>2, <2>1 DEF Com!Awaits
  <2> QED BY <1>1, <2>2
<1> QED BY <1>1, <1>2 DEF Com!Settled

LEMMA ComponentsRebuildIInv ==
  ASSUME Com!IInv, NEW t \in Admins, Com!Rebuild(t)
  PROVE  Com!IInv'
<1>1. t \in Com!Callers
  BY DEF Com!Callers
<1>2. PICK i : i = job[t]
  OBVIOUS
<1>3. /\ i = Req(i.at, i.want, i.refresh, i.changed, i.new, i.left)
      /\ i.left \in Seq(Com!Known) /\ (lock = t => i.at = "register")
      /\ env \in [Com!Groups -> Nat] /\ config \in [Com!Groups -> Nat]
      /\ DOMAIN built = Com!Eager \cup Com!Lazy /\ Com!BuiltOK(built, config, Com!Settled)
      /\ tools \subseteq Com!Known /\ job = [u \in Com!Callers |-> job[u]]
  BY <1>1, <1>2, ComFacts
<1>4. i.at = "set" /\ UNCHANGED <<env, config, lock, tools>>
  BY <1>2 DEF Com!Rebuild
<1>5. PICK j : j = [i EXCEPT !.at = "check", !.want = "factory", !.refresh = TRUE]
  OBVIOUS
<1>6. j = Req("check", "factory", TRUE, i.changed, i.new, i.left)
  BY <1>3, <1>5 DEF Req
<1>7. job' = [job EXCEPT ![t] = j]
  BY <1>1, <1>2, <1>3, <1>5 DEF Com!Rebuild
<1>8. Com!JobOK(j)
  BY <1>3, <1>6 DEF Com!JobOK, Req
<1>9. \A x : Com!Returns(j, x)
  BY <1>6 DEF Com!Returns, Req
<1>10. \A u \in Com!Callers \ {t} : job'[u] = job[u]
  BY <1>3, <1>7
<1>11. PICK D : D = i.changed
  OBVIOUS
<1>12. PICK bad \in SUBSET {c \in Com!Clients : Com!RebuiltOn(c) \cap job[t].changed # {}} :
         /\ built' = [c \in DOMAIN built |->
              CASE c \in bad \cap {"extraction_client", "judge_client"} -> None
                [] c \in Com!Eager \ bad /\ Com!RebuiltOn(c) \cap job[t].changed # {} ->
                     Com!Made(built, config, c)
                [] c \in Com!Lazy /\ Com!DroppedOn(c) \cap (job[t].changed \
                     ((IF "extraction_client" \in bad THEN {"extraction"} ELSE {}) \cup
                      (IF "judge_client" \in bad THEN {"judge"} ELSE {}))) # {} -> None
                [] OTHER -> built[c]]
         /\ lost' = (lost \ job[t].changed) \cup UNION {Com!RebuiltOn(c) \cap job[t].changed : c \in bad}
  BY DEF Com!Rebuild
<1>13. PICK followed : followed = D \ ((IF "extraction_client" \in bad THEN {"extraction"} ELSE {}) \cup
                                      (IF "judge_client" \in bad THEN {"judge"} ELSE {}))
  OBVIOUS
<1>14. /\ built' = [c \in DOMAIN built |->
            CASE c \in bad \cap {"extraction_client", "judge_client"} -> None
              [] c \in Com!Eager \ bad /\ Com!RebuiltOn(c) \cap D # {} -> Com!Made(built, config, c)
              [] c \in Com!Lazy /\ Com!DroppedOn(c) \cap followed # {} -> None
              [] OTHER -> built[c]]
       /\ lost' = (lost \ D) \cup UNION {Com!RebuiltOn(c) \cap D : c \in bad}
       /\ bad \subseteq Com!Clients
  BY <1>2, <1>11, <1>12, <1>13
<1>15. PICK b : b = built'
  OBVIOUS
<1>16. PICK G : G = Com!Settled'
  OBVIOUS
<1>17. Com!Clients \subseteq Com!Eager
  BY DEF Com!Clients, Com!Eager
<1>18. \A c \in Com!Eager \cup Com!Lazy :
         \/ b[c] = None
         \/ c \in Com!Eager /\ b[c] = Com!Made(built, config, c)
         \/ /\ b[c] = built[c]
            /\ c \in Com!Eager \ bad => Com!RebuiltOn(c) \cap D = {}
            /\ c \in Com!Lazy => Com!DroppedOn(c) \cap followed = {}
  BY <1>3, <1>14, <1>15, <1>17, Disjoint
<1>19. ASSUME NEW g \in G
       PROVE  g \in Com!Followed /\ g \notin lost' /\ (g \notin D => g \in Com!Settled)
  <2>1. lost \ job[t].changed \subseteq lost' /\ job[t].at = "set"
    BY <1>2, <1>4, <1>11, <1>14
  <2> QED BY <1>1, <1>2, <1>10, <1>11, <1>16, <2>1, SettledAfter
<1>20. ASSUME NEW c \in Com!Eager \cup Com!Lazy, b[c] = built[c], built[c] # None,
              c \in Com!Eager \ bad => Com!RebuiltOn(c) \cap D = {},
              c \in Com!Lazy => Com!DroppedOn(c) \cap followed = {},
              NEW g \in Com!Carries(c) \cap G
       PROVE  g \in Com!Settled
  <2>1. g \in Com!Followed /\ g \notin lost' /\ (g \notin D => g \in Com!Settled)
    BY <1>19
  <2>2. ASSUME NEW d \in bad, g \in D PROVE g \notin Com!RebuiltOn(d)
    BY <1>14, <2>1, <2>2
  <2>3. CASE c \in Com!Eager
    <3>1. g \in Com!RebuiltOn(c)
      BY <1>20, <2>1, <2>3, ReloadTables
    <3> QED BY <1>20, <2>1, <2>2, <2>3, <3>1
  <2>4. CASE c \in Com!Lazy
    <3>1. g \in Com!DroppedOn(c)
      BY <1>20, <2>1, <2>4, ReloadTables
    <3>2. g \notin followed
      BY <1>20, <2>4, <3>1
    <3>3. g \in D => g = "judge" /\ "judge_client" \in bad
      BY <1>13, <2>1, <3>2, ReloadTables
    <3>4. g \notin D
      BY <2>2, <3>3, ReloadTables
    <3> QED BY <2>1, <3>4
  <2> QED BY <2>3, <2>4
<1>21. Com!BuiltOK(b, config, G)
  <2> SUFFICES ASSUME NEW c \in Com!Eager \cup Com!Lazy, b[c] # None
               PROVE  /\ b[c] \in [Com!Groups -> SUBSET Nat]
                      /\ \A g \in Com!Groups : b[c][g] # {} =>
                           g \in Com!Carries(c) /\ (g \in G => b[c][g] = {config[g]})
    BY DEF Com!BuiltOK
  <2>1. CASE c \in Com!Eager /\ b[c] = Com!Made(built, config, c)
    BY <1>3, <2>1, MadeEager
  <2>2. CASE ~(c \in Com!Eager /\ b[c] = Com!Made(built, config, c))
    <3>1. /\ b[c] = built[c] /\ built[c] # None
          /\ c \in Com!Eager \ bad => Com!RebuiltOn(c) \cap D = {}
          /\ c \in Com!Lazy => Com!DroppedOn(c) \cap followed = {}
      BY <1>18, <2>2
    <3>2. /\ built[c] \in [Com!Groups -> SUBSET Nat]
          /\ \A g \in Com!Groups : built[c][g] # {} =>
               g \in Com!Carries(c) /\ (g \in Com!Settled => built[c][g] = {config[g]})
      BY <1>3, <3>1 DEF Com!BuiltOK
    <3>3. \A g \in Com!Carries(c) \cap G : g \in Com!Settled
      BY <1>20, <3>1
    <3> QED BY <3>1, <3>2, <3>3
  <2> QED BY <2>1, <2>2
<1>22. DOMAIN built' = Com!Eager \cup Com!Lazy /\ Com!BuiltOK(built', config', Com!Settled')
  BY <1>3, <1>4, <1>14, <1>15, <1>16, <1>21
<1>23. lock' # t
  BY <1>3, <1>4
<1> QED BY <1>1, <1>3, <1>4, <1>7, <1>8, <1>9, <1>22, <1>23, ComStep

LEMMA AbortsIInv ==
  ASSUME Com!IInv, NEW t \in Admins, Com!RebuildAborts(t)
  PROVE  Com!IInv'
<1>1. t \in Com!Callers
  BY DEF Com!Callers
<1>2. PICK i : i = job[t]
  OBVIOUS
<1>3. /\ i = Req(i.at, i.want, i.refresh, i.changed, i.new, i.left)
      /\ i.left \in Seq(Com!Known) /\ (lock = t => i.at = "register")
      /\ env \in [Com!Groups -> Nat] /\ config \in [Com!Groups -> Nat]
      /\ DOMAIN built = Com!Eager \cup Com!Lazy /\ Com!BuiltOK(built, config, Com!Settled)
      /\ tools \subseteq Com!Known /\ job = [u \in Com!Callers |-> job[u]]
  BY <1>1, <1>2, ComFacts
<1>4. /\ i.at = "set" /\ UNCHANGED <<env, config, lock, tools>>
      /\ job' = [job EXCEPT ![t] = Com!Idle] /\ lost' = lost \cup i.changed
  BY <1>2 DEF Com!RebuildAborts
<1>5. \A x : ~Com!Returns(i, x)
  BY <1>4 DEF Com!Returns
<1>6. \A u \in Com!Callers \ {t} : job'[u] = job[u]
  BY <1>3, <1>4
<1>7. PICK b : b = built'
  OBVIOUS
<1>8. PICK G : G = Com!Settled'
  OBVIOUS
<1>9. /\ DOMAIN b = Com!Eager \cup Com!Lazy
      /\ \A c \in Com!Eager \cup Com!Lazy :
           b[c] = None \/ b[c] = built[c] \/ (c \in Com!Eager /\ b[c] = Com!Made(built, config, c))
      /\ b["embedding_client"] = built["embedding_client"]
  <2>1. PICK D : D = i.changed
    OBVIOUS
  <2>2. PICK dropped :
          dropped = (IF "pg" \in D THEN {"competitor", "intel", "insight", "report", "registry", "factory"}
                     ELSE {}) \cup (IF "broker" \in D THEN {"intel", "registry", "factory"} ELSE {})
    OBVIOUS
  <2>3. b = [c \in DOMAIN built |->
          CASE c \in {"stores", "session_store", "redis_state", "files"}
                 /\ Com!RebuiltOn(c) \cap D # {} -> Com!Made(built, config, c)
            [] c \in dropped -> None
            [] OTHER -> built[c]]
    BY <1>2, <1>7, <2>1, <2>2 DEF Com!RebuildAborts
  <2>4. /\ "embedding_client" \notin dropped /\ "embedding_client" \in Com!Eager
        /\ {"stores", "session_store", "redis_state", "files"} \subseteq Com!Eager
    BY <2>2 DEF Com!Eager
  <2>5. DOMAIN b = Com!Eager \cup Com!Lazy
    BY <1>3, <2>3
  <2>6. ASSUME NEW c \in Com!Eager \cup Com!Lazy
        PROVE  b[c] = None \/ b[c] = built[c] \/ (c \in Com!Eager /\ b[c] = Com!Made(built, config, c))
    BY <1>3, <2>3, <2>4
  <2>7. b["embedding_client"] = built["embedding_client"]
    BY <1>3, <2>3, <2>4
  <2> QED BY <2>5, <2>6, <2>7
<1>10. ASSUME NEW g \in G PROVE g \in Com!Settled
  <2>1. lost \ job[t].changed \subseteq lost' /\ job[t].at = "set" /\ job[t].changed \subseteq lost'
    BY <1>2, <1>4
  <2>2. g \notin lost' /\ (g \notin job[t].changed => g \in Com!Settled)
    BY <1>1, <1>6, <1>8, <2>1, SettledAfter
  <2> QED BY <2>1, <2>2
<1>11. Com!BuiltOK(b, config, G)
  <2> SUFFICES ASSUME NEW c \in Com!Eager \cup Com!Lazy, b[c] # None
               PROVE  /\ b[c] \in [Com!Groups -> SUBSET Nat]
                      /\ \A g \in Com!Groups : b[c][g] # {} =>
                           g \in Com!Carries(c) /\ (g \in G => b[c][g] = {config[g]})
    BY DEF Com!BuiltOK
  <2>1. CASE c \in Com!Eager /\ b[c] = Com!Made(built, config, c)
    BY <1>3, <2>1, MadeEager
  <2>2. CASE b[c] = built[c]
    <3>1. /\ built[c] \in [Com!Groups -> SUBSET Nat]
          /\ \A g \in Com!Groups : built[c][g] # {} =>
               g \in Com!Carries(c) /\ (g \in Com!Settled => built[c][g] = {config[g]})
      BY <1>3, <2>2 DEF Com!BuiltOK
    <3> QED BY <1>10, <2>2, <3>1
  <2> QED BY <1>9, <2>1, <2>2
<1>12. DOMAIN built' = Com!Eager \cup Com!Lazy /\ Com!BuiltOK(built', config', Com!Settled')
  BY <1>4, <1>7, <1>8, <1>9, <1>11
<1>13. lock' # t /\ built'["embedding_client"] = built["embedding_client"]
  BY <1>3, <1>4, <1>7, <1>9
<1> QED BY <1>1, <1>2, <1>3, <1>4, <1>5, <1>12, <1>13, IdleRequestOK, ComStep

LEMMA ComponentsInitIInv == Com!Init => Com!IInv
<1> SUFFICES ASSUME Com!Init PROVE Com!IInv
  OBVIOUS
<1>1. env = [g \in Com!Groups |-> 0] /\ config = env /\ lost = {} /\ lock = None
  BY DEF Com!Init
<1>2. PICK n : n = [d \in {} |-> None]
  OBVIOUS
<1>3. PICK bad \in {{}, {"llm_client"}, {"embedding_client"}} :
        built = Com!Build([c \in Com!Eager \cup Com!Lazy |->
                  IF c \in Com!Lazy \cup bad THEN None ELSE Com!Made([d \in {} |-> None], config, c)],
                  config, "factory")
  BY DEF Com!Init
<1>4. PICK made : made = [c \in Com!Eager \cup Com!Lazy |->
                  IF c \in Com!Lazy \cup bad THEN None ELSE Com!Made(n, config, c)]
  OBVIOUS
<1>5. PICK f : f = "factory"
  OBVIOUS
<1>6. built = Com!Build(made, config, f)
  BY <1>2, <1>3, <1>4, <1>5
<1>7. PICK G : G = Com!Settled
  OBVIOUS
<1>8. env \in [Com!Groups -> Nat] /\ config \in [Com!Groups -> Nat]
  BY <1>1
<1>9. DOMAIN made = Com!Eager \cup Com!Lazy /\ Com!BuiltOK(made, config, G)
  <2> SUFFICES ASSUME NEW c \in Com!Eager \cup Com!Lazy, made[c] # None
               PROVE  /\ made[c] \in [Com!Groups -> SUBSET Nat]
                      /\ \A g \in Com!Groups : made[c][g] # {} =>
                           g \in Com!Carries(c) /\ (g \in G => made[c][g] = {config[g]})
    BY <1>4 DEF Com!BuiltOK
  <2>1. c \in Com!Eager /\ made[c] = Com!Made(n, config, c)
    BY <1>4
  <2> QED BY <1>8, <2>1, MadeEager
<1>10. /\ DOMAIN built = Com!Eager \cup Com!Lazy /\ Com!BuiltOK(built, config, G)
       /\ \A d \in Com!Eager : built[d] = made[d]
  <2>1. PICK b : b = built
    OBVIOUS
  <2>2. b = Com!Build(made, config, f)
    BY <1>6, <2>1
  <2>3. /\ DOMAIN b = Com!Eager \cup Com!Lazy /\ Com!BuiltOK(b, config, G)
        /\ \A d \in Com!Eager : b[d] = made[d]
    BY <1>8, <1>9, <2>2, BuildOK
  <2> QED BY <2>1, <2>3
<1>11. ~Com!Raises(made, f) /\ f \in {"registry", "factory"} => built[f] # None
  BY <1>6, <1>8, <1>9, BuildOK
<1>12. built["embedding_client"] # None => built["factory"] # None
  <2>1. made["embedding_client"] = built["embedding_client"]
    BY <1>10 DEF Com!Eager
  <2> QED BY <1>5, <1>11, <2>1 DEF Com!Raises
<1>13. tools = IF built["factory"] = None THEN {} ELSE Com!Known
  BY DEF Com!Init, Com!Known
<1>14. job = [t \in Com!Callers |-> Com!Idle]
  BY DEF Com!Init
<1>15. job = [t \in Com!Callers |-> job[t]]
  BY <1>14
<1>16. ASSUME NEW t \in Com!Callers PROVE Com!JobOK(job[t]) /\ lock # t
  BY <1>1, <1>14, IdleRequestOK, ComponentsAssumption
<1> QED BY <1>7, <1>8, <1>10, <1>12, <1>13, <1>15, <1>16 DEF Com!IInv

LEMMA ComponentsNextIInv == Com!IInv /\ [Com!Next]_(Com!vars) => Com!IInv'
<1> SUFFICES ASSUME Com!IInv, [Com!Next]_(Com!vars) PROVE Com!IInv'
  OBVIOUS
<1>1. CASE UNCHANGED Com!vars
  <2>1. UNCHANGED <<env, config, built, lost, lock, tools, job>>
    BY <1>1 DEF Com!vars
  <2>2. Com!Settled' = Com!Settled
    BY <2>1 DEF Com!Settled, Com!Awaits
  <2> QED BY <2>1, <2>2 DEF Com!IInv
<1>2. CASE \E a \in Admins : \/ Com!Save(a) \/ Com!Compare(a) \/ Com!SetConfig(a)
                             \/ Com!Rebuild(a) \/ Com!RebuildAborts(a)
  BY <1>2, SaveIInv, CompareIInv, SetConfigIInv, ComponentsRebuildIInv, AbortsIInv
<1>3. CASE \E q \in Askers : Com!Ask(q)
  BY <1>3, AskIInv
<1>4. CASE \E t \in Com!Callers :
             \/ Com!Check(t) \/ Com!BuildMissing(t) \/ Com!BuildQuery(t) \/ Com!FinishQuery(t)
             \/ Com!TakeService(t) \/ Com!TakeFactory(t) \/ Com!Unregister(t) \/ Com!Register(t)
  BY <1>4, CheckIInv, BuildMissingIInv, BuildQueryIInv, FinishQueryIInv, TakeServiceIInv,
     TakeFactoryIInv, UnregisterIInv, RegisterIInv
<1> QED BY <1>1, <1>2, <1>3, <1>4 DEF Com!Next

LEMMA ComponentsSafe ==
  ASSUME Com!IInv
  PROVE  Com!ReloadReachesEveryHolder /\ Com!ToolsComeBack
<1>1. ASSUME \A a \in Admins : job[a].at # "set", NEW c \in Com!Eager \cup Com!Lazy, built[c] # None,
             NEW g \in Com!Followed \ lost
      PROVE  built[c][g] \subseteq {config[g]}
  <2>1. g \in Com!Settled /\ g \in Com!Groups
    BY <1>1 DEF Com!Settled, Com!Awaits, Com!Followed
  <2> QED BY <1>1, <2>1 DEF Com!IInv, Com!BuiltOK
<1>2. ASSUME built["embedding_client"] # None, \A t \in Com!Callers : job[t].at = "idle"
      PROVE  tools = Com!Known
  <2>1. \A x, t : t \in Com!Callers => ~Com!Returns(job[t], x)
    BY <1>2 DEF Com!Returns
  <2> QED BY <1>2, <2>1 DEF Com!IInv
<1> QED BY <1>1, <1>2 DEF Com!ReloadReachesEveryHolder, Com!ToolsComeBack, Com!Known

(* The types of the components: every version that is built from was made  *)
(* by an edit.                                                             *)

(* What a component is built from are versions there have been.            *)
LEMMA VersionsMade ==
  ASSUME NEW V, NEW b, NEW cfg \in [Com!Groups -> V], NEW c \in Com!Eager \cup Com!Lazy,
         Com!VersionsOf(b, V), NEW m, m = Com!Made(b, cfg, c)
  PROVE  m \in [Com!Groups -> SUBSET V]
<1>1. m = [g \in Com!Groups |-> (IF g \in Com!Reads(c) THEN {cfg[g]} ELSE {}) \cup
             UNION {b[d][g] : d \in {e \in Com!Holds(c) : b[e] # None}}]
  BY DEF Com!Made
<1>2. ASSUME NEW g \in Com!Groups, NEW x \in m[g] PROVE x \in V
  <2>1. CASE x = cfg[g]
    BY <2>1
  <2>2. CASE x # cfg[g]
    <3>1. PICK d \in Com!Holds(c) : b[d] # None /\ x \in b[d][g]
      BY <1>1, <1>2, <2>2
    <3>2. d \in Com!Eager \cup Com!Lazy
      BY ComponentTables
    <3>3. b[d] \in [Com!Groups -> SUBSET V]
      BY <3>1, <3>2 DEF Com!VersionsOf
    <3> QED BY <3>1, <3>3
  <2> QED BY <2>1, <2>2
<1>3. \A g \in Com!Groups : m[g] \in SUBSET V
  BY <1>2
<1>4. m = [g \in Com!Groups |-> m[g]]
  BY <1>1
<1> QED BY <1>3, <1>4

LEMMA VersionsFilled ==
  ASSUME NEW V, NEW b, NEW cfg \in [Com!Groups -> V], NEW S, NEW f, f = Com!Fill(S, b, cfg),
         DOMAIN b = Com!Eager \cup Com!Lazy, Com!VersionsOf(b, V)
  PROVE  DOMAIN f = Com!Eager \cup Com!Lazy /\ Com!VersionsOf(f, V)
<1>1. DOMAIN f = Com!Eager \cup Com!Lazy
  BY DEF Com!Fill
<1>2. ASSUME NEW c \in Com!Eager \cup Com!Lazy
      PROVE  f[c] = IF c \in S /\ b[c] = None THEN Com!Made(b, cfg, c) ELSE b[c]
  BY DEF Com!Fill
<1>3. ASSUME NEW c \in Com!Eager \cup Com!Lazy, f[c] # None PROVE f[c] \in [Com!Groups -> SUBSET V]
  <2>1. CASE c \in S /\ b[c] = None
    BY <1>2, <2>1, VersionsMade
  <2>2. CASE ~(c \in S /\ b[c] = None)
    BY <1>2, <1>3, <2>2 DEF Com!VersionsOf
  <2> QED BY <2>1, <2>2
<1> QED BY <1>1, <1>3 DEF Com!VersionsOf

LEMMA VersionsBuilt ==
  ASSUME NEW V, NEW b, NEW cfg \in [Com!Groups -> V], NEW c, NEW m, m = Com!Build(b, cfg, c),
         DOMAIN b = Com!Eager \cup Com!Lazy, Com!VersionsOf(b, V)
  PROVE  Com!VersionsOf(m, V)
<1>1. PICK wanted : wanted = (Com!Needs(c) \cup {c}) \
        (IF Com!Raises(b, c) THEN {"hybrid", "web", "registry", "factory", "ingestion"} ELSE {})
  OBVIOUS
<1>2. PICK f : f = Com!Fill(wanted \cap (Com!Lazy \ {"report", "registry", "factory"}), b, cfg)
  OBVIOUS
<1>3. PICK h : h = Com!Fill(wanted \cap {"report"}, f, cfg)
  OBVIOUS
<1>4. PICK k : k = Com!Fill(wanted \cap {"registry"}, h, cfg)
  OBVIOUS
<1>5. m = Com!Fill(wanted \cap {"factory"}, k, cfg)
  BY <1>1, <1>2, <1>3, <1>4 DEF Com!Build
<1>6. DOMAIN f = Com!Eager \cup Com!Lazy /\ Com!VersionsOf(f, V)
  <2>1. PICK w : w = wanted \cap (Com!Lazy \ {"report", "registry", "factory"})
    OBVIOUS
  <2>2. f = Com!Fill(w, b, cfg)
    BY <1>2, <2>1
  <2> QED BY <2>2, VersionsFilled
<1>7. DOMAIN h = Com!Eager \cup Com!Lazy /\ Com!VersionsOf(h, V)
  BY <1>3, <1>6, VersionsFilled
<1>8. DOMAIN k = Com!Eager \cup Com!Lazy /\ Com!VersionsOf(k, V)
  BY <1>4, <1>7, VersionsFilled
<1> QED BY <1>5, <1>8, VersionsFilled

(* A step of one request.                                                  *)
LEMMA ComTypes ==
  ASSUME Com!IInv, Com!ITypeOK, NEW t \in Com!Callers, NEW j, job' = [job EXCEPT ![t] = j], Com!StepOK(j),
         edits' \in 0 .. MaxEdits, env' \in [Com!Groups -> 0 .. edits'], config' \in [Com!Groups -> 0 .. MaxEdits],
         Com!VersionsOf(built', 0 .. MaxEdits), lost' \subseteq Com!Groups, lock' \in Com!Callers \cup {None}
  PROVE  Com!ITypeOK'
<1>1. job = [u \in Com!Callers |-> job[u]]
  BY DEF Com!IInv
<1>2. \A u \in Com!Callers : job'[u] = j \/ job'[u] = job[u]
  BY <1>1
<1>3. \A u \in Com!Callers : Com!StepOK(job'[u])
  BY <1>2 DEF Com!ITypeOK
<1>4. \A u \in Com!Callers : Com!StepOK(job[u])'
  BY <1>3 DEF Com!StepOK, Com!Groups
<1>5. Com!VersionsOf(built, 0 .. MaxEdits)'
  BY DEF Com!VersionsOf, Com!Eager, Com!Lazy, Com!Groups
<1>6. Com!Callers' = Com!Callers /\ Com!Groups' = Com!Groups
  BY DEF Com!Callers, Com!Groups
<1> QED BY <1>4, <1>5, <1>6 DEF Com!ITypeOK

LEMMA ComQuietTypes ==
  ASSUME Com!IInv, Com!ITypeOK, NEW t \in Com!Callers, NEW j, job' = [job EXCEPT ![t] = j], Com!StepOK(j),
         UNCHANGED <<edits, env, config, built, lost, lock>>
  PROVE  Com!ITypeOK'
<1>1. /\ edits \in 0 .. MaxEdits /\ env \in [Com!Groups -> 0 .. edits] /\ config \in [Com!Groups -> 0 .. MaxEdits]
      /\ Com!VersionsOf(built, 0 .. MaxEdits) /\ lost \subseteq Com!Groups /\ lock \in Com!Callers \cup {None}
  BY DEF Com!ITypeOK
<1> QED BY <1>1, ComTypes

LEMMA ComJob ==
  ASSUME Com!IInv, Com!ITypeOK, NEW t \in Com!Callers, NEW i, i = job[t]
  PROVE  /\ i = Req(i.at, i.want, i.refresh, i.changed, i.new, i.left)
         /\ i.changed \subseteq Com!Groups
         /\ i.at = "compared" => i.new \in [Com!Groups -> 0 .. MaxEdits]
         /\ i.left # <<>> => i.at \in {"unregister", "register"}
         /\ edits \in 0 .. MaxEdits /\ env \in [Com!Groups -> 0 .. edits]
         /\ config \in [Com!Groups -> 0 .. MaxEdits]
         /\ Com!VersionsOf(built, 0 .. MaxEdits) /\ lost \subseteq Com!Groups /\ lock \in Com!Callers \cup {None}
         /\ DOMAIN built = Com!Eager \cup Com!Lazy /\ job = [u \in Com!Callers |-> job[u]]
<1>1. Com!StepOK(i)
  BY DEF Com!ITypeOK
<1>2. /\ i = Req(i.at, i.want, i.refresh, i.changed, i.new, i.left)
      /\ DOMAIN built = Com!Eager \cup Com!Lazy /\ job = [u \in Com!Callers |-> job[u]]
  BY ComFacts
<1> QED BY <1>1, <1>2 DEF Com!ITypeOK, Com!StepOK

LEMMA StepRequest ==
  ASSUME NEW p, p # "compared", NEW w, NEW r, NEW c \in SUBSET Com!Groups, NEW n, NEW l, NEW j, j = Req(p, w, r, c, n, l),
         l # <<>> => p \in {"unregister", "register"}
  PROVE  Com!StepOK(j)
  BY DEF Com!StepOK, Req

LEMMA StepIdle == Com!StepOK(Com!Idle)
  BY IdleRequestOK, StepRequest

LEMMA SaveTypes ==
  ASSUME Com!IInv, Com!ITypeOK, NEW t \in Admins, Com!Save(t)
  PROVE  Com!ITypeOK'
<1>1. t \in Com!Callers
  BY DEF Com!Callers
<1>2. PICK i : i = job[t]
  OBVIOUS
<1>3. /\ i = Req(i.at, i.want, i.refresh, i.changed, i.new, i.left) /\ i.changed \subseteq Com!Groups
      /\ (i.left # <<>> => i.at \in {"unregister", "register"})
      /\ edits \in 0 .. MaxEdits /\ env \in [Com!Groups -> 0 .. edits] /\ config \in [Com!Groups -> 0 .. MaxEdits]
      /\ Com!VersionsOf(built, 0 .. MaxEdits) /\ lost \subseteq Com!Groups /\ lock \in Com!Callers \cup {None}
      /\ job = [u \in Com!Callers |-> job[u]]
  BY <1>1, <1>2, ComJob
<1>4. i.at = "idle" /\ UNCHANGED <<config, built, lost, lock>>
  BY <1>2 DEF Com!Save
<1>5. PICK j : j = [i EXCEPT !.at = "saved"]
  OBVIOUS
<1>6. j = Req("saved", i.want, i.refresh, i.changed, i.new, i.left)
  BY <1>3, <1>5 DEF Req
<1>7. job' = [job EXCEPT ![t] = j]
  BY <1>1, <1>2, <1>3, <1>5 DEF Com!Save
<1>8. Com!StepOK(j)
  <2>1. i.left = <<>>
    BY <1>3, <1>4
  <2> QED BY <1>3, <1>6, <2>1, StepRequest
<1>9. PICK D : env' = [g \in Com!Groups |-> IF g \in D THEN env[g] + 1 ELSE env[g]]
  BY DEF Com!Save
<1>10. PICK e \in Nat : e = edits /\ e < MaxEdits /\ edits' = e + 1 /\ MaxEdits \in Nat
  <2>1. edits < MaxEdits /\ edits' = edits + 1 /\ MaxEdits \in Nat
    BY BoundsAssumption DEF Com!Save
  <2> QED BY <1>3, <2>1
<1>11. edits' \in 0 .. MaxEdits
  BY <1>10
<1>12. env' \in [Com!Groups -> 0 .. edits']
  <2>1. \A g \in Com!Groups : env[g] \in 0 .. e
    BY <1>3, <1>10
  <2>2. \A g \in Com!Groups : (IF g \in D THEN env[g] + 1 ELSE env[g]) \in 0 .. (e + 1)
    BY <2>1
  <2> QED BY <1>9, <1>10, <2>2
<1> QED BY <1>1, <1>3, <1>4, <1>7, <1>8, <1>11, <1>12, ComTypes

LEMMA CompareTypes ==
  ASSUME Com!IInv, Com!ITypeOK, NEW t \in Admins, Com!Compare(t)
  PROVE  Com!ITypeOK'
<1>1. t \in Com!Callers
  BY DEF Com!Callers
<1>2. PICK i : i = job[t]
  OBVIOUS
<1>3. /\ i = Req(i.at, i.want, i.refresh, i.changed, i.new, i.left)
      /\ (i.left # <<>> => i.at \in {"unregister", "register"})
      /\ edits \in 0 .. MaxEdits /\ env \in [Com!Groups -> 0 .. edits] /\ job = [u \in Com!Callers |-> job[u]]
  BY <1>1, <1>2, ComJob
<1>4. i.at = "saved" /\ UNCHANGED <<edits, env, config, built, lost, lock>>
  BY <1>2 DEF Com!Compare
<1>5. PICK d : d = {g \in Com!Groups : env[g] # config[g]}
  OBVIOUS
<1>6. PICK k : k = [i EXCEPT !.at = "compared", !.new = env, !.changed = d]
  OBVIOUS
<1>7. k = Req("compared", i.want, i.refresh, d, env, i.left)
  BY <1>3, <1>6 DEF Req
<1>8. PICK j : j = IF env = config THEN Com!Idle ELSE k
  OBVIOUS
<1>9. job' = [job EXCEPT ![t] = j]
  BY <1>1, <1>2, <1>3, <1>5, <1>6, <1>8 DEF Com!Compare
<1>10. Com!StepOK(k)
  <2>1. i.left = <<>> /\ d \subseteq Com!Groups
    BY <1>3, <1>4, <1>5
  <2>2. env \in [Com!Groups -> 0 .. MaxEdits]
    <3>1. MaxEdits \in Nat
      BY BoundsAssumption
    <3>2. 0 .. edits \subseteq 0 .. MaxEdits
      BY <1>3, <3>1
    <3> QED BY <1>3, <3>2
  <2> QED BY <1>7, <2>1, <2>2 DEF Com!StepOK, Req
<1>11. Com!StepOK(j)
  BY <1>8, <1>10, StepIdle
<1> QED BY <1>1, <1>4, <1>9, <1>11, ComQuietTypes

LEMMA SetConfigTypes ==
  ASSUME Com!IInv, Com!ITypeOK, NEW t \in Admins, Com!SetConfig(t)
  PROVE  Com!ITypeOK'
<1>1. t \in Com!Callers
  BY DEF Com!Callers
<1>2. PICK i : i = job[t]
  OBVIOUS
<1>3. /\ i = Req(i.at, i.want, i.refresh, i.changed, i.new, i.left) /\ i.changed \subseteq Com!Groups
      /\ (i.left # <<>> => i.at \in {"unregister", "register"})
      /\ (i.at = "compared" => i.new \in [Com!Groups -> 0 .. MaxEdits])
      /\ edits \in 0 .. MaxEdits /\ env \in [Com!Groups -> 0 .. edits]
      /\ Com!VersionsOf(built, 0 .. MaxEdits) /\ lost \subseteq Com!Groups /\ lock \in Com!Callers \cup {None}
      /\ job = [u \in Com!Callers |-> job[u]]
  BY <1>1, <1>2, ComJob
<1>4. /\ i.at = "compared" /\ UNCHANGED <<edits, env, built, lock>> /\ config' = i.new
      /\ lost' = lost \cup {g \in Com!Groups \ i.changed : i.new[g] # config[g]}
  BY <1>2 DEF Com!SetConfig
<1>5. PICK j : j = [i EXCEPT !.at = "set", !.new = None]
  OBVIOUS
<1>6. j = Req("set", i.want, i.refresh, i.changed, None, i.left)
  BY <1>3, <1>5 DEF Req
<1>7. job' = [job EXCEPT ![t] = j]
  BY <1>1, <1>2, <1>3, <1>5 DEF Com!SetConfig
<1>8. Com!StepOK(j)
  <2>1. i.left = <<>>
    BY <1>3, <1>4
  <2> QED BY <1>3, <1>6, <2>1, StepRequest
<1>9. lost' \subseteq Com!Groups
  BY <1>3, <1>4
<1> QED BY <1>1, <1>3, <1>4, <1>7, <1>8, <1>9, ComTypes

LEMMA RebuildTypes ==
  ASSUME Com!IInv, Com!ITypeOK, NEW t \in Admins, Com!Rebuild(t)
  PROVE  Com!ITypeOK'
<1>1. t \in Com!Callers
  BY DEF Com!Callers
<1>2. PICK i : i = job[t]
  OBVIOUS
<1>3. /\ i = Req(i.at, i.want, i.refresh, i.changed, i.new, i.left) /\ i.changed \subseteq Com!Groups
      /\ (i.left # <<>> => i.at \in {"unregister", "register"})
      /\ edits \in 0 .. MaxEdits /\ env \in [Com!Groups -> 0 .. edits] /\ config \in [Com!Groups -> 0 .. MaxEdits]
      /\ Com!VersionsOf(built, 0 .. MaxEdits) /\ lost \subseteq Com!Groups /\ lock \in Com!Callers \cup {None}
      /\ DOMAIN built = Com!Eager \cup Com!Lazy /\ job = [u \in Com!Callers |-> job[u]]
  BY <1>1, <1>2, ComJob
<1>4. i.at = "set" /\ UNCHANGED <<edits, env, config, lock>>
  BY <1>2 DEF Com!Rebuild
<1>5. PICK j : j = [i EXCEPT !.at = "check", !.want = "factory", !.refresh = TRUE]
  OBVIOUS
<1>6. j = Req("check", "factory", TRUE, i.changed, i.new, i.left)
  BY <1>3, <1>5 DEF Req
<1>7. job' = [job EXCEPT ![t] = j]
  <2>1. PICK f : f = [job EXCEPT ![t].at = "check"]
    OBVIOUS
  <2>2. job' = [job EXCEPT ![t].at = "check", ![t].want = "factory", ![t].refresh = TRUE]
    BY DEF Com!Rebuild
  <2> QED BY <1>1, <1>2, <1>3, <1>5, <2>2
<1>8. Com!StepOK(j)
  <2>1. i.left = <<>>
    BY <1>3, <1>4
  <2> QED BY <1>3, <1>6, <2>1, StepRequest
<1>9. PICK bad, followed :
        /\ built' = [c \in DOMAIN built |->
             CASE c \in bad \cap {"extraction_client", "judge_client"} -> None
               [] c \in Com!Eager \ bad /\ Com!RebuiltOn(c) \cap i.changed # {} -> Com!Made(built, config, c)
               [] c \in Com!Lazy /\ Com!DroppedOn(c) \cap followed # {} -> None
               [] OTHER -> built[c]]
        /\ lost' = (lost \ i.changed) \cup UNION {Com!RebuiltOn(c) \cap i.changed : c \in bad}
  <2>1. PICK bad \in SUBSET {c \in Com!Clients : Com!RebuiltOn(c) \cap job[t].changed # {}} :
          /\ built' = [c \in DOMAIN built |->
               CASE c \in bad \cap {"extraction_client", "judge_client"} -> None
                 [] c \in Com!Eager \ bad /\ Com!RebuiltOn(c) \cap job[t].changed # {} ->
                      Com!Made(built, config, c)
                 [] c \in Com!Lazy /\ Com!DroppedOn(c) \cap (job[t].changed \
                      ((IF "extraction_client" \in bad THEN {"extraction"} ELSE {}) \cup
                       (IF "judge_client" \in bad THEN {"judge"} ELSE {}))) # {} -> None
                 [] OTHER -> built[c]]
          /\ lost' = (lost \ job[t].changed) \cup UNION {Com!RebuiltOn(c) \cap job[t].changed : c \in bad}
    BY DEF Com!Rebuild
  <2>2. PICK followed : followed = job[t].changed \
          ((IF "extraction_client" \in bad THEN {"extraction"} ELSE {}) \cup
           (IF "judge_client" \in bad THEN {"judge"} ELSE {}))
    OBVIOUS
  <2>3. built' = [c \in DOMAIN built |->
             CASE c \in bad \cap {"extraction_client", "judge_client"} -> None
               [] c \in Com!Eager \ bad /\ Com!RebuiltOn(c) \cap i.changed # {} -> Com!Made(built, config, c)
               [] c \in Com!Lazy /\ Com!DroppedOn(c) \cap followed # {} -> None
               [] OTHER -> built[c]]
    BY <1>2, <2>1, <2>2
  <2>4. lost' = (lost \ i.changed) \cup UNION {Com!RebuiltOn(c) \cap i.changed : c \in bad}
    BY <1>2, <2>1
  <2> QED BY <2>3, <2>4
<1>10. lost' \subseteq Com!Groups
  BY <1>3, <1>9
<1>11. ASSUME NEW c \in Com!Eager \cup Com!Lazy, built'[c] # None PROVE built'[c] \in [Com!Groups -> SUBSET (0 .. MaxEdits)]
  <2>1. built'[c] = Com!Made(built, config, c) \/ built'[c] = built[c]
    BY <1>3, <1>9, <1>11
  <2>2. CASE built'[c] = Com!Made(built, config, c)
    BY <1>3, <2>2, VersionsMade
  <2>3. CASE built'[c] = built[c]
    BY <1>3, <1>11, <2>3 DEF Com!VersionsOf
  <2> QED BY <2>1, <2>2, <2>3
<1>12. Com!VersionsOf(built', 0 .. MaxEdits)
  BY <1>11 DEF Com!VersionsOf
<1> QED BY <1>1, <1>3, <1>4, <1>7, <1>8, <1>10, <1>12, ComTypes

LEMMA RebuildAbortsTypes ==
  ASSUME Com!IInv, Com!ITypeOK, NEW t \in Admins, Com!RebuildAborts(t)
  PROVE  Com!ITypeOK'
<1>1. t \in Com!Callers
  BY DEF Com!Callers
<1>2. PICK i : i = job[t]
  OBVIOUS
<1>3. /\ i.changed \subseteq Com!Groups
      /\ edits \in 0 .. MaxEdits /\ env \in [Com!Groups -> 0 .. edits] /\ config \in [Com!Groups -> 0 .. MaxEdits]
      /\ Com!VersionsOf(built, 0 .. MaxEdits) /\ lost \subseteq Com!Groups /\ lock \in Com!Callers \cup {None}
      /\ DOMAIN built = Com!Eager \cup Com!Lazy
  BY <1>1, <1>2, ComJob
<1>4. job' = [job EXCEPT ![t] = Com!Idle] /\ lost' = lost \cup i.changed /\ UNCHANGED <<edits, env, config, lock>>
  BY <1>2 DEF Com!RebuildAborts
<1>5. PICK dropped :
        built' = [c \in DOMAIN built |->
          CASE c \in {"stores", "session_store", "redis_state", "files"}
                 /\ Com!RebuiltOn(c) \cap i.changed # {} -> Com!Made(built, config, c)
            [] c \in dropped -> None
            [] OTHER -> built[c]]
  <2>1. PICK dropped : dropped = (IF "pg" \in job[t].changed
          THEN {"competitor", "intel", "insight", "report", "registry", "factory"} ELSE {}) \cup
          (IF "broker" \in job[t].changed THEN {"intel", "registry", "factory"} ELSE {})
    OBVIOUS
  <2> QED BY <1>2, <2>1 DEF Com!RebuildAborts
<1>6. ASSUME NEW c \in Com!Eager \cup Com!Lazy, built'[c] # None PROVE built'[c] \in [Com!Groups -> SUBSET (0 .. MaxEdits)]
  <2>1. built'[c] = Com!Made(built, config, c) \/ built'[c] = built[c]
    BY <1>3, <1>5, <1>6
  <2>2. CASE built'[c] = Com!Made(built, config, c)
    BY <1>3, <2>2, VersionsMade
  <2>3. CASE built'[c] = built[c]
    BY <1>3, <1>6, <2>3 DEF Com!VersionsOf
  <2> QED BY <2>1, <2>2, <2>3
<1>7. Com!VersionsOf(built', 0 .. MaxEdits) /\ lost' \subseteq Com!Groups
  BY <1>3, <1>4, <1>6 DEF Com!VersionsOf
<1> QED BY <1>1, <1>3, <1>4, <1>7, StepIdle, ComTypes

LEMMA AskTypes ==
  ASSUME Com!IInv, Com!ITypeOK, NEW t \in Askers, Com!Ask(t)
  PROVE  Com!ITypeOK'
<1>1. t \in Com!Callers
  BY DEF Com!Callers
<1>2. PICK i : i = job[t]
  OBVIOUS
<1>3. /\ i = Req(i.at, i.want, i.refresh, i.changed, i.new, i.left) /\ i.changed \subseteq Com!Groups
      /\ (i.left # <<>> => i.at \in {"unregister", "register"}) /\ job = [u \in Com!Callers |-> job[u]]
  BY <1>1, <1>2, ComJob
<1>4. i.at = "idle" /\ UNCHANGED <<edits, env, config, built, lost, lock>>
  BY <1>2 DEF Com!Ask
<1>5. PICK c \in Wanted : job' = [job EXCEPT ![t].at = "check", ![t].want = c]
  BY DEF Com!Ask
<1>6. PICK j : j = [i EXCEPT !.at = "check", !.want = c]
  OBVIOUS
<1>7. j = Req("check", c, i.refresh, i.changed, i.new, i.left)
  BY <1>3, <1>6 DEF Req
<1>8. job' = [job EXCEPT ![t] = j]
  BY <1>1, <1>2, <1>3, <1>5, <1>6
<1>9. Com!StepOK(j)
  <2>1. i.left = <<>>
    BY <1>3, <1>4
  <2> QED BY <1>3, <1>7, <2>1, StepRequest
<1> QED BY <1>1, <1>4, <1>8, <1>9, ComQuietTypes

LEMMA CheckTypes ==
  ASSUME Com!IInv, Com!ITypeOK, NEW t \in Com!Callers, Com!Check(t)
  PROVE  Com!ITypeOK'
<1>2. PICK i : i = job[t]
  OBVIOUS
<1>3. /\ i = Req(i.at, i.want, i.refresh, i.changed, i.new, i.left) /\ i.changed \subseteq Com!Groups
      /\ (i.left # <<>> => i.at \in {"unregister", "register"}) /\ job = [u \in Com!Callers |-> job[u]]
  BY <1>2, ComJob
<1>4. i.at = "check" /\ UNCHANGED <<edits, env, config, built, lost, lock>>
  BY <1>2 DEF Com!Check
<1>5. PICK v : v = IF built[i.want] = None THEN "build" ELSE "take"
  OBVIOUS
<1>6. PICK j : j = [i EXCEPT !.at = v]
  OBVIOUS
<1>7. j = Req(v, i.want, i.refresh, i.changed, i.new, i.left)
  BY <1>3, <1>6 DEF Req
<1>8. job' = [job EXCEPT ![t] = j]
  BY <1>2, <1>3, <1>5, <1>6 DEF Com!Check
<1>9. Com!StepOK(j)
  <2>1. i.left = <<>> /\ v # "compared"
    BY <1>3, <1>4, <1>5
  <2> QED BY <1>3, <1>7, <2>1, StepRequest
<1> QED BY <1>4, <1>8, <1>9, ComQuietTypes

LEMMA TakeServiceTypes ==
  ASSUME Com!IInv, Com!ITypeOK, NEW t \in Com!Callers, Com!TakeService(t)
  PROVE  Com!ITypeOK'
<1>2. PICK i : i = job[t]
  OBVIOUS
<1>3. /\ i = Req(i.at, i.want, i.refresh, i.changed, i.new, i.left) /\ i.changed \subseteq Com!Groups
      /\ (i.left # <<>> => i.at \in {"unregister", "register"}) /\ job = [u \in Com!Callers |-> job[u]]
  BY <1>2, ComJob
<1>4. i.at = "take" /\ UNCHANGED <<edits, env, config, built, lost, lock>>
  BY <1>2 DEF Com!TakeService
<1>5. PICK k : k = [i EXCEPT !.at = "check", !.want = "factory"]
  OBVIOUS
<1>6. k = Req("check", "factory", i.refresh, i.changed, i.new, i.left)
  BY <1>3, <1>5 DEF Req
<1>7. PICK j : j = IF i.want = "query" /\ built["query"] # None THEN k ELSE Com!Idle
  OBVIOUS
<1>8. job' = [job EXCEPT ![t] = j]
  BY <1>2, <1>3, <1>5, <1>7 DEF Com!TakeService
<1>9. Com!StepOK(k)
  <2>1. i.left = <<>>
    BY <1>3, <1>4
  <2> QED BY <1>3, <1>6, <2>1, StepRequest
<1>10. Com!StepOK(j)
  BY <1>7, <1>9, StepIdle
<1> QED BY <1>4, <1>8, <1>10, ComQuietTypes

(* Steps that build a service.                                             *)
LEMMA BuildTypes ==
  ASSUME Com!IInv, Com!ITypeOK, NEW t \in Com!Callers, NEW c, NEW j, job' = [job EXCEPT ![t] = j], Com!StepOK(j),
         built' = Com!Build(built, config, c) \/ built' = built,
         UNCHANGED <<edits, env, config, lost>>, lock' \in Com!Callers \cup {None}
  PROVE  Com!ITypeOK'
<1>1. /\ edits \in 0 .. MaxEdits /\ env \in [Com!Groups -> 0 .. edits] /\ config \in [Com!Groups -> 0 .. MaxEdits]
      /\ Com!VersionsOf(built, 0 .. MaxEdits) /\ lost \subseteq Com!Groups
      /\ DOMAIN built = Com!Eager \cup Com!Lazy
  BY ComJob
<1>2. PICK b : b = built'
  OBVIOUS
<1>3. Com!VersionsOf(b, 0 .. MaxEdits)
  <2>1. CASE b = built
    BY <1>1, <2>1
  <2>2. CASE b = Com!Build(built, config, c)
    BY <1>1, <2>2, VersionsBuilt
  <2> QED BY <1>2, <2>1, <2>2
<1>4. Com!VersionsOf(built', 0 .. MaxEdits)
  BY <1>2, <1>3
<1> QED BY <1>1, <1>4, ComTypes

LEMMA BuildMissingTypes ==
  ASSUME Com!IInv, Com!ITypeOK, NEW t \in Com!Callers, Com!BuildMissing(t)
  PROVE  Com!ITypeOK'
<1>2. PICK i : i = job[t]
  OBVIOUS
<1>3. /\ i = Req(i.at, i.want, i.refresh, i.changed, i.new, i.left) /\ i.changed \subseteq Com!Groups
      /\ (i.left # <<>> => i.at \in {"unregister", "register"}) /\ lock \in Com!Callers \cup {None}
      /\ job = [u \in Com!Callers |-> job[u]]
  BY <1>2, ComJob
<1>4. /\ i.at = "build" /\ UNCHANGED <<edits, env, config, lost, lock>>
      /\ built' = Com!Build(built, config, i.want)
  BY <1>2 DEF Com!BuildMissing
<1>5. PICK k : k = [i EXCEPT !.at = "take"]
  OBVIOUS
<1>6. k = Req("take", i.want, i.refresh, i.changed, i.new, i.left)
  BY <1>3, <1>5 DEF Req
<1>7. PICK j : j = IF built[i.want] = None /\ Com!Raises(built, i.want) THEN Com!Idle ELSE k
  OBVIOUS
<1>8. job' = [job EXCEPT ![t] = j]
  BY <1>2, <1>3, <1>5, <1>7 DEF Com!BuildMissing
<1>9. Com!StepOK(k)
  <2>1. i.left = <<>>
    BY <1>3, <1>4
  <2> QED BY <1>3, <1>6, <2>1, StepRequest
<1>10. Com!StepOK(j) /\ lock' \in Com!Callers \cup {None}
  BY <1>3, <1>4, <1>7, <1>9, StepIdle
<1> QED BY <1>4, <1>8, <1>10, BuildTypes

LEMMA BuildQueryTypes ==
  ASSUME Com!IInv, Com!ITypeOK, NEW t \in Com!Callers, Com!BuildQuery(t)
  PROVE  Com!ITypeOK'
<1>2. PICK i : i = job[t]
  OBVIOUS
<1>3. /\ i = Req(i.at, i.want, i.refresh, i.changed, i.new, i.left) /\ i.changed \subseteq Com!Groups
      /\ (i.left # <<>> => i.at \in {"unregister", "register"}) /\ lock \in Com!Callers \cup {None}
      /\ job = [u \in Com!Callers |-> job[u]]
  BY <1>2, ComJob
<1>4. i.at = "build" /\ UNCHANGED <<edits, env, config, lost>>
  BY <1>2 DEF Com!BuildQuery
<1>6. CASE built["query"] # None
  <2>1. PICK j : j = [i EXCEPT !.at = "take"]
    OBVIOUS
  <2>2. j = Req("take", i.want, i.refresh, i.changed, i.new, i.left)
    BY <1>3, <2>1 DEF Req
  <2>3. job' = [job EXCEPT ![t] = j] /\ UNCHANGED <<built, lock>>
    BY <1>2, <1>3, <1>6, <2>1 DEF Com!BuildQuery
  <2>4. i.left = <<>>
    BY <1>3, <1>4
  <2>5. Com!StepOK(j)
    BY <1>3, <2>2, <2>4, StepRequest
  <2> QED BY <1>3, <1>4, <2>3, <2>5, BuildTypes
<1>7. CASE built["query"] = None
  <2>1. PICK l : l = IF built'["factory"] = None THEN <<>> ELSE Tools
    OBVIOUS
  <2>2. PICK j : j = [i EXCEPT !.at = "register", !.left = l]
    OBVIOUS
  <2>3. j = Req("register", i.want, i.refresh, i.changed, i.new, l)
    BY <1>3, <2>2 DEF Req
  <2>4. built' = Com!Build(built, config, "factory") /\ lock' = t
    BY <1>7 DEF Com!BuildQuery
  <2>5. job' = [job EXCEPT ![t].at = "register", ![t].left = l]
    BY <1>7, <2>1 DEF Com!BuildQuery
  <2>6. job' = [job EXCEPT ![t] = j]
    BY <1>2, <1>3, <2>2, <2>5
  <2>7. Com!StepOK(j)
    BY <1>3, <2>3, StepRequest
  <2> QED BY <1>4, <2>4, <2>6, <2>7, BuildTypes
<1> QED BY <1>6, <1>7

LEMMA FinishQueryTypes ==
  ASSUME Com!IInv, Com!ITypeOK, NEW t \in Com!Callers, Com!FinishQuery(t)
  PROVE  Com!ITypeOK'
<1>2. PICK i : i = job[t]
  OBVIOUS
<1>3. /\ i = Req(i.at, i.want, i.refresh, i.changed, i.new, i.left) /\ i.changed \subseteq Com!Groups
      /\ job = [u \in Com!Callers |-> job[u]]
  BY <1>2, ComJob
<1>4. /\ i.left = <<>> /\ lock' = None /\ UNCHANGED <<edits, env, config, lost>>
      /\ built' = Com!Build(built, config, "query")
  BY <1>2 DEF Com!FinishQuery
<1>5. PICK j : j = [i EXCEPT !.at = "take"]
  OBVIOUS
<1>6. j = Req("take", i.want, i.refresh, i.changed, i.new, i.left)
  BY <1>3, <1>5 DEF Req
<1>7. job' = [job EXCEPT ![t] = j]
  BY <1>2, <1>3, <1>5 DEF Com!FinishQuery
<1>8. Com!StepOK(j)
  BY <1>3, <1>4, <1>6, StepRequest
<1> QED BY <1>4, <1>7, <1>8, BuildTypes

LEMMA TakeFactoryTypes ==
  ASSUME Com!IInv, Com!ITypeOK, NEW t \in Com!Callers, Com!TakeFactory(t)
  PROVE  Com!ITypeOK'
<1>2. PICK i : i = job[t]
  OBVIOUS
<1>3. /\ i = Req(i.at, i.want, i.refresh, i.changed, i.new, i.left) /\ i.changed \subseteq Com!Groups
      /\ lock \in Com!Callers \cup {None} /\ job = [u \in Com!Callers |-> job[u]]
  BY <1>2, ComJob
<1>4. /\ i.at = "take" /\ UNCHANGED <<edits, env, config, lost, lock>>
      /\ built' = IF built["factory"] = None THEN Com!Build(built, config, "registry") ELSE built
  BY <1>2 DEF Com!TakeFactory
<1>5. PICK v : v = IF i.refresh THEN "unregister" ELSE "register"
  OBVIOUS
<1>6. PICK k : k = [i EXCEPT !.at = v, !.left = Tools]
  OBVIOUS
<1>7. k = Req(v, i.want, i.refresh, i.changed, i.new, Tools)
  BY <1>3, <1>6 DEF Req
<1>8. PICK j : j = IF built["factory"] = None /\ built'["registry"] = None THEN Com!Idle ELSE k
  OBVIOUS
<1>9. job' = [job EXCEPT ![t] = j]
  BY <1>2, <1>3, <1>5, <1>6, <1>8 DEF Com!TakeFactory
<1>10. v \in {"unregister", "register"} /\ v # "compared"
  BY <1>5
<1>11. Com!StepOK(k)
  BY <1>3, <1>7, <1>10, StepRequest
<1>12. Com!StepOK(j)
  BY <1>8, <1>11, StepIdle
<1> QED BY <1>3, <1>4, <1>9, <1>12, BuildTypes

LEMMA UnregisterTypes ==
  ASSUME Com!IInv, Com!ITypeOK, NEW t \in Com!Callers, Com!Unregister(t)
  PROVE  Com!ITypeOK'
<1>2. PICK i : i = job[t]
  OBVIOUS
<1>3. /\ i = Req(i.at, i.want, i.refresh, i.changed, i.new, i.left) /\ i.changed \subseteq Com!Groups
      /\ job = [u \in Com!Callers |-> job[u]]
  BY <1>2, ComJob
<1>4. i.at = "unregister" /\ UNCHANGED <<edits, env, config, built, lost, lock>>
  BY <1>2 DEF Com!Unregister
<1>5. PICK q : q = Tail(i.left)
  OBVIOUS
<1>6. PICK k : k = [i EXCEPT !.at = "register", !.left = Tools]
  OBVIOUS
<1>7. PICK m : m = [i EXCEPT !.left = q]
  OBVIOUS
<1>8. /\ k = Req("register", i.want, i.refresh, i.changed, i.new, Tools)
      /\ m = Req("unregister", i.want, i.refresh, i.changed, i.new, q)
  BY <1>3, <1>4, <1>6, <1>7 DEF Req
<1>9. PICK j : j = IF Len(i.left) = 1 THEN k ELSE m
  OBVIOUS
<1>10. job' = [job EXCEPT ![t] = IF Len(i.left) = 1
         THEN [i EXCEPT !.at = "register", !.left = Tools] ELSE [i EXCEPT !.left = Tail(i.left)]]
  BY <1>2, <1>3 DEF Com!Unregister
<1>11. job' = [job EXCEPT ![t] = j]
  BY <1>5, <1>6, <1>7, <1>9, <1>10
<1>12. Com!StepOK(k) /\ Com!StepOK(m)
  BY <1>3, <1>8, StepRequest
<1> QED BY <1>4, <1>9, <1>11, <1>12, ComQuietTypes

LEMMA RegisterTypes ==
  ASSUME Com!IInv, Com!ITypeOK, NEW t \in Com!Callers, Com!Register(t)
  PROVE  Com!ITypeOK'
<1>2. PICK i : i = job[t]
  OBVIOUS
<1>3. /\ i = Req(i.at, i.want, i.refresh, i.changed, i.new, i.left) /\ i.changed \subseteq Com!Groups
      /\ job = [u \in Com!Callers |-> job[u]]
  BY <1>2, ComJob
<1>4. i.at = "register" /\ UNCHANGED <<edits, env, config, built, lost, lock>>
  BY <1>2 DEF Com!Register
<1>5. PICK q : q = Tail(i.left)
  OBVIOUS
<1>6. PICK m : m = [i EXCEPT !.left = q]
  OBVIOUS
<1>7. m = Req("register", i.want, i.refresh, i.changed, i.new, q)
  BY <1>3, <1>4, <1>6 DEF Req
<1>8. PICK j : j = IF q = <<>> /\ lock # t THEN Com!Idle ELSE m
  OBVIOUS
<1>9. job' = [job EXCEPT ![t] = j]
  BY <1>2, <1>3, <1>5, <1>6, <1>8 DEF Com!Register, Com!After
<1>10. Com!StepOK(m)
  BY <1>3, <1>7, StepRequest
<1> QED BY <1>4, <1>8, <1>9, <1>10, StepIdle, ComQuietTypes

LEMMA ComInitTypes == Com!Init => Com!ITypeOK
<1> SUFFICES ASSUME Com!Init PROVE Com!ITypeOK
  OBVIOUS
<1>1. PICK V : V = 0 .. MaxEdits
  OBVIOUS
<1>2. 0 \in V /\ MaxEdits \in Nat
  BY <1>1, BoundsAssumption
<1>3. /\ edits = 0 /\ env = [g \in Com!Groups |-> 0] /\ config = env /\ lost = {} /\ lock = None
      /\ job = [u \in Com!Callers |-> Com!Idle]
  BY DEF Com!Init
<1>4. config \in [Com!Groups -> V] /\ env \in [Com!Groups -> 0 .. edits]
  BY <1>2, <1>3
<1>5. PICK bad :
        built = Com!Build([c \in Com!Eager \cup Com!Lazy |->
                             IF c \in Com!Lazy \cup bad THEN None ELSE Com!Made([d \in {} |-> None], config, c)],
                          config, "factory")
  BY DEF Com!Init
<1>6. PICK made : made = [c \in Com!Eager \cup Com!Lazy |->
                             IF c \in Com!Lazy \cup bad THEN None ELSE Com!Made([d \in {} |-> None], config, c)]
  OBVIOUS
<1>7. DOMAIN made = Com!Eager \cup Com!Lazy
  BY <1>6
<1>8. Com!VersionsOf(made, V)
  <2> SUFFICES ASSUME NEW c \in Com!Eager \cup Com!Lazy, made[c] # None PROVE made[c] \in [Com!Groups -> SUBSET V]
    BY DEF Com!VersionsOf
  <2>1. made[c] = Com!Made([d \in {} |-> None], config, c) /\ c \in Com!Eager
    BY <1>6
  <2>2. PICK m, e : m = made[c] /\ e = [d \in {} |-> None]
    OBVIOUS
  <2>3. m = [g \in Com!Groups |-> (IF g \in Com!Reads(c) THEN {config[g]} ELSE {}) \cup
               UNION {e[d][g] : d \in {x \in Com!Holds(c) : e[x] # None}}]
    BY <2>1, <2>2 DEF Com!Made
  <2>4. Com!Holds(c) = {}
    BY <2>1, ComponentTables
  <2>5. \A g \in Com!Groups : m[g] = IF g \in Com!Reads(c) THEN {config[g]} ELSE {}
    BY <2>3, <2>4
  <2>6. m = [g \in Com!Groups |-> m[g]] /\ \A g \in Com!Groups : m[g] \in SUBSET V
    BY <1>4, <2>3, <2>5
  <2> QED BY <2>2, <2>6
<1>9. Com!VersionsOf(built, V)
  <2>1. PICK b, cfg, c : b = built /\ cfg = config /\ c = "factory"
    OBVIOUS
  <2>2. cfg \in [Com!Groups -> V] /\ b = Com!Build(made, cfg, c)
    BY <1>4, <1>5, <1>6, <2>1
  <2>3. Com!VersionsOf(b, V)
    BY <1>7, <1>8, <2>2, VersionsBuilt
  <2> QED BY <2>1, <2>3
<1>10. \A u \in Com!Callers : Com!StepOK(job[u])
  BY <1>3, StepIdle
<1> QED BY <1>1, <1>2, <1>3, <1>4, <1>9, <1>10 DEF Com!ITypeOK

LEMMA ComNextTypes ==
  ASSUME Com!IInv, Com!ITypeOK, [Com!Next]_(Com!vars) PROVE Com!ITypeOK'
<1>1. CASE UNCHANGED Com!vars
  BY <1>1 DEF Com!vars, Com!ITypeOK, Com!VersionsOf, Com!StepOK, Com!Groups, Com!Callers, Com!Eager, Com!Lazy
<1>2. CASE Com!Next
  BY <1>2, SaveTypes, CompareTypes, SetConfigTypes, RebuildTypes, RebuildAbortsTypes, AskTypes, CheckTypes,
     BuildMissingTypes, BuildQueryTypes, FinishQueryTypes, TakeServiceTypes, TakeFactoryTypes, UnregisterTypes,
     RegisterTypes DEF Com!Next
<1> QED BY <1>1, <1>2

LEMMA ComTypesOK == Com!IInv /\ Com!ITypeOK => Com!TypeOK
<1> SUFFICES ASSUME Com!IInv, Com!ITypeOK PROVE Com!TypeOK
  OBVIOUS
<1>1. PICK V : V = 0 .. MaxEdits
  OBVIOUS
<1>2. env \in [Com!Groups -> V]
  <2>1. MaxEdits \in Nat /\ edits \in 0 .. MaxEdits /\ env \in [Com!Groups -> 0 .. edits]
    BY BoundsAssumption DEF Com!ITypeOK
  <2>2. 0 .. edits \subseteq V
    BY <1>1, <2>1
  <2> QED BY <2>1, <2>2
<1>3. /\ edits \in V /\ config \in [Com!Groups -> V] /\ Com!VersionsOf(built, V) /\ lost \subseteq Com!Groups
      /\ lock \in Com!Callers \cup {None} /\ \A t \in Com!Callers : Com!StepOK(job[t])
  BY <1>1 DEF Com!ITypeOK
<1>4. tools \subseteq {Tools[i] : i \in 1 .. Len(Tools)}
  BY DEF Com!IInv, Com!Known
<1> QED BY <1>1, <1>2, <1>3, <1>4 DEF Com!TypeOK, Com!VersionsOf, Com!StepOK

-----------------------------------------------------------------------------
(* The part that moves takes a step of its own, and stays the part.        *)
LEMMA UpkeepSteps ==
  ASSUME [NextPart]_parts
  PROVE  /\ part' = part
         /\ [Next]_vars
         /\ part = "components" => [Com!Next]_(Com!vars)
         /\ part = "rebuild" => [Reb!Next]_(Reb!vars)
         /\ part = "profiles" => [Pro!Next]_(Pro!vars)
<1>1. CASE UNCHANGED parts
  BY <1>1 DEF parts, vars, components, rebuild, profiles, Com!vars, Reb!vars, Pro!vars
<1>2. CASE NextPart
  BY <1>2 DEF NextPart, vars, components, rebuild, profiles, Com!vars, Reb!vars, Pro!vars
<1> QED BY <1>1, <1>2

UpkeepIInv ==
  /\ IInv
  /\ part = "components" => Com!IInv
  /\ part = "rebuild" => Reb!IInv
  /\ part = "profiles" => Pro!IInv

LEMMA UpkeepIInvHolds == SpecPart => []UpkeepIInv
<1>1. InitPart => UpkeepIInv
  BY InitIInv, ComponentsInitIInv, RebuildInitIInv, ProfileInitIInv DEF InitPart, UpkeepIInv
<1>2. UpkeepIInv /\ [NextPart]_parts => UpkeepIInv'
  BY UpkeepSteps, NextIInv, ComponentsNextIInv, RebuildNextIInv, ProfileNextIInv DEF UpkeepIInv
<1> QED BY <1>1, <1>2, PTL DEF SpecPart

(* The channels, and what requests hold of them, keep to their types.      *)
THEOREM WebhooksTypeOK == SpecPart => []TypeOK
<1>1. UpkeepIInv => TypeOK
  BY DEF UpkeepIInv, IInv, JobOK, Jobs, Files, TypeOK
<1> QED BY <1>1, UpkeepIInvHolds, PTL

(* Every secret in the file of channels was typed for its channel, however *)
(* requests that read and write the whole file overtake each other and     *)
(* wherever the process ends (update_channel, _save_config).               *)
THEOREM SecretsWereTyped == SpecPart => []MaskIsNeverStored
<1>1. UpkeepIInv => MaskIsNeverStored
  BY DEF UpkeepIInv, IInv, Good, MaskIsNeverStored
<1> QED BY <1>1, UpkeepIInvHolds, PTL

(* A recorded migration took effect, with all before it, and a marked      *)
(* version has its draft, wherever commands fail, are killed or overtake   *)
(* each other (apply_migrations, rebuild_cli).                             *)
THEOREM NothingIsSkipped == SpecPart => []RecordedIsDone
<1>1. UpkeepIInv => RecordedIsDone
  BY DEF UpkeepIInv, Reb!IInv, Reb!StateOK, RecordedIsDone
<1> QED BY <1>1, UpkeepIInvHolds, PTL

(* The tier a profile has was recorded by a revision, however requests for *)
(* a domain and its parents interleave (resolve_profile, save_profile).    *)
THEOREM TierIsRecorded == SpecPart => []TierHasRevision
<1>1. UpkeepIInv => TierHasRevision
  BY DEF UpkeepIInv, Pro!IInv, TierHasRevision
<1> QED BY <1>1, UpkeepIInvHolds, PTL

(* Once a reload is done no component holds anything that was built from   *)
(* an earlier value of the settings it follows, directly or through what   *)
(* it holds, however many reloads and requests that build services run at  *)
(* once (reload, the getters).                                             *)
THEOREM ReloadIsComplete == SpecPart => []ReloadReachesEveryHolder
<1>1. UpkeepIInv => ReloadReachesEveryHolder
  BY ComponentsSafe DEF UpkeepIInv, ReloadReachesEveryHolder
<1> QED BY <1>1, UpkeepIInvHolds, PTL

(* When nothing is under way every tool is registered, although requests   *)
(* register missing tools while reloads take them away                     *)
(* (register_builtin_tools, reload).                                       *)
THEOREM ToolsReturn == SpecPart => []ToolsComeBack
<1>1. UpkeepIInv => ToolsComeBack
  BY ComponentsSafe DEF UpkeepIInv, ToolsComeBack
<1> QED BY <1>1, UpkeepIInvHolds, PTL
===================================================================================
