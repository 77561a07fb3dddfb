---------------------------------- MODULE Facts -----------------------------------
(***************************************************************************)
(* The facts of the first schema and the evidence for them: what the API,  *)
(* the agent's tools and the extraction from a document do with them, and  *)
(* the verification status that follows from the evidence (IntelService,   *)
(* PostgresIntelStore, EvidenceVerificationService).                       *)
(*                                                                         *)
(* Every call of the store is a transaction of its own: a request that     *)
(* fails leaves what it has written, and another one may write between any *)
(* two of its calls.  A fact is never deleted.  Its links are in           *)
(* Competitors.                                                            *)
(***************************************************************************)
EXTENDS Naturals, Sequences, FiniteSets

CONSTANTS Threads,     \* requests and workers
          Offered,     \* evidence a request may bring: document, place, kind, tier, role, stance
          Extracted,   \* evidence an extraction finds: one chunk of one document
          Stated,      \* what a request, or a model, may state as the verification
          MaxRequests, \* bound: requests and deliveries
          MaxFacts,    \* bound: facts
          MaxEvidence  \* bound: rows of evidence of one fact

VARIABLES
  facts,     \* intel_facts of one assertion: status, verification_status
  evidence,  \* fact -> evidence_refs, in order of creation
  work,      \* thread -> what it is doing
  weighed,   \* facts that were last written by an attach which ran alone
  requests   \* how many there have been

vars == <<facts, evidence, work, weighed, requests>>

(* Active is a status too: the routes and the tools refuse it, and a       *)
(* status that is no such value is read back as a draft.                   *)
Statuses == {"draft", "rejected", "archived"}
Verifications == {"unverified", "self_reported", "corroborated", "disputed"}
Rows == [status : Statuses, verification : Verifications]
Known == 1 .. Len(facts)
Refs(f) == {evidence[f][i] : i \in 1 .. Len(evidence[f])}

NoRow == [status |-> "draft", verification |-> "unverified"]
Idle == [at |-> "idle", fact |-> 0, row |-> NoRow, todo |-> <<>>, alone |-> FALSE]

Init ==
  /\ facts = <<>> /\ evidence = <<>> /\ weighed = {} /\ requests = 0
  /\ work = [t \in Threads |-> Idle]

-----------------------------------------------------------------------------
(* derive_status: evidence against the fact comes first, then two          *)
(* documents that are independent and of tier A or B, then the subject's   *)
(* own word.  Two pieces from one document are one source.                 *)
Derived(refs) ==
  LET independent == {e.document : e \in {x \in refs : x.role = "independent" /\ x.tier \in {"A", "B"}}}
  IN  IF \E e \in refs : e.stance = "contradicts" THEN "disputed"
      ELSE IF Cardinality(independent) >= 2 THEN "corroborated"
      ELSE IF \E e \in refs : e.role \in {"primary", "interested_claim"} THEN "self_reported"
      ELSE "unverified"

(* _validate_evidence: what kind of source cannot have the role.           *)
Refused(e) ==
  \/ e.kind = "community" /\ e.role = "primary"
  \/ e.kind = "aggregator" /\ e.role = "independent"

(* Threads at the same fact no longer work alone.                          *)
Become(t, w) ==
  work' = [u \in Threads |->
             IF u = t THEN w
             ELSE IF w.fact # 0 /\ work[u].fact = w.fact THEN [work[u] EXCEPT !.alone = FALSE]
             ELSE work[u]]
Alone(t, f) == \A u \in Threads \ {t} : work[u].fact # f
OnlyWork == UNCHANGED <<facts, evidence, weighed>>

(* A thread takes a request; the rest of the code does not.                *)
Takes(t) == work[t].at = "idle" /\ requests < MaxRequests /\ requests' = requests + 1
Works(t, at) == work[t].at = at /\ UNCHANGED requests

-----------------------------------------------------------------------------
(* The rows a request, an update and the answer of the model stand for.    *)
FromRequest(v) == [NoRow EXCEPT !.verification = v]
Merged(f, s) == [facts[f] EXCEPT !.status = s]
FromAnswer(v) == [NoRow EXCEPT !.verification = v]

(* POST /facts and create_intel_fact: a draft, the verification as the     *)
(* request states it, with or without evidence.  No look for an equal one. *)
Create(t) ==
  /\ Takes(t)
  /\ \E v \in Stated : \E todo \in {<<>>} \cup {<<e>> : e \in Offered} :
       Become(t, [Idle EXCEPT !.at = "save", !.row = FromRequest(v), !.todo = todo])
  /\ OnlyWork

(* update_fact: PUT, PATCH and update_intel_fact read the fact, and write  *)
(* every column of what they read back, with a new status or the same.     *)
Update(t) ==
  /\ Takes(t)
  /\ \E f \in Known : \E s \in Statuses :
       Become(t, [Idle EXCEPT !.at = "save", !.fact = f, !.row = Merged(f, s)])
  /\ OnlyWork

(* extract_facts_from_document: of the facts with the assertion one is     *)
(* looked for; the row will be a draft, with the verification the model    *)
(* has answered.  The answer is kept a day: a second delivery takes it.    *)
Extract(t) ==
  /\ Takes(t)
  /\ \E f \in IF Known = {} THEN {0} ELSE Known : \E v \in Stated :
       Become(t, [Idle EXCEPT !.at = "save", !.fact = f, !.row = FromAnswer(v), !.todo = Extracted])
  /\ OnlyWork

(* save_fact: a new row, or every column of the one that is there.         *)
Save(t) ==
  LET f == IF work[t].fact = 0 THEN Len(facts) + 1 ELSE work[t].fact
  IN  /\ Works(t, "save") /\ f <= MaxFacts
      /\ facts' = IF f \in Known THEN [facts EXCEPT ![f] = work[t].row] ELSE Append(facts, work[t].row)
      /\ evidence' = IF f \in Known THEN evidence ELSE Append(evidence, <<>>)
      /\ weighed' = weighed \ {f}
      /\ Become(t, IF work[t].todo = <<>> THEN Idle
                   ELSE [work[t] EXCEPT !.at = "compare", !.fact = f, !.alone = FALSE])

(* _existing_evidence_keys: evidence from the same place, the chunk and    *)
(* URL, of the same document as one that is there is passed over.          *)
Compare(t) ==
  LET w == work[t]
      SamePlace(e, x) == e.document = x.document /\ e.place = x.place
      new == SelectSeq(w.todo, LAMBDA e : ~\E x \in Refs(w.fact) : SamePlace(e, x))
  IN  /\ Works(t, "compare")
      /\ Become(t, IF new = <<>> THEN Idle ELSE [w EXCEPT !.at = "insert", !.todo = new])
      /\ OnlyWork

(* POST /facts/{id}/evidence.                                              *)
Attach(t) ==
  /\ Takes(t)
  /\ \E f \in Known : \E e \in Offered : Become(t, [Idle EXCEPT !.at = "insert", !.fact = f, !.todo = <<e>>])
  /\ OnlyWork

(* resolve_evidence_context and _validate_evidence: a source that has no   *)
(* active version, a chunk that is gone, or a role the source cannot have. *)
(* What was written before stays.                                          *)
Refuse(t) == Works(t, "insert") /\ Become(t, Idle) /\ OnlyWork

Insert(t) ==
  LET w == work[t]
  IN  /\ Works(t, "insert") /\ ~Refused(Head(w.todo)) /\ Len(evidence[w.fact]) < MaxEvidence
      /\ evidence' = [evidence EXCEPT ![w.fact] = Append(@, Head(w.todo))]
      /\ weighed' = weighed \ {w.fact}
      /\ Become(t, [w EXCEPT !.at = "read", !.todo = Tail(@), !.alone = Alone(t, w.fact)])
      /\ UNCHANGED facts

Read(t) ==
  /\ Works(t, "read")
  /\ Become(t, [work[t] EXCEPT !.at = "weigh", !.row = facts[work[t].fact]])
  /\ OnlyWork

(* Variant: a source is taken to be independent whatever its tier, and     *)
(* what speaks against the fact is weighed last.                           *)
WeighByCount(t) ==
  LET refs == Refs(work[t].fact)
  IN  /\ Works(t, "weigh")
      /\ Become(t, [work[t] EXCEPT !.at = "write",
           !.row.verification = IF Cardinality({e.document : e \in refs}) >= 2 THEN "corroborated" ELSE Derived(refs)])
      /\ OnlyWork

Weigh(t) ==
  /\ Works(t, "weigh")
  /\ Become(t, [work[t] EXCEPT !.at = "write", !.row.verification = Derived(Refs(work[t].fact))])
  /\ OnlyWork

(* save_fact with every column as it was read.                             *)
WriteBack(t) ==
  LET w == work[t]
  IN  /\ Works(t, "write")
      /\ facts' = [facts EXCEPT ![w.fact] = w.row]
      /\ weighed' = IF w.alone THEN weighed \cup {w.fact} ELSE weighed \ {w.fact}
      /\ Become(t, IF w.todo = <<>> THEN Idle ELSE [w EXCEPT !.at = "insert"])
      /\ UNCHANGED evidence

(* A statement raises, or the worker is gone.                              *)
Break(t) == work[t].at # "idle" /\ Become(t, Idle) /\ OnlyWork /\ UNCHANGED requests

Next == \E t \in Threads :
  \/ Create(t) \/ Update(t) \/ Extract(t) \/ Attach(t)
  \/ Save(t) \/ Compare(t) \/ Refuse(t) \/ Insert(t) \/ Read(t) \/ Weigh(t) \/ WriteBack(t)
  \/ Break(t)
Spec == Init /\ [][Next]_vars

-----------------------------------------------------------------------------
TypeOK ==
  /\ facts \in Seq(Rows) /\ Len(facts) <= MaxFacts
  /\ Len(evidence) = Len(facts)
  /\ \A f \in Known : ~\E e \in Refs(f) : Refused(e)
  /\ weighed \subseteq Known /\ requests \in 0 .. MaxRequests
  /\ \A t \in Threads :
       /\ work[t].at \in {"idle", "save", "compare", "insert", "read", "weigh", "write"}
       /\ work[t].fact \in 0 .. MaxFacts /\ work[t].row \in Rows

(* A request or a model may state any verification, and an attach that     *)
(* overlaps with another may write an outdated one.  After one that ran    *)
(* alone the fact is as verified as all its evidence makes it: disputed if *)
(* any piece of it speaks against the fact, corroborated only by two       *)
(* documents (IntelService.attach_evidence).                               *)
EvidenceIsWeighed ==
  \A f \in weighed :
    /\ facts[f].verification = Derived(Refs(f))
    /\ (\E e \in Refs(f) : e.stance = "contradicts") => facts[f].verification = "disputed"

(* Inductive form: a thread that works alone at a fact is the only one at  *)
(* it, and what it will write is what the evidence makes of the fact.      *)
WorkOK(w) ==
  /\ w = [at |-> w.at, fact |-> w.fact, row |-> w.row, todo |-> w.todo, alone |-> w.alone]
  /\ w.row \in Rows /\ w.alone \in BOOLEAN /\ w.fact \in {0} \cup Known
  /\ w.at \in {"compare", "insert", "read", "weigh", "write"} \/ w.alone => w.fact \in Known
  /\ w.at = "write" /\ w.alone => w.row.verification = Derived(Refs(w.fact))
IInv ==
  /\ facts \in Seq(Rows)
  /\ evidence = [f \in Known |-> evidence[f]]
  /\ weighed \subseteq Known
  /\ \A f \in weighed : facts[f].verification = Derived(Refs(f))
  /\ work = [t \in Threads |-> work[t]]
  /\ \A t \in Threads : WorkOK(work[t]) /\ (work[t].alone => Alone(t, work[t].fact))
(* Inductive form of the types, beside IInv: every fact has its sequence   *)
(* of evidence.                                                            *)
Accepted(f) == {e \in Refs(f) : ~Refused(e)}
ITypeOK ==
  /\ Len(facts) <= MaxFacts
  /\ evidence \in Seq({evidence[f] : f \in Known}) /\ Len(evidence) = Len(facts)
  /\ \A f \in Known : evidence[f] \in Seq(Accepted(f))
  /\ requests \in 0 .. MaxRequests
  /\ \A t \in Threads : work[t].at \in {"idle", "save", "compare", "insert", "read", "weigh", "write"}
===================================================================================
