------------------------------ MODULE SourceProfiles ------------------------------
(***************************************************************************)
(* The profiles of the sources and their revisions: PUT of a profile       *)
(* (governance_router), SourceGovernanceService and                        *)
(* PostgresSourceProfileStore.                                             *)
(*                                                                         *)
(* A request looks for the profile of the domain, and of its parents, one  *)
(* statement after another, and saves it with a revision in one            *)
(* transaction.  Nothing deletes a profile.                                *)
(***************************************************************************)
EXTENDS Naturals, Sequences

CONSTANTS Threads,      \* requests
          Domains,      \* normalised domains
          Parents,      \* domain -> its parents, the nearest first, without the last label
          Bare,         \* the domains without a dot
          None,
          MaxRequests   \* bound: requests

VARIABLES
  profile,    \* source_profiles: domain -> the row
  revisions,  \* source_profile_revisions
  job,        \* thread -> where its request is
  requests

vars == <<profile, revisions, job, requests>>

Tiers == {"A", "D", "unknown"}  \* of five, with the kind of the source
Ids == 1 .. MaxRequests         \* a fresh id is the number of the request that made it
Profiles == [id : Ids, tier : Tiers, inherit : BOOLEAN]
Revisions == [id : Ids, of : Ids, tier : Tiers]
Idle == [at |-> "idle", n |-> 0, domain |-> None, tier |-> "unknown", inherit |-> FALSE,
         names |-> <<>>, id |-> None, revision |-> None]

Init ==
  /\ profile = [d \in Domains |-> None] /\ revisions = {}
  /\ job = [t \in Threads |-> Idle] /\ requests = 0

(* save_source: the domain, the tier and whether subdomains inherit it.    *)
Put(t) ==
  /\ job[t].at = "idle" /\ requests < MaxRequests
  /\ requests' = requests + 1
  /\ \E d \in Domains : \E tier \in Tiers : \E inherit \in BOOLEAN :
       job' = [job EXCEPT ![t] =
                 [at |-> "resolve", n |-> requests', domain |-> d, tier |-> tier, inherit |-> inherit,
                  names |-> <<d>> \o Parents[d], id |-> None, revision |-> None]]
  /\ UNCHANGED <<profile, revisions>>

(* resolve_profile, the next name: the profile of the domain itself, or of *)
(* the nearest parent that lets subdomains inherit, with its latest        *)
(* revision; which of them that is makes no difference.                    *)
Resolved(t, name) == profile[name] # None /\ (name = job[t].domain \/ profile[name].inherit)

Resolve(t) ==
  LET name == Head(job[t].names)
  IN  /\ job[t].at = "resolve" /\ job[t].names # <<>>
      /\ \/ /\ Resolved(t, name)
            /\ \E r \in revisions :
                 /\ r.of = profile[name].id
                 /\ job' = [job EXCEPT ![t] = [@ EXCEPT !.at = "save", !.id = r.of, !.revision = r.id]]
         \/ /\ ~Resolved(t, name)
            /\ job' = [job EXCEPT ![t].names = Tail(@)]
      /\ UNCHANGED <<profile, revisions, requests>>

(* None was found: a profile with an id of its own.                        *)
NewProfile(t) ==
  /\ job[t].at = "resolve" /\ job[t].names = <<>>
  /\ job' = [job EXCEPT ![t] = [@ EXCEPT !.at = "save", !.id = job[t].n]]
  /\ UNCHANGED <<profile, revisions, requests>>

-----------------------------------------------------------------------------
(* The row after the upsert by domain, which keeps the id of a row that is *)
(* there, and the revision that goes with it.                              *)
Row(j) == [id |-> IF profile[j.domain] = None THEN j.id ELSE profile[j.domain].id,
           tier |-> j.tier, inherit |-> j.inherit]
Revision(j) == [id |-> IF j.revision = None THEN j.n ELSE j.revision, of |-> Row(j).id, tier |-> j.tier]

(* What makes it raise, and the transaction undone: a domain without a dot,*)
(* the id of another domain's profile, a revision whose id is there.  So a *)
(* profile that was found is never saved again, and a subdomain that       *)
(* inherits never gets one of its own.                                     *)
OtherHasId(j) == \E d \in Domains \ {j.domain} : profile[d] # None /\ profile[d].id = Row(j).id
RevisionIsThere(j) == \E r \in revisions : r.id = Revision(j).id
Refused(j) == j.domain \in Bare \/ OtherHasId(j) \/ RevisionIsThere(j)

(* Variant: a revision that is there is left as it is.                     *)
SaveOverRevision(t) ==
  LET j == job[t]
  IN  /\ j.at = "save" /\ j.domain \notin Bare /\ ~OtherHasId(j)
      /\ profile' = [profile EXCEPT ![j.domain] = Row(j)]
      /\ revisions' = IF RevisionIsThere(j) THEN revisions ELSE revisions \cup {Revision(j)}
      /\ job' = [job EXCEPT ![t] = Idle]
      /\ UNCHANGED requests

Save(t) ==
  LET j == job[t]
  IN  /\ j.at = "save" /\ ~Refused(j)
      /\ profile' = [profile EXCEPT ![j.domain] = Row(j)]
      /\ revisions' = revisions \cup {Revision(j)}
      /\ job' = [job EXCEPT ![t] = Idle]
      /\ UNCHANGED requests

Refuse(t) ==
  /\ job[t].at = "save" /\ Refused(job[t])
  /\ job' = [job EXCEPT ![t] = Idle]
  /\ UNCHANGED <<profile, revisions, requests>>

Next == \E t \in Threads : Put(t) \/ Resolve(t) \/ NewProfile(t) \/ Save(t) \/ Refuse(t)
Spec == Init /\ [][Next]_vars

-----------------------------------------------------------------------------
TypeOK ==
  /\ profile \in [Domains -> Profiles \cup {None}]
  /\ \A d, e \in Domains : profile[d] # None /\ profile[e] # None /\ profile[d].id = profile[e].id => d = e
  /\ revisions \subseteq Revisions
  /\ \A t \in Threads : job[t].at \in {"idle", "resolve", "save"}
  /\ requests \in 0 .. MaxRequests

(* "SourceProfileRevision records every change of the tier" (design-docs/  *)
(* source-governance-and-deduplication.md): the tier a profile has, by     *)
(* which its articles are admitted, was recorded, although requests for    *)
(* one domain, and for its parent, resolve and save at the same time.      *)
TierHasRevision ==
  \A d \in Domains : profile[d] # None =>
    \E r \in revisions : r.of = profile[d].id /\ r.tier = profile[d].tier

-----------------------------------------------------------------------------
(* The inductive invariant.                                                *)

(* A request knows its number and its domain once it has begun, and when   *)
(* it is about to save the id the row would get.                           *)
Jobs == [at : {"idle", "resolve", "save"}, n : Nat, domain : Domains \cup {None}, tier : Tiers,
         inherit : BOOLEAN, names : Seq(Domains), id : Ids \cup {None}, revision : Ids \cup {None}]
JobsOK ==
  /\ job \in [Threads -> Jobs]
  /\ \A t \in Threads :
       /\ job[t].at # "idle" => job[t].n \in Ids /\ job[t].domain \in Domains
       /\ job[t].at = "save" => job[t].id \in Ids

IInv == TypeOK /\ JobsOK /\ TierHasRevision
===================================================================================
