--------------------------------- MODULE Webhooks ---------------------------------
(***************************************************************************)
(* The channels a report is pushed to (WebhookService) and the routes that *)
(* show and change them.  The channels are one JSON file; every request    *)
(* reads all of it, and one that changes something writes all of it back.  *)
(* Nothing locks the file, and while it is open for writing it is empty.   *)
(***************************************************************************)
EXTENDS Naturals, FiniteSets

CONSTANTS Threads,      \* request threads
          Secrets,      \* addresses and tokens an admin may type
          MaxRequests,  \* bound: requests
          MaxCrashes    \* bound: ends of the process

ASSUME WebhooksAssumption == MaxRequests \in Nat /\ MaxCrashes \in Nat

VARIABLES
  file,     \* webhook_config.json
  push,     \* what a request is doing, and the channels and settings it holds
  typed,    \* every secret that was typed for a channel
  asked, crashes

vars == <<file, push, typed, asked, crashes>>

Ids == 1 .. MaxRequests
Mask == "********"     \* _mask_url, _mask_token: a secret is shown with asterisks
Channel == [id : Ids, secret : Secrets \cup {Mask}, enabled : BOOLEAN]
Ops == {"add", "update", "delete", "auto", "push"}

NoFile == [readable |-> TRUE, channels |-> {}, auto |-> FALSE]
Idle == [at |-> "idle", op |-> "push", id |-> 0, secret |-> Mask, enabled |-> TRUE,
         channels |-> {}, auto |-> FALSE, clean |-> TRUE]

Init ==
  /\ file = NoFile
  /\ push = [t \in Threads |-> Idle]
  /\ typed = {} /\ asked = 0 /\ crashes = 0

(* The page with the channels shows every secret as a mask and sends the   *)
(* whole form back: a channel is added with a secret that was typed, an    *)
(* update has the mask unless a new one was.                               *)
Request(t) ==
  /\ push[t].at = "idle" /\ asked < MaxRequests /\ asked' = asked + 1
  /\ \E op \in Ops, id \in Ids, secret \in Secrets \cup {Mask}, enabled \in BOOLEAN :
       /\ op = "add" => id = asked' /\ secret # Mask /\ enabled
       /\ op \in {"update", "delete"} => id <= asked
       /\ op \in {"delete", "auto", "push"} => secret = Mask
       /\ op \in {"delete", "push"} => enabled
       /\ op \in {"auto", "push"} => id = asked'
       /\ push' = [push EXCEPT ![t] = [at |-> "load", op |-> op, id |-> id, secret |-> secret,
                                       enabled |-> enabled, channels |-> {}, auto |-> FALSE, clean |-> TRUE]]
       /\ typed' = IF secret = Mask THEN typed ELSE typed \cup {<<id, secret>>}
  /\ UNCHANGED <<file, crashes>>

(* Variant: the fields of the form are merged as they come.                *)
MergedUnfiltered(c, p) == [c EXCEPT !.secret = p.secret, !.enabled = p.enabled]

(* update_channel of the route leaves out a value with an asterisk.        *)
Merged(c, p) == [c EXCEPT !.secret = IF p.secret = Mask THEN @ ELSE p.secret, !.enabled = p.enabled]

(* add_channel, update_channel, delete_channel.                            *)
Edited(channels, p) ==
  CASE p.op = "add"    -> channels \cup {[id |-> p.id, secret |-> p.secret, enabled |-> TRUE]}
    [] p.op = "update" -> {IF c.id = p.id THEN Merged(c, p) ELSE c : c \in channels}
    [] p.op = "delete" -> {c \in channels : c.id # p.id}
    [] p.op = "push"   -> {c \in channels : c.enabled}
    [] OTHER           -> channels

Known(p) == p.op \in {"update", "delete"} => \E c \in file.channels : c.id = p.id

(* load_channels, or _load_config for auto_push.  save_channels then loads *)
(* the file again for the setting it leaves alone.                         *)
Load(t) ==
  LET next == CASE push[t].op = "push" -> "send" [] push[t].op = "auto" -> "open" [] OTHER -> "again"
  IN  /\ push[t].at = "load" /\ file.readable /\ Known(push[t])
      /\ push' = [push EXCEPT ![t].at = next, ![t].channels = Edited(file.channels, push[t]),
                              ![t].auto = push[t].enabled]
      /\ UNCHANGED <<file, typed, asked, crashes>>

LoadAgain(t) ==
  /\ push[t].at = "again" /\ file.readable
  /\ push' = [push EXCEPT ![t].at = "open", ![t].auto = file.auto]
  /\ UNCHANGED <<file, typed, asked, crashes>>

(* The channel is not there (404), or the file is not JSON (500).          *)
Refuse(t) ==
  /\ \/ push[t].at \in {"load", "again"} /\ ~file.readable
     \/ push[t].at = "load" /\ file.readable /\ ~Known(push[t])
  /\ push' = [push EXCEPT ![t] = Idle]
  /\ UNCHANGED <<file, typed, asked, crashes>>

(* _save_config: open for writing empties the file, then it is dumped.     *)
Open(t) ==
  /\ push[t].at = "open"
  /\ file' = [NoFile EXCEPT !.readable = FALSE]
  /\ push' = [push EXCEPT ![t].at = "dump", ![t].clean = TRUE]
  /\ UNCHANGED <<typed, asked, crashes>>

(* A dump over what another has dumped since may leave the other's tail.   *)
Dump(t) ==
  /\ push[t].at = "dump"
  /\ \E readable \in {TRUE, push[t].clean} :
       file' = IF readable THEN [readable |-> TRUE, channels |-> push[t].channels, auto |-> push[t].auto]
               ELSE [NoFile EXCEPT !.readable = FALSE]
  /\ push' = [u \in Threads |-> IF u = t THEN Idle ELSE [push[u] EXCEPT !.clean = FALSE]]
  /\ UNCHANGED <<typed, asked, crashes>>

(* broadcast: one channel after another, whether the last one failed or    *)
(* not; the channels are those of the file when the push began.            *)
Send(t) ==
  /\ push[t].at = "send"
  /\ \/ \E c \in push[t].channels : push' = [push EXCEPT ![t].channels = @ \ {c}]
     \/ push[t].channels = {} /\ push' = [push EXCEPT ![t] = Idle]
  /\ UNCHANGED <<file, typed, asked, crashes>>

Crash ==
  /\ crashes < MaxCrashes /\ crashes' = crashes + 1
  /\ push' = [t \in Threads |-> Idle]
  /\ UNCHANGED <<file, typed, asked>>

Next ==
  \/ \E t \in Threads : \/ Request(t) \/ Load(t) \/ LoadAgain(t) \/ Refuse(t)
                        \/ Open(t) \/ Dump(t) \/ Send(t)
  \/ Crash
Spec == Init /\ [][Next]_vars

-----------------------------------------------------------------------------
TypeOK ==
  /\ file.readable \in BOOLEAN /\ file.channels \subseteq Channel /\ file.auto \in BOOLEAN
  /\ typed \subseteq Ids \X Secrets
  /\ asked \in 0 .. MaxRequests /\ crashes \in 0 .. MaxCrashes
  /\ \A t \in Threads :
       /\ push[t].at \in {"idle", "load", "again", "open", "dump", "send"}
       /\ push[t].channels \subseteq Channel

(* The secret of a channel is always one that an admin typed for this very *)
(* channel, however the requests overwrite each other's file: the mask     *)
(* that the page shows and sends back does not replace it                  *)
(* (_mask_url, update_channel).                                            *)
MaskIsNeverStored ==
  \A c \in file.channels : <<c.id, c.secret>> \in typed

-----------------------------------------------------------------------------
(* The inductive invariant.                                                *)

(* Channels whose secrets were typed for them.                             *)
Good(channels) == \A c \in channels : <<c.id, c.secret>> \in typed

(* A request, its fields as far as the proof looks at them, with what it   *)
(* would write: the form of an addition or of an update that has a secret  *)
(* was typed, and the channels it holds are as those of the file should be.*)
Jobs == [at : {"idle", "load", "again", "open", "dump", "send"}, op : Ops, id : 0 .. MaxRequests,
         secret : Secrets \cup {Mask}, enabled : BOOLEAN, channels : SUBSET Channel,
         auto : BOOLEAN, clean : BOOLEAN]
Files == [readable : BOOLEAN, channels : SUBSET Channel, auto : BOOLEAN]

JobOK(p) ==
  /\ p \in Jobs
  /\ Good(p.channels)
  /\ p.at # "idle" => p.id \in Ids /\ (p.secret = Mask \/ <<p.id, p.secret>> \in typed)
  /\ p.at # "idle" /\ p.op = "add" => p.secret # Mask

IInv ==
  /\ file \in Files /\ Good(file.channels)
  /\ typed \subseteq Ids \X Secrets
  /\ asked \in 0 .. MaxRequests /\ crashes \in 0 .. MaxCrashes
  /\ push \in [Threads -> Jobs] /\ \A t \in Threads : JobOK(push[t])
===================================================================================
