----------------------------- MODULE ServedVersions -----------------------------
(***************************************************************************)
(* What the rest of the system relies on in a document: its versions are   *)
(* numbered as they are begun; at most one is served, and only after all   *)
(* that search needs was derived from it; a version that was given up or   *)
(* replaced never returns.  How versions are built, and by whom, is left   *)
(* open; DocumentVersions implements this specification.                   *)
(***************************************************************************)
EXTENDS Naturals

CONSTANT Documents

VARIABLES
  begun,    \* how many versions a document has
  ready,    \* those that are complete and have not been served
  serving,  \* the one that is served (0: none)
  spent     \* those that failed or were replaced

vars == <<begun, ready, serving, spent>>

Init ==
  /\ begun   = [d \in Documents |-> 0]
  /\ ready   = [d \in Documents |-> {}]
  /\ serving = [d \in Documents |-> 0]
  /\ spent   = [d \in Documents |-> {}]

Begin(d) ==
  /\ begun' = [begun EXCEPT ![d] = @ + 1]
  /\ UNCHANGED <<ready, serving, spent>>

Complete(d, n) ==
  /\ n \notin spent[d] \cup {serving[d]}
  /\ ready' = [ready EXCEPT ![d] = @ \cup {n}]
  /\ UNCHANGED <<begun, serving, spent>>

GiveUp(d, n) ==
  /\ n # serving[d]
  /\ ready' = [ready EXCEPT ![d] = @ \ {n}]
  /\ spent' = [spent EXCEPT ![d] = @ \cup {n}]
  /\ UNCHANGED <<begun, serving>>

Serve(d, n) ==
  /\ n \in ready[d]
  /\ serving' = [serving EXCEPT ![d] = n]
  /\ ready' = [ready EXCEPT ![d] = @ \ {n}]
  /\ spent' = [spent EXCEPT ![d] = @ \cup ({serving[d]} \ {0})]
  /\ UNCHANGED begun

Next ==
  \E d \in Documents :
    \/ Begin(d)
    \/ \E n \in 1..begun[d] : Complete(d, n) \/ GiveUp(d, n) \/ Serve(d, n)

Spec == Init /\ [][Next]_vars
===============================================================================
