-------------------------- MODULE DurableSettings ---------------------------
(***************************************************************************)
(* What the user of the configuration pages is promised, without tasks,    *)
(* flags, or images in memory: a page that is told "ok" changes what the   *)
(* device is to keep; what the device keeps only ever moves towards it;    *)
(* and a restart finds what was kept, no more and no less.                 *)
(*                                                                         *)
(* WebServer implements this specification.                                *)
(***************************************************************************)
EXTENDS Settings

VARIABLES
  told,   \* by section, the last form a page was told "ok" about
  kept,   \* by section, the form that outlives a restart
  phase   \* "settled": nothing told is missing from what is kept,
          \* "due": something may be, "reset": a factory reset is under way

vars == <<told, kept, phase>>

Init ==
  /\ told = [s \in Sections |-> 0]
  /\ kept = [s \in Sections |-> 0]
  /\ phase = "settled"

\* A page is told that its form, newer than the last, is accepted.
Tell ==
  /\ \E s \in Sections : told' = [told EXCEPT ![s] = told'[s]] /\ told'[s] > told[s]
  /\ phase' = IF phase = "reset" THEN "reset" ELSE "due"
  /\ UNCHANGED kept

\* No section of what is kept goes back to an older form, and nothing is
\* called settled that is not.
Keep ==
  /\ phase # "reset" /\ phase' \in {"settled", "due"}
  /\ \A s \in Sections : kept[s] <= kept'[s]
  /\ phase' = "settled" => \A s \in Sections : told[s] <= kept'[s]
  /\ UNCHANGED told

\* A factory reset begins, ...
Reset ==
  /\ phase' = "reset"
  /\ told' \in {told, [s \in Sections |-> 0]}
  /\ UNCHANGED kept

\* ... and while it is under way anything may be kept.
ResetGoesOn ==
  /\ phase = "reset" /\ phase' = "reset"
  /\ UNCHANGED told

\* What was told and is not kept is forgotten.
Restart ==
  /\ phase' = "settled"
  /\ told' = kept
  /\ UNCHANGED kept

Next == Tell \/ Keep \/ Reset \/ ResetGoesOn \/ Restart

Spec == Init /\ [][Next]_vars

=============================================================================
