------------------------------ MODULE Settings ------------------------------
(***************************************************************************)
(* struct config of firmware/src/config-mng.h, as far as the tasks that    *)
(* share it can tell its contents apart.                                   *)
(*                                                                         *)
(* The content of a section is abstracted to the number of the web form it *)
(* came from (0: as shipped) and to whether it is that form as a whole: a  *)
(* section caught between the field by field writes of a handler, left     *)
(* there by a refused form, or cleared by setdefault's memset, is a part.  *)
(***************************************************************************)
EXTENDS Naturals

\* The members of struct config.
Sections == {"ap", "wifi", "service", "ntp", "cal"}

Content == [form : Nat, whole : BOOLEAN]

Whole(n) == [form |-> n, whole |-> TRUE]
Part(n)  == [form |-> n, whole |-> FALSE]

=============================================================================
