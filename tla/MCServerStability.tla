------------------------- MODULE MCServerStability -------------------------
(***************************************************************************)
(* Small instances of ServerStability for TLC.  Two abstract providers     *)
(* play every role of the fan-out table between them: p1 is critical       *)
(* and corroborating, p2 is token-based, late and gated.                   *)
(***************************************************************************)
EXTENDS ServerStability

OneSlot     == {<<"p1", 1>>}
TwoSlots    == {<<"p1", 1>>, <<"p1", 2>>}
OneSlotEach == {<<"p1", 1>>, <<"p2", 1>>}
=============================================================================
