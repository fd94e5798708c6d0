----------------------------- MODULE MCSwitchWsi -----------------------------
(* SwitchWsi with the liberties of each run. *)
EXTENDS SwitchWsi

None   == {}
Retire == {"retire"}
==============================================================================
