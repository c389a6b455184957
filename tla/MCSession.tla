------------------------------ MODULE MCSession ------------------------------
(* TLC instance of Session: the library's own tables, a few calls. *)
EXTENDS Session, MaconTables

\* Two values for one address, of which the clamp moves one with AP13, an
\* address of the other window, a mode and a register that are refused, and a
\* value between two steps of its parameter.
MCSetpointCalls == {<<"HotWater", 55>>}
MCRegisterCalls == {<<2095, 33>>, <<2080, 1>>}
MCParamCalls    == {<<13, 45>>, <<28, 5>>}
MCUnitStart     == 2012 :> 50
=============================================================================
