-------------------------- MODULE MCSessionSwitch --------------------------
(* A small instance of SessionSwitch for TLC: one command the device lacks  *)
(* and that only xBPI declares, and one parameterised command of both       *)
(* protocols.                                                               *)
EXTENDS SessionSwitch

CONSTANTS erase, param

MCCommands      == {erase, param}
MCVariants      == erase :> {"xbpi"} @@ param :> {"xbpi", "sbi"}
MCParameterized == {param}
MCLacks         == {erase}
=============================================================================
