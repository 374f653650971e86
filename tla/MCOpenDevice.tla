--------------------------- MODULE MCOpenDevice ---------------------------
(* A small instance of OpenDevice for TLC.                                 *)
EXTENDS OpenDevice
===========================================================================
