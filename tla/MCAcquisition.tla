--------------------------- MODULE MCAcquisition ---------------------------
(* A small instance of Acquisition for TLC.                                *)
EXTENDS Acquisition
=============================================================================
