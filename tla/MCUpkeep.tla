------------------------------ MODULE MCUpkeep ------------------------------
(* A small instance of Upkeep for TLC.                                     *)
EXTENDS Upkeep, TLC

\* One balance for each make and end of its list, of those of the MSE the one that
\* ends it by 0x10 with a counter; with every list that has a sensor, and the empty one.
\* A strict session, and a link where addresses matter, with an MSE that has sensor 0.
MCSetups ==
  {s \in AllSetups :
     /\ s.counter <=> s.make = "mse" /\ s.ends = "err10"
     /\ s.sensors = {} => s.listed = 0
     /\ s.strict \/ s.multidrop =>
          s.make = "mse" /\ s.sensors = {0} /\ s.listed = 1 /\ ~(s.strict /\ s.multidrop)}

\* A parameter write and a rate change; a filter key.
MCReaderRaws == [xbpi |-> {86, SetBaud}, sbi |-> {"K"}]

\* Rates and addresses are interchangeable.
Symmetry == Permutations(Rates) \union Permutations(Addresses)
=============================================================================
