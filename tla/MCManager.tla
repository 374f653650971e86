----------------------------- MODULE MCManager -----------------------------
(* Small instances of Manager for TLC. Names, ports and tasks are model    *)
(* values; names, ports and the tasks t1 and t3 are interchangeable.       *)
EXTENDS Manager, TLC

CONSTANTS n1, n2, p1, p2, t1, t2, t3

Symmetry == Permutations({n1, n2}) \cup Permutations({p1, p2}) \cup Permutations({t1, t3})
SharedSymmetry == Permutations({n1, n2}) \cup Permutations({t1, t3})

\* A second switch is explored where it can meet the first one: while both balances are
\* on one port, with no torn teardown and one call at a time on the state lock.
SecondSwitchOnSharedPort ==
  switches = 2 =>
    /\ Len(devices) = 2 /\ Cardinality(DOMAIN ports) = 1
    /\ adds = MaxAdds /\ interrupted = {} /\ Len(lock) <= 1

\* The caller switches one balance after the other.
OneSwitchAtATime ==
  \A t, u \in Tasks : op[t].kind = "switch" /\ op[u].kind = "switch" => t = u
=============================================================================
