------------------------------ MODULE EnergyLog ------------------------------
(***************************************************************************)
(* What the block store promises its readers: one log per tenant, that     *)
(* only ever grows at its end, by one batch of records at a time, and that *)
(* holds no record twice.                                                  *)
(***************************************************************************)
EXTENDS Naturals, Sequences

CONSTANTS Owners,   \* the tenants
          Records   \* the records a tenant may log

VARIABLE log

LogInit == log = [t \in Owners |-> << >>]

Logged(t) == UNION {log[t][k] : k \in 1..Len(log[t])}

Extend(t) ==
    \E batch \in SUBSET (Records \ Logged(t)) :
        log' = [log EXCEPT ![t] = Append(@, batch)]

LogNext == \E t \in Owners : Extend(t)

LogSpec == LogInit /\ [][LogNext]_log
=============================================================================
