--------------------------- MODULE MCDurableAgent ---------------------------
(* DurableAgent on a small instance. *)
EXTENDS DurableAgent, TLC

\* An override a caller would use, and malformed ones.
MCOverrides == {[initialMs |-> 400, maxMs |-> 1600], [initialMs |-> 0, maxMs |-> 0],
                [initialMs |-> 900, maxMs |-> 300]}

\* A usable hint, zero, the longest usable hint, one beyond it.
MCHints == {0, 2000, MAX_PARK_HINT_MS, MAX_PARK_HINT_MS + 1}

=============================================================================
