---------------------------- MODULE MCWheelStore ----------------------------
(***************************************************************************)
(* Small instances of WheelStore for TLC.  All processes run on one host:  *)
(* a takeover refuses the lock of another host at its first step.          *)
(***************************************************************************)
EXTENDS WheelStore, TLC

CONSTANTS c1, c2, c3

Mixed == [c \in Clients |-> IF c = c3 THEN {"persist", "lookup"}
                            ELSE {"fetch"}]
OneRetry == [c \in Clients |-> IF c = c3 THEN {"retry"} ELSE {"fetch"}]
TwoRetries == [c \in Clients |-> IF c = c1 THEN {"fetch"} ELSE {"retry"}]

\* The two that only fetch.
Fetchers == Permutations({c1, c2})

OneHost == [c \in Clients |-> "a"]
=============================================================================
