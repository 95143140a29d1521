---------------------------- MODULE AgentEscrow ----------------------------
(***************************************************************************)
(* What the accounting of an agent task promises to whoever watches the     *)
(* chain and the providers' meters, and nothing of how it is kept: the      *)
(* ceiling is held once, work is done only against the hold and within the  *)
(* ceiling, the hold is settled once for at least the work done and at most *)
(* the ceiling, no work is done after that, and a receipt follows.          *)
(***************************************************************************)
EXTENDS Integers

CONSTANT Ceiling    \* a natural number: the units held

VARIABLES
    hold,    \* what the contracts say of the job
    meter,   \* tariff units of the invocations that really started
    paid     \* units settled

Init == hold = "none" /\ meter = 0 /\ paid = 0

Open == hold = "none" /\ hold' = "held" /\ UNCHANGED <<meter, paid>>

Work ==
    /\ hold = "held"
    /\ meter' \in meter .. Ceiling
    /\ UNCHANGED <<hold, paid>>

Close ==
    /\ hold = "held" /\ hold' = "settled"
    /\ paid' \in meter .. Ceiling
    /\ UNCHANGED meter

File == hold = "settled" /\ hold' = "receipted" /\ UNCHANGED <<meter, paid>>

Next == Open \/ Work \/ Close \/ File

Spec == Init /\ [][Next]_<<hold, meter, paid>>
=============================================================================
