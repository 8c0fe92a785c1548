---------------------------- MODULE EvidenceLog ----------------------------
(***************************************************************************)
(* What the capture storage promises of one generation, whatever its files  *)
(* are: records are numbered from one without a gap and only added at the   *)
(* end; a crash may take records from the end, but none that was synced;    *)
(* a sealed generation never changes again.                                 *)
(***************************************************************************)
EXTENDS Naturals, Sequences

VARIABLES
    log,        \* the numbers of the records a reader would find, in order
    safe,       \* how many of them are synced
    verdict     \* "open", "clean" or "recovered"

vars == <<log, safe, verdict>>

Init == log = <<>> /\ safe = 0 /\ verdict = "open"

Record == log' = Append(log, Len(log) + 1) /\ UNCHANGED <<safe, verdict>>
Sync == safe' = Len(log) /\ UNCHANGED <<log, verdict>>
Lose ==
    /\ \E k \in safe..Len(log) : log' = SubSeq(log, 1, k)
    /\ UNCHANGED <<safe, verdict>>
Seal ==
    /\ safe = Len(log)
    /\ verdict' \in {"clean", "recovered"}
    /\ UNCHANGED <<log, safe>>

Next == verdict = "open" /\ (Record \/ Sync \/ Lose \/ Seal)
Spec == Init /\ [][Next]_vars
=============================================================================
