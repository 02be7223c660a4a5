------------------------------ MODULE UsageBuffer ------------------------------
(***************************************************************************)
(* The usage log's buffer (flow/usage_buffer.go): flows record into it,    *)
(* the flush loop drains it and inserts what it drained, puts it back if   *)
(* that fails, and flushes once more when it is stopped.  Records are      *)
(* numbered in the order they were made.                                   *)
(***************************************************************************)
EXTENDS Integers, Sequences

CONSTANTS
  MaxUsageBuffer,  \* maxUsageBufferSize
  MaxRecords       \* bound: the records ever made

ASSUME UsageBufferAssumption == MaxUsageBuffer \in Nat \ {0} /\ MaxRecords \in Nat

VARIABLES
  buf,        \* the buffer
  hand,       \* what flush has drained and not inserted yet
  table,      \* usage_logs
  loop,       \* the flush loop: at its select, flushing (finally), or done
  stopping,   \* stopCh is closed
  made,       \* records made
  closing,    \* history: records made before the last drain
  kept        \* history: the last insert failed and its records came back

usageVars == <<buf, hand, table, loop, stopping, made, closing, kept>>

UsageTypeOK ==
  /\ buf \in Seq(1..made) /\ hand \in Seq(1..made) /\ table \in Seq(1..made)
  /\ loop \in {"select", "flush", "insert", "final", "last", "done"}
  /\ stopping \in BOOLEAN /\ kept \in BOOLEAN
  /\ made \in 0..MaxRecords /\ closing \in 0..made

UsageInit ==
  /\ buf = << >> /\ hand = << >> /\ table = << >>
  /\ loop = "select" /\ stopping = FALSE
  /\ made = 0 /\ closing = 0 /\ kept = FALSE

(* The newest of a sequence that fit. *)
Newest(s) == IF Len(s) > MaxUsageBuffer
             THEN SubSeq(s, Len(s) - MaxUsageBuffer + 1, Len(s)) ELSE s

(* Flows may still record while the shutdown is under way and after it.    *)
Record ==
  /\ made < MaxRecords
  /\ buf' = Newest(Append(buf, made + 1))
  /\ made' = made + 1
  /\ UNCHANGED <<hand, table, loop, stopping, closing, kept>>

Ticks ==
  /\ loop = "select"
  /\ loop' = "flush"
  /\ UNCHANGED <<buf, hand, table, stopping, made, closing, kept>>

Stop ==
  /\ ~stopping
  /\ stopping' = TRUE
  /\ UNCHANGED <<buf, hand, table, loop, made, closing, kept>>

LastRound ==
  /\ loop = "select" /\ stopping
  /\ loop' = "final"
  /\ UNCHANGED <<buf, hand, table, stopping, made, closing, kept>>

After == IF loop \in {"final", "last"} THEN "done" ELSE "select"

(* The buffer is taken over, or found empty. *)
Drain ==
  /\ loop \in {"flush", "final"}
  /\ hand' = buf /\ buf' = << >>
  /\ loop' = IF buf = << >> THEN After ELSE IF loop = "flush" THEN "insert" ELSE "last"
  /\ closing' = made
  /\ kept' = FALSE
  /\ UNCHANGED <<table, stopping, made>>

Insert ==
  /\ loop \in {"insert", "last"}
  /\ table' = table \o hand
  /\ hand' = << >>
  /\ loop' = After
  /\ UNCHANGED <<buf, stopping, made, closing, kept>>

(* Mutant: the records come back behind the newer ones. *)
RequeueBehind ==
  /\ loop \in {"insert", "last"}
  /\ buf' = Newest(buf \o hand)
  /\ hand' = << >>
  /\ kept' = TRUE
  /\ loop' = After
  /\ UNCHANGED <<table, stopping, made, closing>>

(* BatchInsert is one transaction; what it could not insert comes back to  *)
(* the front.                                                              *)
Requeue ==
  /\ loop \in {"insert", "last"}
  /\ buf' = Newest(hand \o buf)
  /\ hand' = << >>
  /\ kept' = TRUE
  /\ loop' = After
  /\ UNCHANGED <<table, stopping, made, closing>>

UsageNext ==
  \/ Record \/ Stop \/ Ticks \/ LastRound
  \/ Drain \/ Insert \/ Requeue

(* The loop goes on, and its select prefers neither case.                  *)
UsageFairness ==
  /\ WF_usageVars(Drain) /\ WF_usageVars(Insert \/ Requeue)
  /\ SF_usageVars(LastRound)

-----------------------------------------------------------------------------
(* Properties.                                                             *)

Everywhere == table \o hand \o buf
Elements(s) == {s[i] : i \in DOMAIN s}

(* No record is written twice or out of order, whatever fails; and when    *)
(* the loop has ended and its last insert did not fail, only records made  *)
(* after its last drain are left in the buffer.                            *)
UsageInv ==
  /\ UsageTypeOK
  /\ \A i, j \in DOMAIN Everywhere : i < j => Everywhere[i] < Everywhere[j]
  /\ (loop = "done" /\ ~kept) => hand = << >> /\ \A i \in DOMAIN buf : buf[i] > closing

(* A record is given up only when the buffer is full of newer ones.        *)
OnlyOldestDropped ==
  [][\A r \in Elements(Everywhere) \ Elements(Everywhere') :
       Len(buf') = MaxUsageBuffer /\ \A i \in DOMAIN buf' : buf'[i] > r]_usageVars

(* Stop returns. *)
UsageStops == stopping ~> (loop = "done")

=============================================================================
