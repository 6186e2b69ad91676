----------------------------- MODULE DurableLog -----------------------------
(***************************************************************************)
(* What the path from a register to Event Edge promises, with the          *)
(* protocol left out: a register appends entries to its log, Edge comes to *)
(* hold copies of them, and the register raises its acknowledgement mark   *)
(* only over entries Edge holds.  A copy, once held, never changes and is  *)
(* never given up.                                                         *)
(***************************************************************************)
EXTENDS Integers

CONSTANTS
  MaxSeq,     \* bound on the number of log entries
  Content,    \* what an entry may say
  Absent      \* no entry

Seqs == 1..MaxSeq

VARIABLES
  appended,      \* number of entries the register has written
  held,          \* Edge's copy of each entry, or Absent
  acknowledged   \* every entry up to this one counts as delivered

logVars == <<appended, held, acknowledged>>

LogInit ==
  /\ appended = 0
  /\ held = [s \in Seqs |-> Absent]
  /\ acknowledged = 0

(* One commit may write several entries.                                   *)
AppendEntries ==
  /\ \E n \in (appended + 1)..MaxSeq : appended' = n
  /\ UNCHANGED <<held, acknowledged>>

(* Edge takes copies of entries that exist and keeps the ones it has.      *)
HoldEntries ==
  /\ held' \in [Seqs -> Content \cup {Absent}]
  /\ \A s \in Seqs :
       /\ held[s] # Absent => held'[s] = held[s]
       /\ held'[s] # Absent => s <= appended
  /\ UNCHANGED <<appended, acknowledged>>

Acknowledge ==
  /\ \E a \in acknowledged..appended :
       /\ \A s \in 1..a : held[s] # Absent
       /\ acknowledged' = a
  /\ UNCHANGED <<appended, held>>

LogNext == AppendEntries \/ HoldEntries \/ Acknowledge

LogSpec == LogInit /\ [][LogNext]_logVars
=============================================================================
