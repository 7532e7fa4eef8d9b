--------------------------- MODULE AlarmDelivery ---------------------------
(***************************************************************************)
(* What the alarm worker promises about the alarms it takes in hand,       *)
(* whatever the table, the binlog, the checkpoint file and restarts do:    *)
(*                                                                         *)
(*   - alarms are handled one at a time, and each of them at most once:    *)
(*     a closed alarm is never reopened, neither after a restart nor after *)
(*     a reconnect;                                                        *)
(*   - only the alarm in hand is pushed, at most `limit' times;            *)
(*   - an alarm is closed as processed only after a push (unless the       *)
(*     configured number of attempts is zero).                             *)
(*                                                                         *)
(* It does not promise that an alarm is taken at all.                      *)
(***************************************************************************)
EXTENDS Integers

CONSTANT Id

VARIABLES
  fate,     \* fate[a]: what became of alarm a
  pushes,   \* pushes[a]: POSTs the webhook received for alarm a
  limit     \* ALARM_RETRY_MAX_ATTEMPTS

vars == <<fate, pushes, limit>>

Fate == {"new", "taken", "processed", "given_up", "interrupted"}

Init ==
  /\ fate = [a \in Id |-> "new"]
  /\ pushes = [a \in Id |-> 0]
  /\ limit \in Nat

Take(a) ==
  /\ \A b \in Id : fate[b] # "taken"
  /\ fate[a] = "new"
  /\ limit > 0
  /\ fate' = [fate EXCEPT ![a] = "taken"]
  /\ UNCHANGED <<pushes, limit>>

Push(a) ==
  /\ fate[a] = "taken"
  /\ pushes[a] < limit
  /\ pushes' = [pushes EXCEPT ![a] = @ + 1]
  /\ UNCHANGED <<fate, limit>>

Complete(a) ==
  /\ fate[a] = "taken"
  /\ pushes[a] > 0
  /\ fate' = [fate EXCEPT ![a] = "processed"]
  /\ UNCHANGED <<pushes, limit>>

GiveUp(a) ==
  /\ fate[a] = "taken"
  /\ fate' = [fate EXCEPT ![a] = "given_up"]
  /\ UNCHANGED <<pushes, limit>>

Interrupt(a) ==
  /\ fate[a] = "taken"
  /\ fate' = [fate EXCEPT ![a] = "interrupted"]
  /\ UNCHANGED <<pushes, limit>>

(* With no attempt allowed an alarm is waved through without a push. *)
WaveThrough(a) ==
  /\ limit = 0
  /\ \A b \in Id : fate[b] # "taken"
  /\ fate[a] = "new"
  /\ fate' = [fate EXCEPT ![a] = "processed"]
  /\ UNCHANGED <<pushes, limit>>

Next ==
  \E a \in Id :
    \/ Take(a) \/ Push(a) \/ Complete(a)
    \/ GiveUp(a) \/ Interrupt(a) \/ WaveThrough(a)

Spec == Init /\ [][Next]_vars
=============================================================================
