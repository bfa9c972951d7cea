---------------------------- MODULE ToolCallExport ----------------------------
(***************************************************************************)
(* What an observer of agent tool calls promises, with nothing about       *)
(* databases, queues, processes or files.  A tool call appears once; the   *)
(* backend receives copies of it; the observer settles it, durably, once   *)
(* it was received or given up by the exporter.  The only calls that may   *)
(* be settled without that are the ones settled before the baseline was    *)
(* complete: the history the observer found when it was first started.     *)
(*                                                                         *)
(* Delivery is at least once: copies may repeat until the call is settled, *)
(* and never after it.                                                     *)
(***************************************************************************)
EXTENDS Naturals

CONSTANT Calls            \* the tool calls, one element per (thread, tool-use id)

VARIABLES
  seen,                   \* the calls that have appeared
  received,               \* [Calls -> Nat], copies the backend has of each call
  gaveUp,                 \* calls of which the exporter discarded a copy
  settled,                \* calls the observer will never export again
  baseline                \* TRUE once the history present at the start is settled

vars == <<seen, received, gaveUp, settled, baseline>>

TypeOK ==
  /\ seen \subseteq Calls
  /\ received \in [Calls -> Nat]
  /\ gaveUp \subseteq Calls
  /\ settled \subseteq Calls
  /\ baseline \in BOOLEAN

Init ==
  /\ seen = {}
  /\ received = [c \in Calls |-> 0]
  /\ gaveUp = {}
  /\ settled = {}
  /\ baseline = FALSE

\* The agent makes a call.
Appear ==
  /\ \E c \in Calls : seen' = seen \union {c}
  /\ UNCHANGED <<received, gaveUp, settled, baseline>>

\* Copies of unsettled calls reach the backend, or are discarded on the way.
Export ==
  /\ received' \in [Calls -> Nat]
  /\ gaveUp' \in SUBSET Calls
  /\ \A c \in Calls : received'[c] >= received[c]
  /\ gaveUp \subseteq gaveUp'
  /\ \A c \in Calls :
       received'[c] > received[c] \/ c \in gaveUp' \ gaveUp => c \in seen \ settled
  /\ UNCHANGED <<seen, settled, baseline>>

\* A durable checkpoint: more calls are settled, and perhaps the baseline is.
Settle ==
  /\ settled' \in SUBSET seen
  /\ settled \subseteq settled'
  /\ baseline' \in BOOLEAN
  /\ baseline => baseline'
  /\ \A c \in settled' \ settled :
       received[c] > 0 \/ c \in gaveUp \/ ~baseline
  /\ UNCHANGED <<seen, received, gaveUp>>

Next == Appear \/ Export \/ Settle

Spec == Init /\ [][Next]_vars
=============================================================================
