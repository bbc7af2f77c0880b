----------------------------- MODULE FrameLedger -----------------------------
(***************************************************************************)
(* What the sequencer promises about frames, without its requests, bodies, *)
(* pauses and errors: at most one task is worked on, frames are counted    *)
(* one at a time and for that task alone, the file is brought up to the    *)
(* memory before a task is left, and a restart goes back to the file.      *)
(* SequencerRunner is shown to implement this.                             *)
(***************************************************************************)
EXTENDS Naturals

CONSTANTS Tasks, Lanes, NoTask

VARIABLES
  worked,   \* the task being worked on, or NoTask
  counted,  \* the frames counted per task and lane
  kept      \* the same, as the file has them

ledger == <<worked, counted, kept>>

LedgerInit ==
  /\ worked = NoTask
  /\ counted = [t \in Tasks |-> [l \in Lanes |-> 0]]
  /\ kept = counted

\* A frame of the task being worked on.
TakesFrame(l) ==
  /\ worked # NoTask
  /\ counted' = [counted EXCEPT ![worked][l] = @ + 1]
  /\ UNCHANGED <<worked, kept>>

Files ==
  /\ kept' = counted
  /\ UNCHANGED <<worked, counted>>

TakesUp(t) ==
  /\ worked = NoTask
  /\ worked' = t
  /\ kept' = counted
  /\ UNCHANGED counted

Leaves ==
  /\ worked' = NoTask
  /\ kept' = counted
  /\ UNCHANGED counted

\* Counts are kept or start again from nothing, those of the task being worked on are kept.
IsEdited(t, l) ==
  \/ counted'[t][l] = counted[t][l]
  \/ t # worked /\ counted'[t][l] = 0

Rewrites ==
  /\ counted' \in [Tasks -> [Lanes -> Nat]]
  /\ \A t \in Tasks, l \in Lanes : IsEdited(t, l)
  /\ kept' = counted'
  /\ UNCHANGED worked

Restarts ==
  /\ worked' = NoTask
  /\ counted' = kept
  /\ UNCHANGED kept

LedgerNext ==
  \/ \E l \in Lanes : TakesFrame(l)
  \/ \E t \in Tasks : TakesUp(t)
  \/ Files \/ Leaves \/ Rewrites \/ Restarts

LedgerSpec == LedgerInit /\ [][LedgerNext]_ledger
=============================================================================
