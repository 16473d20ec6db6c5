----------------------------- MODULE SensorNode -----------------------------
(***************************************************************************)
(* The door sensor's firmware: the debouncer of the reed switch, and the   *)
(* packet the node sends for every confirmed edge.                         *)
(*                                                                         *)
(* One action per outcome of DoorState::step on one sample.  A packet is   *)
(* its sequence number and the level it reports; the rest of it is fixed.  *)
(***************************************************************************)
EXTENDS Integers, Sequences

CONSTANTS
    StableTicks,    \* DEFAULT_STABLE_TICKS (50)
    SequenceSpan    \* 2^14, the range of the sequence counter

ASSUME NodeAssumption ==
    /\ StableTicks \in Nat \ {0}
    /\ SequenceSpan \in Nat \ {0}

VARIABLES
    committed,      \* Debouncer.committed
    streak,         \* Debouncer.streak
    nextSequence    \* DoorState.next_sequence

nodeVars == <<committed, streak, nextSequence>>

DoorLevel == {"Closed", "Open"}

\* DoorState::new with the level read at boot.
Booted(l) ==
    /\ committed = l
    /\ streak = 0
    /\ nextSequence = 0

\* Mutant: the level is taken before the edge is committed.
PacketStale == [sequence |-> nextSequence, value |-> committed]

Packet == [sequence |-> nextSequence, value |-> committed']

-----------------------------------------------------------------------------
\* Mutant: a sample that agrees does not interrupt the streak.
AgreesKeepsStreak(l) ==
    /\ l = committed
    /\ UNCHANGED nodeVars

Agrees(l) ==
    /\ l = committed
    /\ streak' = 0
    /\ UNCHANGED <<committed, nextSequence>>

Disagrees(l) ==
    /\ l # committed
    /\ streak + 1 < StableTicks
    /\ streak' = streak + 1
    /\ UNCHANGED <<committed, nextSequence>>


ConfirmsKeepsStreak(l) ==
    /\ l # committed
    /\ streak + 1 >= StableTicks
    /\ committed' = l
    /\ streak' = streak + 1
    /\ nextSequence' = (nextSequence + 1) % SequenceSpan

\* The edge is confirmed; the caller sends Packet.
Confirms(l) ==
    /\ l # committed
    /\ streak + 1 >= StableTicks
    /\ committed' = l
    /\ streak' = 0
    /\ nextSequence' = (nextSequence + 1) % SequenceSpan

NodeTypeOK ==
    /\ committed \in DoorLevel
    /\ streak \in 0 .. StableTicks - 1
    /\ nextSequence \in 0 .. SequenceSpan - 1

=============================================================================
