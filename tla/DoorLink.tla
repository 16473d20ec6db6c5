------------------------------ MODULE DoorLink ------------------------------
(***************************************************************************)
(* From the reed switch to the hub's view of a door: the sensor node, the  *)
(* serial line it writes to, and the loop of run_ccsds_mode that cuts the  *)
(* stream of bytes into packets again.                                     *)
(*                                                                         *)
(* Nothing in the stream marks where a packet begins: the reader takes     *)
(* PacketSize bytes at a time, wherever it stands.  A byte is the packet   *)
(* it belongs to and its index there (0 in the boot banner); era, for the  *)
(* properties, counts the disturbances before it was written.              *)
(*                                                                         *)
(* What can put the reader out of step (a byte the UART refuses, the       *)
(* banner of a node that resets, a read that would block half-way, a hub   *)
(* that restarts) is counted in disturbances.                              *)
(***************************************************************************)
EXTENDS SensorNode, SequencesExt

CONSTANTS
    PacketSize,         \* PACKET_SIZE (14)
    BannerSize,         \* bytes of the boot banner (48)
    MaxWire,            \* bound: bytes in flight
    MaxDisturbances,    \* bound: disturbances
    MaxMissed           \* bound: frames counted as missed

ASSUME LinkAssumption ==
    /\ PacketSize \in Nat \ {0}
    /\ BannerSize \in Nat
    /\ MaxWire \in Nat
    /\ MaxDisturbances \in Nat
    /\ MaxMissed \in Nat

VARIABLES
    level,          \* the reed switch
    wire,           \* bytes written and not yet read
    buf,            \* bytes the read_exact under way has taken
    view,           \* ContactState.open of the door, as a level
    window,         \* history: the last StableTicks samples since the node booted
    settled,        \* history: level of the last window of equal samples
    told,           \* history: the node has sent a packet since it booted
    heard,          \* history: era of the last packet decoded, or -1
    missed,         \* history: frames in a row that were no packet
    disturbances    \* history: see above

linkVars == <<wire, buf, view, heard, missed>>
sampleVars == <<window, settled, told>>
vars == <<nodeVars, level, linkVars, sampleVars, disturbances>>

Byte(i, p) == [index |-> i, packet |-> p, era |-> disturbances]
Bytes(p) == [i \in 1 .. PacketSize |-> Byte(i, p)]
Banner == [i \in 1 .. BannerSize |-> Byte(0, <<>>)]

Disturb == disturbances < MaxDisturbances /\ disturbances' = disturbances + 1

\* The node was running before the hub opened the line; the hub registers
\* every contact as closed.
Init ==
    /\ level \in DoorLevel
    /\ Booted(level)
    /\ wire = <<>>
    /\ buf = <<>>
    /\ view = "Closed"
    /\ window = <<>>
    /\ settled = level
    /\ told = FALSE
    /\ heard = -1
    /\ missed = 0
    /\ disturbances = 0

-----------------------------------------------------------------------------
(***************************************************************************)
(* The node.                                                               *)
(***************************************************************************)
DoorMoves ==
    /\ \E l \in DoorLevel \ {level} : level' = l
    /\ UNCHANGED <<nodeVars, linkVars, sampleVars, disturbances>>

\* History of a sample: the reference the debouncer is compared with.
Observe ==
    /\ window' = IF Len(window) < StableTicks THEN Append(window, level)
                 ELSE Append(Tail(window), level)
    /\ settled' = IF window' = [i \in 1 .. StableTicks |-> level] THEN level ELSE settled

SampleQuiet ==
    /\ Agrees(level) \/ Disagrees(level)
    /\ Observe
    /\ UNCHANGED <<level, linkVars, told, disturbances>>

\* What may come of writing a packet: some of its bytes, in order.
Remnants(p) ==
    UNION {{[i \in 1 .. n |-> Bytes(p)[kept[i]]] :
               kept \in {f \in [1 .. n -> 1 .. PacketSize] :
                           \A i, j \in 1 .. n : i < j => f[i] < f[j]}} : n \in 0 .. PacketSize}

\* Write errors of single bytes are dropped (let _ = block!(tx.write(..))).
SampleEdge ==
    /\ Confirms(level)
    /\ Observe
    /\ told' = TRUE
    /\ Len(wire) + PacketSize <= MaxWire
    /\ \/ wire' = wire \o Bytes(Packet) /\ UNCHANGED disturbances
       \/ \E r \in Remnants(Packet) : wire' = wire \o r /\ Disturb
    /\ UNCHANGED <<level, buf, view, heard, missed>>

NodeResets ==
    /\ Disturb
    /\ Len(wire) + BannerSize <= MaxWire
    /\ committed' = level
    /\ streak' = 0
    /\ nextSequence' = 0
    /\ wire' = wire \o Banner
    /\ window' = <<>>
    /\ settled' = level
    /\ told' = FALSE
    /\ UNCHANGED <<level, buf, view, heard, missed>>

-----------------------------------------------------------------------------
(***************************************************************************)
(* The hub's reader.                                                       *)
(***************************************************************************)
\* A frame that starts at a packet's first byte.  Any other is a decode error
\* or a reading of no sensor the hub knows.
InStep(f) == \A i \in DOMAIN f : f[i].index = i

Frame == Append(buf, Head(wire))

TakeByte ==
    /\ wire # <<>>
    /\ Len(Frame) < PacketSize
    /\ buf' = Frame
    /\ wire' = Tail(wire)
    /\ UNCHANGED <<nodeVars, level, view, heard, missed, sampleVars, disturbances>>

\* The level a packet reports is in its last field.
TakePacket ==
    /\ wire # <<>>
    /\ Len(Frame) = PacketSize
    /\ buf' = <<>>
    /\ wire' = Tail(wire)
    /\ \/ /\ InStep(Frame)
          /\ view' = Last(Frame).packet.value
          /\ heard' = Last(Frame).era
          /\ missed' = 0
       \/ /\ ~ InStep(Frame)
          /\ missed' = IF missed < MaxMissed THEN missed + 1 ELSE missed
          /\ UNCHANGED <<view, heard>>
    /\ UNCHANGED <<nodeVars, level, sampleVars, disturbances>>

\* read_exact fails with WouldBlock; what it had taken is gone.
ReadWouldBlock ==
    /\ wire = <<>>
    /\ buf # <<>>
    /\ Disturb
    /\ buf' = <<>>
    /\ UNCHANGED <<nodeVars, level, wire, view, heard, missed, sampleVars>>

HubRestarts ==
    /\ Disturb
    /\ buf' = <<>>
    /\ view' = "Closed"
    /\ UNCHANGED <<nodeVars, level, wire, heard, missed, sampleVars>>

Sample == SampleQuiet \/ SampleEdge
Read == TakeByte \/ TakePacket

Next ==
    \/ DoorMoves
    \/ Sample
    \/ Read
    \/ NodeResets
    \/ ReadWouldBlock
    \/ HubRestarts

\* The node samples every millisecond and the hub reads as long as there is
\* something to read.
Fairness == WF_vars(Sample) /\ WF_vars(Read)

Spec == Init /\ [][Next]_vars /\ Fairness

-----------------------------------------------------------------------------
(***************************************************************************)
(* Properties.                                                             *)
(***************************************************************************)
TypeOK ==
    /\ NodeTypeOK
    /\ level \in DoorLevel
    /\ Len(wire) <= MaxWire
    /\ Len(buf) < PacketSize
    /\ view \in DoorLevel
    /\ disturbances \in 0 .. MaxDisturbances
    /\ heard \in -1 .. disturbances

\* The debouncer is right: the level it reports is the level of the last
\* StableTicks samples in a row that were equal, however the switch bounced
\* before, between and after them.
CommittedIsSettled == committed = settled

\* Once a packet written after the last disturbance has been decoded, the hub
\* is in step for good: with nothing in flight its view is the level the node
\* has committed, whatever was lost before.
ViewIsCurrent ==
    (wire = <<>> /\ buf = <<>> /\ heard = disturbances) => view = committed


-----------------------------------------------------------------------------
(***************************************************************************)
(* What the firmware's comments say and the hub does not do.               *)
(***************************************************************************)

\* "the hub re-syncs through CCSDS sequence-flag rules" (door.rs): after the
\* banner of a reset, or after a byte was lost, the reader is in step again
\* within two frames.
ReaderResyncs == missed <= BannerSize \div PacketSize + 2

=============================================================================
