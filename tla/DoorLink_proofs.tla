--------------------------- MODULE DoorLink_proofs ---------------------------
(***************************************************************************)
(* The debouncer, for any number of stable samples: its level is that of   *)
(* the last StableTicks equal samples.  The line and its reader, for any   *)
(* sizes of packet and banner: one fresh packet puts the reader in step    *)
(* until the next disturbance.                                             *)
(***************************************************************************)
EXTENDS DoorLink, SequenceTheorems, TLAPS

\* The streak counts the samples at the end of the window that disagree with
\* the committed level, and no more of them do.
StreakCounts ==
    /\ window \in Seq(DoorLevel)
    /\ Len(window) <= StableTicks
    /\ streak <= Len(window)
    /\ \A i \in 1 .. Len(window) : i > Len(window) - streak => window[i] # committed
    /\ streak < Len(window) => window[Len(window) - streak] = committed

SettledInv ==
    /\ level \in DoorLevel
    /\ NodeTypeOK
    /\ StreakCounts
    /\ CommittedIsSettled

LEMMA SettledInit == Init => SettledInv
  BY NodeAssumption
     DEF Init, Booted, SettledInv, NodeTypeOK, StreakCounts, CommittedIsSettled, DoorLevel

\* The window after a sample, position by position.
LEMMA ObservedWindow ==
    ASSUME SettledInv, Observe
    PROVE  /\ window' \in Seq(DoorLevel)
           /\ Len(window') = IF Len(window) < StableTicks THEN Len(window) + 1 ELSE StableTicks
           /\ window'[Len(window')] = level
           /\ \A i \in 1 .. Len(window') - 1 :
                  window'[i] = window[i + Len(window) + 1 - Len(window')]
  <1>. level \in DoorLevel /\ window \in Seq(DoorLevel) /\ Len(window) <= StableTicks
    BY DEF SettledInv, StreakCounts
  <1>1. CASE Len(window) < StableTicks
    BY <1>1, NodeAssumption DEF Observe
  <1>2. CASE ~ Len(window) < StableTicks
    <2>1. Len(window) = StableTicks /\ window' = Append(Tail(window), level) /\ window # <<>>
      BY <1>2, NodeAssumption DEF Observe
    <2>2. /\ Tail(window) \in Seq(DoorLevel)
          /\ Len(Tail(window)) = StableTicks - 1
          /\ \A i \in 1 .. StableTicks - 1 : Tail(window)[i] = window[i + 1]
      BY <2>1, NodeAssumption
    <2>. QED
      BY <2>1, <2>2, NodeAssumption
  <1>. QED
    BY <1>1, <1>2

\* The window is full of one level exactly when it has StableTicks samples and
\* all are that level.
LEMMA FullWindow ==
    ASSUME window' \in Seq(DoorLevel)
    PROVE  (window' = [i \in 1 .. StableTicks |-> level]) <=>
               Len(window') = StableTicks /\ \A i \in 1 .. StableTicks : window'[i] = level
  <1>1. StableTicks \in Nat
    BY NodeAssumption
  <1>. QED
    BY <1>1

-----------------------------------------------------------------------------
LEMMA AgreesSettles ==
    ASSUME SettledInv, Agrees(level), Observe, level' = level
    PROVE  SettledInv'
  <1>1. NodeTypeOK' /\ level' \in DoorLevel /\ committed' = committed /\ streak' = 0
    BY NodeAssumption DEF SettledInv, NodeTypeOK, Agrees
  <1>2. settled' = committed'
    BY <1>1 DEF SettledInv, CommittedIsSettled, Agrees, Observe
  <1>3. StreakCounts'
    BY <1>1, ObservedWindow, NodeAssumption DEF SettledInv, StreakCounts, Agrees
  <1>. QED
    BY <1>1, <1>2, <1>3 DEF SettledInv, CommittedIsSettled

\* The streak and the sample make up the window's end.
LEMMA DisagreesSettles ==
    ASSUME SettledInv, Disagrees(level), Observe, level' = level
    PROVE  SettledInv'
  <1>1. /\ NodeTypeOK' /\ level' \in DoorLevel
        /\ committed' = committed /\ streak' = streak + 1 /\ level # committed
        /\ streak \in Nat /\ streak + 1 < StableTicks
    BY NodeAssumption DEF SettledInv, NodeTypeOK, Disagrees
  <1>2. StreakCounts'
    <2>. DEFINE old(i) == i + Len(window) + 1 - Len(window')
    <2>1. /\ Len(window) \in Nat
          /\ Len(window) <= StableTicks
          /\ streak <= Len(window)
          /\ Len(window') \in Nat
          /\ Len(window') \in {Len(window), Len(window) + 1}
          /\ streak' <= Len(window')
          /\ Len(window') <= StableTicks
      BY <1>1, ObservedWindow, NodeAssumption DEF SettledInv, StreakCounts
    <2>2. ASSUME NEW i \in 1 .. Len(window'), i > Len(window') - streak'
          PROVE  window'[i] # committed'
      <3>1. CASE i = Len(window')
        BY <1>1, <3>1, ObservedWindow
      <3>2. CASE i < Len(window')
        <4>1. old(i) \in 1 .. Len(window) /\ old(i) > Len(window) - streak
          BY <1>1, <2>1, <2>2, <3>2
        <4>2. window'[i] = window[old(i)]
          BY <2>1, <3>2, ObservedWindow
        <4>. QED
          BY <1>1, <4>1, <4>2 DEF SettledInv, StreakCounts
      <3>. QED
        BY <2>1, <3>1, <3>2
    <2>3. ASSUME streak' < Len(window')
          PROVE  window'[Len(window') - streak'] = committed'
      <3>. DEFINE i == Len(window') - streak'
      <3>1. i \in 1 .. Len(window') - 1 /\ old(i) = Len(window) - streak
        BY <1>1, <2>1, <2>3
      <3>2. window'[i] = window[old(i)]
        BY <3>1, ObservedWindow
      <3>3. streak < Len(window)
        BY <1>1, <2>1, <2>3, ObservedWindow
      <3>. QED
        BY <1>1, <3>1, <3>2, <3>3 DEF SettledInv, StreakCounts
    <2>. QED
      BY <2>1, <2>2, <2>3, ObservedWindow DEF StreakCounts
  <1>3. Len(window') = StableTicks => window'[StableTicks - streak'] = committed
    BY <1>1, <1>2, NodeAssumption DEF StreakCounts
  <1>4. window' # [i \in 1 .. StableTicks |-> level]
    BY <1>1, <1>2, <1>3, FullWindow, NodeAssumption DEF StreakCounts
  <1>5. settled' = committed'
    BY <1>1, <1>4 DEF SettledInv, CommittedIsSettled, Observe
  <1>. QED
    BY <1>1, <1>2, <1>5 DEF SettledInv, CommittedIsSettled

LEMMA ConfirmsSettles ==
    ASSUME SettledInv, Confirms(level), Observe, level' = level
    PROVE  SettledInv'
  <1>1. /\ level' \in DoorLevel /\ committed' = level /\ level # committed
        /\ streak' = 0 /\ streak = StableTicks - 1
    BY NodeAssumption DEF SettledInv, NodeTypeOK, Confirms
  <1>2. NodeTypeOK'
    BY <1>1, NodeAssumption DEF SettledInv, NodeTypeOK, Confirms
  <1>3. StreakCounts'
    BY <1>1, ObservedWindow, NodeAssumption DEF SettledInv, StreakCounts
  <1>4. \A x \in DoorLevel : x # committed => x = level
    BY <1>1 DEF SettledInv, NodeTypeOK, DoorLevel
  <1>5. Len(window') = StableTicks /\ \A i \in 1 .. StableTicks : window'[i] = level
    <2>1. Len(window') = StableTicks
      BY <1>1, ObservedWindow, NodeAssumption DEF SettledInv, StreakCounts
    <2>2. ASSUME NEW i \in 1 .. StableTicks, i < StableTicks
          PROVE  window'[i] = level
      <3>. DEFINE j == i + Len(window) + 1 - StableTicks
      <3>1. Len(window) \in Nat /\ StableTicks - 1 <= Len(window)
        BY <1>1, NodeAssumption DEF SettledInv, StreakCounts
      <3>2. j \in 1 .. Len(window) /\ j > Len(window) - streak
        BY <1>1, <2>2, <3>1, NodeAssumption
      <3>3. window'[i] = window[j]
        BY <2>1, <2>2, ObservedWindow, NodeAssumption
      <3>4. window[j] \in DoorLevel /\ window[j] # committed
        BY <3>2 DEF SettledInv, StreakCounts
      <3>. QED
        BY <3>3, <3>4, <1>4
    <2>. QED
      BY <2>1, <2>2, ObservedWindow, NodeAssumption
  <1>6. settled' = committed'
    BY <1>1, <1>5, FullWindow, ObservedWindow DEF Observe
  <1>. QED
    BY <1>1, <1>2, <1>3, <1>6 DEF SettledInv, CommittedIsSettled

LEMMA SettledNext == SettledInv /\ [Next]_vars => SettledInv'
  <1>. SUFFICES ASSUME SettledInv, [Next]_vars
                PROVE  SettledInv'
    OBVIOUS
  <1>a. ASSUME UNCHANGED <<nodeVars, window, settled>>, level' \in DoorLevel
        PROVE  SettledInv'
    BY <1>a DEF SettledInv, NodeTypeOK, StreakCounts, CommittedIsSettled, nodeVars
  <1>1. CASE DoorMoves
    BY <1>1, <1>a DEF DoorMoves, sampleVars
  <1>2. CASE SampleQuiet
    BY <1>2, AgreesSettles, DisagreesSettles DEF SampleQuiet
  <1>3. CASE SampleEdge
    BY <1>3, ConfirmsSettles DEF SampleEdge
  <1>4. CASE NodeResets
    BY <1>4, NodeAssumption
       DEF NodeResets, SettledInv, NodeTypeOK, StreakCounts, CommittedIsSettled
  <1>5. CASE Read
    BY <1>5, <1>a DEF Read, TakeByte, TakePacket, sampleVars, SettledInv
  <1>6. CASE ReadWouldBlock
    BY <1>6, <1>a DEF ReadWouldBlock, sampleVars, SettledInv
  <1>7. CASE HubRestarts
    BY <1>7, <1>a DEF HubRestarts, sampleVars, SettledInv
  <1>8. CASE UNCHANGED vars
    BY <1>8, <1>a DEF vars, sampleVars, SettledInv
  <1>. QED
    BY <1>1, <1>2, <1>3, <1>4, <1>5, <1>6, <1>7, <1>8 DEF Next, Sample

\* For any window of samples, however the contact bounces and the node resets,
\* the level the debouncer reports is the level that last settled.
THEOREM SettledHolds == Spec => []CommittedIsSettled
  <1>1. SettledInv => CommittedIsSettled
    BY DEF SettledInv
  <1>. QED
    BY SettledInit, SettledNext, <1>1, PTL DEF Spec

-----------------------------------------------------------------------------
(***************************************************************************)
(* The line.                                                               *)
(***************************************************************************)
AnyPacket == [sequence : 0 .. SequenceSpan - 1, value : DoorLevel]
AnyByte == [index : 1 .. PacketSize, packet : AnyPacket, era : Nat]
               \cup [index : {0}, packet : {<<>>}, era : Nat]

\* All the bytes written and not yet part of a frame, in order.
Stream == buf \o wire

Fresh(b) == b.era = disturbances

After(i) == IF i = PacketSize THEN 1 ELSE i + 1

LinkTypes ==
    /\ TypeOK
    /\ wire \in Seq(AnyByte)
    /\ buf \in Seq(AnyByte)
    /\ \A i \in 1 .. Len(Stream) : Stream[i].era <= disturbances

\* In a stream whose bytes of the given era are the last: from the first of
\* them on there are whole packets but for a part of one in front, and the last
\* packet reports the value.
Whole(s, era, value) ==
    /\ \A i, j \in 1 .. Len(s) : i < j /\ s[i].era = era => s[j].era = era
    /\ \A i \in 1 .. Len(s) - 1 : s[i].era = era => s[i + 1].index = After(s[i].index)
    /\ (s # <<>> /\ s[Len(s)].era = era) =>
           s[Len(s)].index = PacketSize /\ s[Len(s)].packet.value = value

\* What was written since the last disturbance, and the committed level.
FreshIsWhole == Whole(Stream, disturbances, committed)

\* A reader that has decoded a fresh packet stands where its packets begin.
ReaderInStep ==
    heard = disturbances =>
        /\ \A i \in 1 .. Len(Stream) : Fresh(Stream[i])
        /\ \A i \in 1 .. Len(buf) : buf[i].index = i
        /\ wire # <<>> => wire[1].index = Len(buf) + 1
        /\ Stream = <<>> => view = committed

LinkInv == LinkTypes /\ FreshIsWhole /\ ReaderInStep

LEMMA LinkInit == Init => LinkInv
  <1>. SUFFICES ASSUME Init PROVE LinkInv
    OBVIOUS
  <1>1. TypeOK
    BY NodeAssumption, LinkAssumption DEF Init, Booted, TypeOK, NodeTypeOK, DoorLevel
  <1>2. Stream = <<>> /\ buf = <<>> /\ wire = <<>> /\ heard # disturbances
    BY DEF Init, Stream
  <1>. QED
    BY <1>1, <1>2 DEF LinkInv, LinkTypes, FreshIsWhole, Whole, Fresh, ReaderInStep

\* Position by position, what buf and wire make together.
LEMMA StreamParts ==
    ASSUME NEW b \in Seq(AnyByte), NEW w \in Seq(AnyByte)
    PROVE  /\ b \o w \in Seq(AnyByte)
           /\ Len(b) \in Nat /\ Len(w) \in Nat /\ Len(b \o w) = Len(b) + Len(w)
           /\ \A i \in 1 .. Len(b) : (b \o w)[i] = b[i]
           /\ \A i \in 1 .. Len(w) : (b \o w)[Len(b) + i] = w[i]
  BY ConcatProperties

\* A stream that loses n bytes at its front, nothing else changing.
LEMMA FreshFromN ==
    ASSUME LinkTypes, FreshIsWhole, UNCHANGED <<committed, disturbances>>,
           NEW n \in Nat, n <= Len(Stream), Stream' \in Seq(AnyByte),
           Len(Stream') = Len(Stream) - n,
           \A i \in 1 .. Len(Stream') : Stream'[i] = Stream[i + n]
    PROVE  /\ FreshIsWhole'
           /\ \A i \in 1 .. Len(Stream') : Stream'[i].era <= disturbances'
  <1>1. /\ Stream \in Seq(AnyByte) /\ Len(Stream) \in Nat /\ Len(Stream') \in Nat
        /\ Stream' # <<>> => Len(Stream') > 0 /\ Stream # <<>>
    BY StreamParts DEF LinkTypes, Stream
  <1>2. \A i, j \in 1 .. Len(Stream') : i < j /\ Fresh(Stream[i + n]) => Fresh(Stream[j + n])
    BY <1>1 DEF FreshIsWhole, Whole, Fresh
  <1>3. ASSUME NEW i \in 1 .. Len(Stream') - 1, Fresh(Stream[i + n])
        PROVE  Stream[i + n + 1].index = After(Stream[i + n].index)
    <2>. DEFINE k == i + n
    <2>1. k \in 1 .. Len(Stream) - 1
      BY <1>1
    <2>2. Stream[k + 1].index = After(Stream[k].index)
      BY <1>3, <2>1 DEF FreshIsWhole, Whole, Fresh
    <2>. QED
      BY <2>2
  <1>4. Stream' # <<>> => Stream'[Len(Stream')] = Stream[Len(Stream)]
    BY <1>1
  <1>5. \A i \in 1 .. Len(Stream') - 1 : Stream'[i + 1] = Stream[i + n + 1]
    BY <1>1
  <1>6. \A i \in 1 .. Len(Stream') : Stream[i + n].era <= disturbances
    BY <1>1 DEF LinkTypes
  <1>7. \A i, j \in 1 .. Len(Stream') : i < j /\ Fresh(Stream[i])' => Fresh(Stream[j])'
    BY <1>2 DEF Fresh
  <1>8. \A i \in 1 .. Len(Stream') - 1 :
            Fresh(Stream[i])' => (Stream[i + 1].index)' = After(Stream[i].index)'
    <2>. SUFFICES ASSUME NEW i \in 1 .. Len(Stream') - 1, Stream'[i].era = disturbances'
                  PROVE  Stream'[i + 1].index = After(Stream'[i].index)
      BY DEF Fresh, After
    <2>1. Stream'[i] = Stream[i + n] /\ Stream'[i + 1] = Stream[i + n + 1]
      BY <1>1, <1>5
    <2>. QED
      BY <1>3, <2>1 DEF Fresh
  <1>9. Stream' # <<>> /\ Stream'[Len(Stream')].era = disturbances' =>
            /\ Stream'[Len(Stream')].index = PacketSize
            /\ Stream'[Len(Stream')].packet.value = committed'
    BY <1>1, <1>4 DEF FreshIsWhole, Whole, Fresh
  <1>. QED
    BY <1>6, <1>7, <1>8, <1>9 DEF FreshIsWhole, Whole, Fresh

\* After a disturbance nothing in the stream is fresh, nor has the reader
\* decoded anything that is.
LEMMA NothingFresh ==
    ASSUME LinkInv, Disturb, Stream' \in Seq(AnyByte), heard' = heard,
           \A i \in 1 .. Len(Stream') : Stream'[i].era <= disturbances
    PROVE  /\ FreshIsWhole'
           /\ ReaderInStep'
           /\ \A i \in 1 .. Len(Stream') : Stream'[i].era <= disturbances'
           /\ disturbances' \in 0 .. MaxDisturbances
           /\ heard' \in -1 .. disturbances'
  <1>1. /\ disturbances \in Nat /\ disturbances' = disturbances + 1
        /\ disturbances' <= MaxDisturbances
        /\ heard \in Int /\ -1 <= heard /\ heard <= disturbances
        /\ MaxDisturbances \in Nat
    BY LinkAssumption DEF LinkInv, LinkTypes, TypeOK, Disturb
  <1>2. \A i \in 1 .. Len(Stream') : Stream'[i] \in AnyByte
    OBVIOUS
  <1>3. \A i \in 1 .. Len(Stream') : Stream'[i].era \in Nat /\ Stream'[i].era # disturbances'
    BY <1>1, <1>2 DEF AnyByte
  <1>4. Stream' # <<>> => Len(Stream') \in 1 .. Len(Stream')
    OBVIOUS
  <1>5. FreshIsWhole'
    BY <1>3, <1>4 DEF FreshIsWhole, Whole, Fresh
  <1>6. ReaderInStep'
    BY <1>1 DEF ReaderInStep
  <1>. QED
    BY <1>1, <1>3, <1>5, <1>6

\* The bytes a node writes are bytes of the line, all of the present era.
LEMMA WrittenBytes ==
    ASSUME NodeTypeOK, committed' \in DoorLevel, disturbances \in Nat
    PROVE  /\ Packet \in AnyPacket
           /\ Bytes(Packet) \in Seq(AnyByte) /\ Len(Bytes(Packet)) = PacketSize
           /\ \A i \in 1 .. PacketSize :
                  /\ Bytes(Packet)[i].index = i
                  /\ Bytes(Packet)[i].packet.value = committed'
                  /\ Bytes(Packet)[i].era = disturbances
           /\ Banner \in Seq(AnyByte) /\ Len(Banner) = BannerSize
           /\ \A i \in 1 .. BannerSize : Banner[i].era = disturbances
           /\ \A r \in Remnants(Packet) :
                  /\ r \in Seq(AnyByte) /\ Len(r) <= PacketSize
                  /\ \A i \in 1 .. Len(r) : r[i].era = disturbances
  <1>. PacketSize \in Nat \ {0} /\ BannerSize \in Nat
    BY LinkAssumption
  <1>1. Packet \in AnyPacket /\ Packet.value = committed'
    BY DEF Packet, AnyPacket, NodeTypeOK
  <1>2. \A i \in 1 .. PacketSize : Byte(i, Packet) \in AnyByte
    BY <1>1 DEF Byte, AnyByte
  <1>3. /\ Bytes(Packet) \in [1 .. PacketSize -> AnyByte]
        /\ \A i \in 1 .. PacketSize : Bytes(Packet)[i] = Byte(i, Packet)
    BY <1>2 DEF Bytes
  <1>4. Bytes(Packet) \in Seq(AnyByte) /\ Len(Bytes(Packet)) = PacketSize
    BY <1>3
  <1>5. /\ Banner \in [1 .. BannerSize -> AnyByte]
        /\ \A i \in 1 .. BannerSize : Banner[i].era = disturbances
    BY DEF Banner, Byte, AnyByte
  <1>6. Banner \in Seq(AnyByte) /\ Len(Banner) = BannerSize
    BY <1>5
  <1>7. ASSUME NEW r \in Remnants(Packet)
        PROVE  /\ r \in Seq(AnyByte) /\ Len(r) <= PacketSize
               /\ \A i \in 1 .. Len(r) : r[i].era = disturbances
    <2>a. PICK n \in 0 .. PacketSize :
              \E kept \in [1 .. n -> 1 .. PacketSize] :
                  r = [i \in 1 .. n |-> Bytes(Packet)[kept[i]]]
      BY <1>7 DEF Remnants
    <2>1. PICK kept \in [1 .. n -> 1 .. PacketSize] :
              r = [i \in 1 .. n |-> Bytes(Packet)[kept[i]]]
      BY <2>a
    <2>2. \A i \in 1 .. n : r[i] \in AnyByte /\ r[i].era = disturbances
      BY <2>1, <1>3 DEF Byte
    <2>3. r \in [1 .. n -> AnyByte] /\ n \in Nat
      BY <2>1, <2>2
    <2>4. r \in Seq(AnyByte) /\ Len(r) = n
      BY <2>3
    <2>. QED
      BY <2>2, <2>4
  <1>8. \A i \in 1 .. PacketSize :
            /\ Bytes(Packet)[i].index = i
            /\ Bytes(Packet)[i].packet.value = committed'
            /\ Bytes(Packet)[i].era = disturbances
    BY <1>1, <1>3 DEF Byte
  <1>. QED
    BY <1>1, <1>4, <1>5, <1>6, <1>7, <1>8

\* What the actions need of the state before.
Positions ==
    /\ TypeOK /\ NodeTypeOK
    /\ PacketSize \in Nat \ {0} /\ BannerSize \in Nat /\ MaxWire \in Nat
    /\ MaxDisturbances \in Nat /\ disturbances \in Nat /\ heard \in Int
    /\ buf \in Seq(AnyByte) /\ wire \in Seq(AnyByte)
    /\ Stream \in Seq(AnyByte)
    /\ Len(buf) \in Nat /\ Len(wire) \in Nat /\ Len(Stream) \in Nat
    /\ Len(Stream) = Len(buf) + Len(wire)
    /\ \A i \in 1 .. Len(buf) : Stream[i] = buf[i]
    /\ \A i \in 1 .. Len(wire) : Stream[Len(buf) + i] = wire[i]
    /\ \A i \in 1 .. Len(Stream) : Stream[i].era <= disturbances

LEMMA LinkFacts == LinkInv => Positions
  BY LinkAssumption, StreamParts DEF Positions, LinkInv, LinkTypes, TypeOK, Stream

\* Nothing on the line moves.
LEMMA LineStands ==
    ASSUME LinkInv, UNCHANGED <<linkVars, committed, disturbances>>,
           NodeTypeOK', level' \in DoorLevel
    PROVE  LinkInv'
  BY DEF LinkInv, LinkTypes, TypeOK, FreshIsWhole, Whole, Fresh, ReaderInStep, Stream, Fresh, After, linkVars

LEMMA TakeByteKeeps == LinkInv /\ TakeByte => LinkInv'
  <1>. SUFFICES ASSUME LinkInv, TakeByte
                PROVE  LinkInv'
    OBVIOUS
  <1>. Positions
    BY LinkFacts
  <1>. USE DEF Positions
  <1>1. /\ wire # <<>> /\ Len(wire) > 0
        /\ Head(wire) = wire[1] /\ wire[1] \in AnyByte
        /\ wire' \in Seq(AnyByte) /\ Len(wire') = Len(wire) - 1
        /\ \A i \in 1 .. Len(wire') : wire'[i] = wire[i + 1]
    BY HeadTailProperties DEF TakeByte
  <1>2. /\ buf' \in Seq(AnyByte) /\ Len(buf') = Len(buf) + 1
        /\ \A i \in 1 .. Len(buf) : buf'[i] = buf[i]
        /\ buf'[Len(buf) + 1] = wire[1]
    BY <1>1, AppendProperties DEF TakeByte, Frame
  <1>3. /\ Stream' \in Seq(AnyByte) /\ Len(Stream') = Len(buf') + Len(wire')
        /\ \A i \in 1 .. Len(buf') : Stream'[i] = buf'[i]
        /\ \A i \in 1 .. Len(wire') : Stream'[Len(buf') + i] = wire'[i]
    BY <1>1, <1>2, StreamParts DEF Stream
  <1>4. ASSUME NEW i \in 1 .. Len(Stream)
        PROVE  Stream'[i] = Stream[i]
    <2>1. CASE i <= Len(buf)
      BY <2>1, <1>2, <1>3
    <2>2. CASE i = Len(buf) + 1
      BY <2>2, <1>1, <1>2, <1>3
    <2>3. CASE i > Len(buf) + 1
      <3>. DEFINE k == i - Len(buf) - 1
      <3>1. /\ k \in 1 .. Len(wire') /\ k + 1 \in 1 .. Len(wire)
            /\ Len(buf') + k = i /\ Len(buf) + (k + 1) = i
        BY <2>3, <1>1, <1>2
      <3>2. Stream'[Len(buf') + k] = wire'[k] /\ Stream[Len(buf) + (k + 1)] = wire[k + 1]
        BY <3>1, <1>3
      <3>. QED
        BY <3>1, <3>2, <1>1, <1>2
    <2>. QED
      BY <2>1, <2>2, <2>3
  <1>5. Stream' = Stream
    BY <1>1, <1>2, <1>3, <1>4, SeqEqual
  <1>6. FreshIsWhole' /\ \A i \in 1 .. Len(Stream') : Stream'[i].era <= disturbances'
    BY <1>5 DEF LinkInv, FreshIsWhole, Whole, Fresh, After, TakeByte, nodeVars
  <1>7. TypeOK'
    BY <1>1, <1>2 DEF TypeOK, NodeTypeOK, TakeByte, nodeVars, Frame
  <1>8. ASSUME heard = disturbances
        PROVE  /\ \A i \in 1 .. Len(buf') : buf'[i].index = i
               /\ wire' # <<>> => wire'[1].index = Len(buf') + 1
    <2>1. /\ \A i \in 1 .. Len(Stream) : Fresh(Stream[i])
          /\ \A i \in 1 .. Len(buf) : buf[i].index = i
          /\ wire[1].index = Len(buf) + 1
      BY <1>1, <1>8 DEF LinkInv, ReaderInStep
    <2>2. wire[1].index # PacketSize
      BY <1>1, <1>2, <2>1 DEF TakeByte, Frame
    <2>3. ASSUME wire' # <<>>
          PROVE  wire'[1].index = Len(buf') + 1
      <3>1. /\ Len(buf) + 1 \in 1 .. Len(Stream) - 1
            /\ Stream[Len(buf) + 1] = wire[1] /\ Stream[Len(buf) + 2] = wire[2]
            /\ wire'[1] = wire[2]
        BY <1>1, <2>3
      <3>2. Stream[Len(buf) + 1 + 1].index = After(Stream[Len(buf) + 1].index)
        BY <2>1, <3>1 DEF LinkInv, FreshIsWhole, Whole, Fresh
      <3>. QED
        BY <1>2, <2>1, <2>2, <3>1, <3>2 DEF After
    <2>4. ASSUME NEW i \in 1 .. Len(buf')
          PROVE  buf'[i].index = i
      <3>1. i \in 1 .. Len(buf) \/ i = Len(buf) + 1
        BY <1>2
      <3>. QED
        BY <1>2, <2>1, <3>1
    <2>. QED
      BY <2>3, <2>4
  <1>9. ReaderInStep'
    BY <1>1, <1>2, <1>3, <1>5, <1>8 DEF LinkInv, ReaderInStep, Fresh, TakeByte, nodeVars
  <1>. QED
    BY <1>1, <1>2, <1>6, <1>7, <1>9 DEF LinkInv, LinkTypes

LEMMA TakePacketKeeps == LinkInv /\ TakePacket => LinkInv'
  <1>. SUFFICES ASSUME LinkInv, TakePacket
                PROVE  LinkInv'
    OBVIOUS
  <1>. Positions
    BY LinkFacts
  <1>. USE DEF Positions
  <1>1. /\ wire # <<>> /\ Len(wire) > 0
        /\ Head(wire) = wire[1] /\ wire[1] \in AnyByte
        /\ wire' \in Seq(AnyByte) /\ Len(wire') = Len(wire) - 1
        /\ \A i \in 1 .. Len(wire') : wire'[i] = wire[i + 1]
    BY HeadTailProperties DEF TakePacket
  <1>2. /\ Frame \in Seq(AnyByte) /\ Len(Frame) = PacketSize /\ Len(buf) = PacketSize - 1
        /\ \A i \in 1 .. PacketSize : Frame[i] = Stream[i]
    <2>1. /\ Frame \in Seq(AnyByte) /\ Len(Frame) = Len(buf) + 1
          /\ \A i \in 1 .. Len(buf) : Frame[i] = buf[i]
          /\ Frame[Len(buf) + 1] = wire[1]
      BY <1>1, AppendProperties DEF Frame
    <2>2. Len(Frame) = PacketSize /\ Len(buf) = PacketSize - 1
      BY <2>1 DEF TakePacket
    <2>3. Stream[Len(buf) + 1] = wire[1]
      BY <1>1
    <2>4. \A i \in 1 .. PacketSize : i \in 1 .. Len(buf) \/ i = Len(buf) + 1
      BY <2>2
    <2>5. \A i \in 1 .. PacketSize : Frame[i] = Stream[i]
      BY <2>1, <2>3, <2>4
    <2>. QED
      BY <2>1, <2>2, <2>5
  <1>3. /\ buf' = <<>> /\ buf' \in Seq(AnyByte) /\ Len(buf') = 0
        /\ Stream' \in Seq(AnyByte) /\ Len(Stream') = Len(wire')
        /\ \A i \in 1 .. Len(wire') : Stream'[i] = wire'[i]
    BY <1>1, ConcatEmptySeq DEF Stream, TakePacket
  <1>4. /\ PacketSize <= Len(Stream) /\ Len(Stream') = Len(Stream) - PacketSize
        /\ UNCHANGED <<committed, disturbances>>
    BY <1>1, <1>2, <1>3 DEF TakePacket, nodeVars
  <1>5. \A i \in 1 .. Len(Stream') : Stream'[i] = Stream[i + PacketSize]
    <2>. SUFFICES ASSUME NEW i \in 1 .. Len(wire')
                  PROVE  wire[i + 1] = Stream[i + PacketSize]
      BY <1>1, <1>3
    <2>1. i + 1 \in 1 .. Len(wire) /\ Len(buf) + (i + 1) = i + PacketSize
      BY <1>1, <1>2
    <2>. QED
      BY <2>1
  <1>6. FreshIsWhole' /\ \A i \in 1 .. Len(Stream') : Stream'[i].era <= disturbances'
    BY <1>3, <1>4, <1>5, FreshFromN DEF LinkInv
  <1>7. CASE InStep(Frame) /\ view' = Last(Frame).packet.value /\ heard' = Last(Frame).era
    <2>. DEFINE b == Stream[PacketSize]
    <2>1. Last(Frame) = b /\ b.index = PacketSize /\ b \in AnyByte
      BY <1>2, <1>4, <1>7 DEF Last, InStep
    <2>2. b.packet.value \in DoorLevel /\ b.era \in Nat /\ b.era <= disturbances
      BY <1>4, <2>1 DEF AnyByte, AnyPacket
    <2>3. TypeOK'
      BY <1>1, <1>3, <1>4, <1>7, <2>1, <2>2 DEF TypeOK, NodeTypeOK, TakePacket, nodeVars
    <2>4. ASSUME heard' = disturbances'
          PROVE  /\ \A i \in 1 .. Len(Stream') : Fresh(Stream[i])'
                 /\ wire' # <<>> => wire'[1].index = 1
                 /\ Stream' = <<>> => view' = committed'
      <3>1. Fresh(b)
        BY <1>4, <1>7, <2>1, <2>4 DEF Fresh
      <3>2. \A j \in 1 .. Len(Stream) : PacketSize < j => Fresh(Stream[j])
        BY <1>4, <3>1 DEF LinkInv, FreshIsWhole, Whole, Fresh
      <3>3. \A i \in 1 .. Len(Stream') : Stream'[i].era = disturbances'
        <4>1. \A i \in 1 .. Len(Stream') :
                  i + PacketSize \in 1 .. Len(Stream) /\ PacketSize < i + PacketSize
          BY <1>1, <1>3, <1>4
        <4>2. \A i \in 1 .. Len(Stream') : Stream[i + PacketSize].era = disturbances
          BY <3>2, <4>1 DEF Fresh
        <4>. QED
          BY <1>4, <1>5, <4>2
      <3>4. ASSUME wire' # <<>>
            PROVE  wire'[1].index = 1
        <4>1. 1 \in 1 .. Len(wire') /\ PacketSize \in 1 .. Len(Stream) - 1
          BY <1>1, <1>3, <1>4, <3>4
        <4>a. wire'[1] = Stream[1 + PacketSize]
          BY <1>3, <1>5, <4>1
        <4>2. Stream[PacketSize + 1].index = After(b.index)
          BY <3>1, <4>1 DEF LinkInv, FreshIsWhole, Whole, Fresh
        <4>. QED
          BY <2>1, <4>a, <4>2 DEF After
      <3>5. ASSUME Stream' = <<>>
            PROVE  view' = committed'
        <4>1. PacketSize = Len(Stream) /\ Stream # <<>>
          BY <1>1, <1>3, <1>4, <3>5
        <4>2. b.packet.value = committed
          BY <3>1, <4>1 DEF LinkInv, FreshIsWhole, Whole, Fresh
        <4>. QED
          BY <1>4, <1>7, <2>1, <4>2
      <3>. QED
        BY <3>3, <3>4, <3>5 DEF Fresh
    <2>5. ReaderInStep'
      BY <1>3, <2>4 DEF ReaderInStep
    <2>. QED
      BY <1>1, <1>3, <1>6, <2>3, <2>5 DEF LinkInv, LinkTypes
  <1>8. CASE ~ InStep(Frame) /\ UNCHANGED <<view, heard>>
    <2>1. TypeOK'
      BY <1>1, <1>3, <1>4, <1>8 DEF TypeOK, NodeTypeOK, TakePacket, nodeVars
    <2>2. heard # disturbances
      <3>. SUFFICES ASSUME heard = disturbances
                    PROVE  InStep(Frame)
        BY <1>8
      <3>1. \A i \in 1 .. Len(buf) : buf[i].index = i /\ buf[i] = Stream[i]
        BY DEF LinkInv, ReaderInStep
      <3>2. wire[1].index = PacketSize /\ Stream[PacketSize] = wire[1]
        BY <1>1, <1>2 DEF LinkInv, ReaderInStep
      <3>3. \A i \in 1 .. PacketSize : i \in 1 .. Len(buf) \/ i = PacketSize
        BY <1>2
      <3>4. \A i \in 1 .. PacketSize : Frame[i].index = i
        BY <1>2, <3>1, <3>2, <3>3
      <3>. QED
        BY <1>2, <3>4 DEF InStep
    <2>3. ReaderInStep'
      BY <1>4, <1>8, <2>2 DEF ReaderInStep
    <2>. QED
      BY <1>1, <1>3, <1>6, <2>1, <2>3 DEF LinkInv, LinkTypes
  <1>. QED
    BY <1>7, <1>8 DEF TakePacket

\* A packet written whole goes behind whole packets.
LEMMA WholeAppend ==
    ASSUME NEW s \in Seq(AnyByte), NEW p \in Seq(AnyByte), Len(p) = PacketSize,
           NEW era, NEW value, NEW old, Whole(s, era, old),
           \A i \in 1 .. PacketSize : p[i].index = i /\ p[i].era = era,
           p[PacketSize].packet.value = value
    PROVE  Whole(s \o p, era, value)
  <1>. PacketSize \in Nat \ {0}
    BY LinkAssumption
  <1>. PICK t : t = s \o p
    OBVIOUS
  <1>1. /\ t \in Seq(AnyByte) /\ Len(t) \in Nat /\ Len(s) \in Nat /\ Len(t) = Len(s) + PacketSize
        /\ \A i \in 1 .. Len(s) : t[i] = s[i]
        /\ \A i \in 1 .. PacketSize : t[Len(s) + i] = p[i]
    BY StreamParts
  <1>2. ASSUME NEW i \in 1 .. Len(t), i > Len(s)
        PROVE  /\ i - Len(s) \in 1 .. PacketSize
               /\ t[i].index = i - Len(s) /\ t[i].era = era
    <2>. DEFINE k == i - Len(s)
    <2>1. k \in 1 .. PacketSize /\ Len(s) + k = i
      BY <1>1, <1>2
    <2>2. t[Len(s) + k] = p[k] /\ p[k].index = k /\ p[k].era = era
      BY <1>1, <2>1
    <2>. QED
      BY <2>1, <2>2
  <1>3. ASSUME NEW i \in 1 .. Len(t), NEW j \in 1 .. Len(t), i < j, t[i].era = era
        PROVE  t[j].era = era
    <2>1. CASE j > Len(s)
      BY <2>1, <1>2
    <2>2. CASE j <= Len(s)
      <3>1. i \in 1 .. Len(s) /\ j \in 1 .. Len(s)
        BY <2>2, <1>1, <1>3
      <3>. QED
        BY <1>1, <1>3, <3>1 DEF Whole
    <2>. QED
      BY <1>1, <2>1, <2>2
  <1>4. ASSUME NEW i \in 1 .. Len(t) - 1, t[i].era = era
        PROVE  t[i + 1].index = After(t[i].index)
    <2>1. CASE i < Len(s)
      <3>1. i \in 1 .. Len(s) - 1 /\ i \in 1 .. Len(s) /\ i + 1 \in 1 .. Len(s)
        BY <1>1, <2>1
      <3>2. s[i].era = era => s[i + 1].index = After(s[i].index)
        BY <3>1 DEF Whole
      <3>. QED
        BY <1>1, <1>4, <3>1, <3>2
    <2>2. CASE i = Len(s)
      <3>1. i \in 1 .. Len(s) /\ s # <<>> /\ t[i] = s[Len(s)]
        BY <2>2, <1>1
      <3>2. t[i].index = PacketSize
        BY <1>4, <3>1 DEF Whole
      <3>3. t[i + 1] = p[1] /\ p[1].index = 1
        BY <2>2, <1>1
      <3>. QED
        BY <3>2, <3>3 DEF After
    <2>3. CASE i > Len(s)
      <3>1. i \in 1 .. Len(t) /\ i + 1 \in 1 .. Len(t) /\ i + 1 > Len(s)
        BY <2>3, <1>1
      <3>2. t[i].index = i - Len(s) /\ t[i + 1].index = i + 1 - Len(s) /\ i - Len(s) < PacketSize
        BY <2>3, <1>1, <1>2, <3>1
      <3>. QED
        BY <1>1, <3>1, <3>2 DEF After
    <2>. QED
      BY <1>1, <2>1, <2>2, <2>3
  <1>5. t[Len(t)] = p[PacketSize] /\ p[PacketSize].index = PacketSize
    BY <1>1
  <1>6. Whole(t, era, value)
    BY <1>3, <1>4, <1>5 DEF Whole
  <1>. QED
    BY <1>6

LEMMA WholePacketKeeps ==
    ASSUME LinkInv, NodeTypeOK', committed' \in DoorLevel, level' \in DoorLevel,
           wire' = wire \o Bytes(Packet), Len(wire) + PacketSize <= MaxWire,
           UNCHANGED <<buf, view, heard, disturbances>>
    PROVE  LinkInv'
  <1>1. /\ TypeOK /\ NodeTypeOK /\ PacketSize \in Nat \ {0} /\ disturbances \in Nat
        /\ buf \in Seq(AnyByte) /\ wire \in Seq(AnyByte) /\ Stream \in Seq(AnyByte)
        /\ Len(buf) \in Nat /\ Len(wire) \in Nat /\ Len(Stream) \in Nat
    BY LinkFacts DEF Positions
  <1>2. PICK p \in Seq(AnyByte) :
            /\ Len(p) = PacketSize
            /\ \A i \in 1 .. PacketSize : p[i].index = i /\ p[i].era = disturbances
            /\ p[PacketSize].packet.value = committed'
            /\ wire' = wire \o p
    <2>1. PacketSize \in 1 .. PacketSize
      BY <1>1
    <2>. QED
      BY <1>1, <2>1, WrittenBytes
  <1>3. Stream' = Stream \o p
    <2>1. (buf \o wire) \o p = buf \o (wire \o p)
      BY <1>1, ConcatAssociative
    <2>2. Stream' = buf \o (wire \o p)
      BY <1>2 DEF Stream
    <2>. QED
      BY <2>1, <2>2 DEF Stream
  <1>4. FreshIsWhole'
    <2>1. Whole(Stream, disturbances, committed)
      BY DEF LinkInv, FreshIsWhole
    <2>2. Whole(Stream \o p, disturbances, committed')
      BY <1>1, <1>2, <2>1, WholeAppend
    <2>. QED
      BY <1>3, <2>2 DEF FreshIsWhole
  <1>5. /\ wire' \in Seq(AnyByte) /\ Len(wire') = Len(wire) + PacketSize
        /\ \A i \in 1 .. Len(wire) : wire'[i] = wire[i]
        /\ \A i \in 1 .. PacketSize : wire'[Len(wire) + i] = p[i]
    <2>1. /\ (wire \o p) \in Seq(AnyByte) /\ Len(wire \o p) = Len(wire) + Len(p)
          /\ \A i \in 1 .. Len(wire) : (wire \o p)[i] = wire[i]
          /\ \A i \in 1 .. Len(p) : (wire \o p)[Len(wire) + i] = p[i]
      BY <1>1, StreamParts
    <2>. QED
      BY <1>2, <2>1
  <1>6. /\ Len(Stream') \in Nat /\ Len(Stream') = Len(Stream) + PacketSize
        /\ \A i \in 1 .. Len(Stream) : Stream'[i] = Stream[i]
        /\ \A i \in 1 .. PacketSize : Stream'[Len(Stream) + i] = p[i]
    BY <1>1, <1>2, <1>3, StreamParts
  <1>7. ASSUME NEW i \in 1 .. Len(Stream')
        PROVE  \/ i \in 1 .. Len(Stream) /\ Stream'[i] = Stream[i]
               \/ Stream'[i].era = disturbances
    <2>1. CASE i <= Len(Stream)
      <3>1. i \in 1 .. Len(Stream)
        BY <1>1, <1>6, <2>1
      <3>. QED
        BY <1>6, <3>1
    <2>2. CASE i > Len(Stream)
      <3>. DEFINE k == i - Len(Stream)
      <3>1. k \in 1 .. PacketSize /\ Len(Stream) + k = i
        BY <1>1, <1>6, <2>2
      <3>2. Stream'[Len(Stream) + k] = p[k] /\ p[k].era = disturbances
        BY <1>2, <1>6, <3>1
      <3>. QED
        BY <3>1, <3>2
    <2>. QED
      BY <1>1, <1>6, <2>1, <2>2
  <1>8. \A i \in 1 .. Len(Stream') : Stream'[i].era <= disturbances'
    <2>1. \A i \in 1 .. Len(Stream) : Stream[i].era <= disturbances
      BY DEF LinkInv, LinkTypes
    <2>2. disturbances' = disturbances /\ disturbances <= disturbances
      BY <1>1
    <2>. QED
      BY <1>7, <2>1, <2>2
  <1>9. ASSUME heard = disturbances
        PROVE  /\ \A i \in 1 .. Len(Stream') : Stream'[i].era = disturbances
               /\ \A i \in 1 .. Len(buf) : buf[i].index = i
               /\ wire'[1].index = Len(buf) + 1
    <2>1. /\ \A i \in 1 .. Len(Stream) : Stream[i].era = disturbances
          /\ \A i \in 1 .. Len(buf) : buf[i].index = i
          /\ wire # <<>> => wire[1].index = Len(buf) + 1
      BY <1>9 DEF LinkInv, ReaderInStep, Fresh
    <2>2. \A i \in 1 .. Len(Stream') : Stream'[i].era = disturbances
      BY <1>7, <2>1
    <2>3. CASE wire # <<>>
      <3>1. 1 \in 1 .. Len(wire)
        BY <1>1, <2>3
      <3>. QED
        BY <1>5, <2>1, <2>2, <2>3, <3>1
    <2>4. CASE wire = <<>>
      <3>1. Len(buf) = 0
        <4>. SUFFICES ASSUME Len(buf) > 0
                      PROVE  FALSE
          BY <1>1
        <4>1. Stream = buf /\ buf # <<>> /\ Len(buf) \in 1 .. Len(buf)
          BY <1>1, <2>4, ConcatEmptySeq DEF Stream
        <4>2. Stream[Len(Stream)].era = disturbances
          BY <2>1, <4>1
        <4>3. buf[Len(buf)].index = PacketSize
          BY <4>1, <4>2 DEF LinkInv, FreshIsWhole, Whole
        <4>. QED
          BY <1>1, <2>1, <4>1, <4>3 DEF TypeOK
      <3>2. 1 \in 1 .. PacketSize /\ Len(wire) = 0
        BY <1>1, <2>4
      <3>3. wire'[Len(wire) + 1] = p[1] /\ p[1].index = 1 /\ Len(wire) + 1 = 1
        BY <1>2, <1>5, <3>2
      <3>4. wire'[1].index = 1
        BY <3>3
      <3>5. Len(buf) + 1 = 1
        BY <3>1
      <3>6. wire'[1].index = Len(buf) + 1
        BY <3>4, <3>5
      <3>. QED
        BY <2>1, <2>2, <3>6
    <2>. QED
      BY <2>3, <2>4
  <1>10. ReaderInStep'
    <2>1. Stream' # <<>>
      BY <1>1, <1>6
    <2>. QED
      BY <1>9, <2>1 DEF ReaderInStep, Fresh
  <1>11. TypeOK'
    BY <1>1, <1>5 DEF TypeOK
  <1>. QED
    BY <1>1, <1>4, <1>5, <1>8, <1>10, <1>11 DEF LinkInv, LinkTypes

\* A disturbance appends bytes r of its own era, or none, or drops what the
\* reader holds.
LEMMA DisturbanceKeeps ==
    ASSUME LinkInv, Disturb, heard' = heard, NodeTypeOK',
           level' \in DoorLevel, view' \in DoorLevel,
           buf' = buf \/ buf' = <<>>,
           NEW r \in Seq(AnyByte), wire' = wire \o r,
           \A i \in 1 .. Len(r) : r[i].era = disturbances,
           Len(wire) + Len(r) <= MaxWire
    PROVE  LinkInv'
  <1>. Positions
    BY LinkFacts
  <1>. USE DEF Positions
  <1>1. /\ wire' \in Seq(AnyByte) /\ Len(wire') = Len(wire) + Len(r)
        /\ \A i \in 1 .. Len(wire) : wire'[i] = wire[i]
        /\ \A i \in 1 .. Len(r) : wire'[Len(wire) + i] = r[i]
    BY StreamParts
  <1>2. /\ buf' \in Seq(AnyByte) /\ Len(buf') \in Nat /\ Len(buf') < PacketSize
        /\ \A i \in 1 .. Len(buf') : buf'[i].era <= disturbances
    <2>1. CASE buf' = buf
      <3>1. \A i \in 1 .. Len(buf) : i \in 1 .. Len(Stream) /\ Stream[i] = buf[i]
        OBVIOUS
      <3>2. Len(buf) < PacketSize
        BY DEF TypeOK
      <3>. QED
        BY <2>1, <3>1, <3>2
    <2>2. CASE buf' = <<>>
      <3>1. /\ buf' \in Seq(AnyByte) /\ Len(buf') = 0
        BY <2>2
      <3>. QED
        BY <3>1
    <2>. QED
      BY <2>1, <2>2
  <1>3. \A i \in 1 .. Len(wire) : wire[i].era <= disturbances
    <2>. SUFFICES ASSUME NEW i \in 1 .. Len(wire)
                  PROVE  wire[i].era <= disturbances
      OBVIOUS
    <2>1. Len(buf) + i \in 1 .. Len(Stream) /\ Stream[Len(buf) + i] = wire[i]
      OBVIOUS
    <2>. QED
      BY <2>1
  <1>4. ASSUME NEW i \in 1 .. Len(wire')
        PROVE  wire'[i].era <= disturbances
    <2>1. CASE i <= Len(wire)
      BY <2>1, <1>1, <1>3
    <2>2. CASE i > Len(wire)
      <3>. DEFINE k == i - Len(wire)
      <3>1. k \in 1 .. Len(r) /\ Len(wire) + k = i
        BY <2>2, <1>1
      <3>2. wire'[Len(wire) + k] = r[k] /\ r[k].era = disturbances
        BY <3>1, <1>1
      <3>3. wire'[i].era = disturbances
        BY <3>1, <3>2
      <3>. QED
        BY <3>3
    <2>. QED
      BY <2>1, <2>2
  <1>5. /\ Stream' \in Seq(AnyByte) /\ Len(Stream') = Len(buf') + Len(wire')
        /\ \A i \in 1 .. Len(buf') : Stream'[i] = buf'[i]
        /\ \A i \in 1 .. Len(wire') : Stream'[Len(buf') + i] = wire'[i]
    BY <1>1, <1>2, StreamParts DEF Stream
  <1>6. ASSUME NEW i \in 1 .. Len(Stream')
        PROVE  Stream'[i].era <= disturbances
    <2>1. CASE i <= Len(buf')
      BY <2>1, <1>2, <1>5
    <2>2. CASE i > Len(buf')
      <3>. DEFINE k == i - Len(buf')
      <3>1. k \in 1 .. Len(wire') /\ Len(buf') + k = i
        BY <2>2, <1>1, <1>2, <1>5
      <3>2. Stream'[Len(buf') + k] = wire'[k] /\ wire'[k].era <= disturbances
        BY <3>1, <1>4, <1>5
      <3>. QED
        BY <3>1, <3>2
    <2>. QED
      BY <1>2, <2>1, <2>2
  <1>7. /\ FreshIsWhole' /\ ReaderInStep'
        /\ \A i \in 1 .. Len(Stream') : Stream'[i].era <= disturbances'
        /\ disturbances' \in 0 .. MaxDisturbances
        /\ heard' \in -1 .. disturbances'
    BY <1>5, <1>6, NothingFresh
  <1>8. TypeOK'
    BY <1>1, <1>2, <1>7 DEF TypeOK
  <1>. QED
    BY <1>1, <1>2, <1>7, <1>8 DEF LinkInv, LinkTypes

LEMMA LinkNext == LinkInv /\ [Next]_vars => LinkInv'
  <1>. SUFFICES ASSUME LinkInv, [Next]_vars
                PROVE  LinkInv'
    OBVIOUS
  <1>. Positions
    BY LinkFacts
  <1>0. /\ NodeTypeOK /\ level \in DoorLevel /\ view \in DoorLevel
        /\ committed \in DoorLevel /\ disturbances \in Nat /\ PacketSize \in Nat
        /\ BannerSize \in Nat /\ Len(wire) \in Nat /\ MaxWire \in Nat
        /\ wire \in Seq(AnyByte) /\ Len(wire) <= MaxWire
    BY DEF Positions, TypeOK, NodeTypeOK
  <1>1. CASE DoorMoves
    BY <1>0, <1>1, LineStands DEF DoorMoves, nodeVars, NodeTypeOK
  <1>2. CASE SampleQuiet
    <2>1. NodeTypeOK'
      BY <1>0, <1>2, NodeAssumption DEF SampleQuiet, Agrees, Disagrees, NodeTypeOK
    <2>. QED
      BY <1>0, <1>2, <2>1, LineStands DEF SampleQuiet, Agrees, Disagrees
  <1>3. CASE SampleEdge
    <2>1. NodeTypeOK' /\ committed' \in DoorLevel /\ level' \in DoorLevel
      BY <1>0, <1>3, NodeAssumption DEF SampleEdge, Confirms, NodeTypeOK
    <2>2. CASE wire' = wire \o Bytes(Packet) /\ UNCHANGED disturbances
      BY <1>3, <2>1, <2>2, WholePacketKeeps DEF SampleEdge
    <2>3. CASE \E r \in Remnants(Packet) : wire' = wire \o r /\ Disturb
      <3>1. PICK r \in Remnants(Packet) : wire' = wire \o r /\ Disturb
        BY <2>3
      <3>2. /\ r \in Seq(AnyByte) /\ Len(r) <= PacketSize /\ Len(r) \in Nat
            /\ \A i \in 1 .. Len(r) : r[i].era = disturbances
        BY <1>0, <2>1, WrittenBytes
      <3>3. Len(wire) + Len(r) <= MaxWire
        BY <1>0, <1>3, <3>2 DEF SampleEdge
      <3>4. view' \in DoorLevel /\ heard' = heard /\ buf' = buf
        BY <1>0, <1>3 DEF SampleEdge
      <3>. QED
        BY <2>1, <3>1, <3>2, <3>3, <3>4, DisturbanceKeeps
    <2>. QED
      BY <1>3, <2>2, <2>3 DEF SampleEdge
  <1>4. CASE Read
    BY <1>4, TakeByteKeeps, TakePacketKeeps DEF Read
  <1>5. CASE NodeResets
    <2>1. NodeTypeOK' /\ level' \in DoorLevel /\ view' \in DoorLevel
      BY <1>0, <1>5, NodeAssumption DEF NodeResets, NodeTypeOK
    <2>2. /\ Banner \in Seq(AnyByte) /\ Len(Banner) = BannerSize
          /\ \A i \in 1 .. Len(Banner) : Banner[i].era = disturbances
      BY <1>0, <2>1, WrittenBytes DEF NodeTypeOK
    <2>3. /\ Disturb /\ heard' = heard /\ buf' = buf /\ wire' = wire \o Banner
          /\ Len(wire) + Len(Banner) <= MaxWire
      BY <1>5, <2>2 DEF NodeResets
    <2>. QED
      BY <2>1, <2>2, <2>3, DisturbanceKeeps
  <1>6. CASE ReadWouldBlock \/ HubRestarts
    <2>1. /\ NodeTypeOK' /\ level' \in DoorLevel /\ view' \in DoorLevel
          /\ Disturb /\ heard' = heard /\ buf' = <<>> /\ wire' = wire
      BY <1>0, <1>6 DEF ReadWouldBlock, HubRestarts, NodeTypeOK, nodeVars, DoorLevel
    <2>2. PICK r : r = <<>>
      OBVIOUS
    <2>3. /\ wire' = wire \o r /\ r \in Seq(AnyByte) /\ Len(r) = 0
          /\ \A i \in 1 .. Len(r) : r[i].era = disturbances
          /\ Len(wire) + Len(r) <= MaxWire
      BY <1>0, <2>1, <2>2, ConcatEmptySeq
    <2>. QED
      BY <2>1, <2>3, DisturbanceKeeps
  <1>7. CASE UNCHANGED vars
    BY <1>0, <1>7, LineStands DEF vars, nodeVars, NodeTypeOK
  <1>. QED
    BY <1>1, <1>2, <1>3, <1>4, <1>5, <1>6, <1>7 DEF Next, Sample

\* The node, the line and the reader keep to their types, however bytes are
\* lost, the node resets and the hub restarts.
THEOREM LinkTypeCorrect == Spec => []TypeOK
  <1>1. LinkInv => TypeOK
    BY DEF LinkInv, LinkTypes
  <1>. QED
    BY LinkInit, LinkNext, <1>1, PTL DEF Spec

\* For any sizes of packet, banner and line: once the hub has decoded a packet
\* written after the last disturbance, an empty line means that its view of the
\* door is the node's.
THEOREM CurrentViewHolds == Spec => []ViewIsCurrent
  <1>1. ASSUME LinkInv, wire = <<>>, buf = <<>>, heard = disturbances
        PROVE  view = committed
    <2>1. Stream = <<>>
      BY <1>1, ConcatEmptySeq DEF Stream
    <2>. QED
      BY <1>1, <2>1 DEF LinkInv, ReaderInStep
  <1>2. LinkInv => ViewIsCurrent
    BY <1>1 DEF ViewIsCurrent
  <1>. QED
    BY LinkInit, LinkNext, <1>2, PTL DEF Spec

=============================================================================
