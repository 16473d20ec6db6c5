--------------------------- MODULE OtaCore_proofs ---------------------------
(***************************************************************************)
(* The update core, for every set of images and every size limit: type     *)
(* correctness with OTA-P01 and OTA-P03, what Ready promises, and, for a   *)
(* caller that settles every swap before the next download, the owner's    *)
(* view of the update.                                                     *)
(***************************************************************************)
EXTENDS OtaCore, TLAPS

LEMMA OtherSlot ==
    \A s \in Slot : /\ Other(s) \in Slot
                    /\ Other(s) # s
                    /\ Other(Other(s)) = s
  BY DEF Slot, Other

\* The three shapes of the state, told apart by their phase.
LEMMA StateShapes ==
    ASSUME state \in OtaState
    PROVE  /\ state.phase \in {"Idle", "Downloading", "Verifying", "Ready"}
           /\ Idle => state = IdleState
           /\ state.phase = "Downloading" =>
                /\ state \in [phase : {"Downloading"}, slot : Slot,
                              received : Nat, total : Nat]
           /\ state.phase \in {"Verifying", "Ready"} =>
                state \in [phase : {"Verifying", "Ready"}, slot : Slot]
  BY DEF OtaState, IdleState, Idle

-----------------------------------------------------------------------------
LEMMA TypeInit == Init => TypeOK
  BY OtaAssumption DEF Init, TypeOK, OtaState, IdleState, Idle

LEMMA TypeNext == TypeOK /\ [Next]_vars => TypeOK'
<1> SUFFICES ASSUME TypeOK, [Next]_vars PROVE TypeOK'
  OBVIOUS
<1>0. state \in OtaState
  BY DEF TypeOK
<1>1. ASSUME NEW m \in Manifest, CallerStartsDownload(m)
      PROVE  TypeOK'
  <2>1. state' = [phase |-> "Downloading", slot |-> Other(active),
                  received |-> 0, total |-> m.size]
    BY <1>1 DEF CallerStartsDownload, StartDownload
  <2>2. m.size \in Nat /\ m.size <= MaxImageBytes
    BY <1>1, OtaAssumption DEF CallerStartsDownload, StartDownload, WellFormed, Manifest
  <2>3. state' \in [phase : {"Downloading"}, slot : Slot, received : Nat, total : Nat]
    BY <2>1, <2>2, OtherSlot DEF TypeOK
  <2>4. state'.phase = "Downloading" /\ state'.slot = Other(active)
        /\ state'.received = 0 /\ state'.total = m.size
    BY <2>1
  <2>5. UNCHANGED <<active, lastSwap, flash>> /\ pending' = m /\ Authentic(m)
    BY <1>1 DEF CallerStartsDownload, StartDownload
  <2>6. m # None
    BY NoneAssumption
  <2>7. QED
    BY <2>2, <2>3, <2>4, <2>5, <2>6 DEF TypeOK, OtaState, Idle
<1>2. ASSUME NEW n \in 0 .. MaxSize, NEW c \in Content, WriteChunk(n, c)
      PROVE  TypeOK'
  <2>1. state \in [phase : {"Downloading"}, slot : Slot, received : Nat, total : Nat]
    BY <1>0, <1>2, StateShapes DEF WriteChunk, AcceptsChunk
  <2>2. state' = [state EXCEPT !.received = @ + n]
    BY <1>2 DEF WriteChunk
  <2>3. /\ state' \in [phase : {"Downloading"}, slot : Slot, received : Nat, total : Nat]
        /\ state'.phase = "Downloading" /\ state'.slot = state.slot
        /\ state'.received = state.received + n /\ state'.total = state.total
    BY <2>1, <2>2, OtaAssumption
  <2>4. flash' \in [Slot -> Content]
    BY <1>2, <2>1 DEF WriteChunk, TypeOK
  <2>5. state.received + n <= state.total
    BY <1>2 DEF WriteChunk, AcceptsChunk
  <2>6. UNCHANGED <<active, pending, lastSwap>>
    BY <1>2 DEF WriteChunk
  <2>7. QED
    BY <2>1, <2>3, <2>4, <2>5, <2>6 DEF TypeOK, OtaState, Idle, Authentic
<1>3. ASSUME FinishDownload \/ VerifyAccepts
      PROVE  TypeOK'
  <2>1. state.slot \in Slot /\ ~ Idle
    BY <1>0, <1>3, StateShapes DEF FinishDownload, VerifyAccepts, Idle
  <2>2. /\ state' \in [phase : {"Verifying", "Ready"}, slot : Slot]
        /\ state'.phase \in {"Verifying", "Ready"}
        /\ state'.slot = state.slot
    BY <1>3, <2>1 DEF FinishDownload, VerifyAccepts
  <2>3. UNCHANGED <<active, pending, lastSwap, flash>>
    BY <1>3 DEF FinishDownload, VerifyAccepts
  <2>4. QED
    BY <2>1, <2>2, <2>3 DEF TypeOK, OtaState, Idle, Authentic
<1>4. CASE VerifyRejects \/ Abort \/ Restart
  BY <1>4 DEF VerifyRejects, Abort, Restart, TypeOK, OtaState, IdleState, Idle, Authentic
<1>5. CASE Swap
  <2>1. state.slot \in Slot
    BY <1>0, <1>5, StateShapes DEF Swap
  <2>2. QED
    BY <1>5, <2>1 DEF Swap, TypeOK, OtaState, IdleState, Idle, Authentic
<1>6. CASE ConfirmSwap
  BY <1>6 DEF ConfirmSwap, TypeOK, Idle, Authentic
<1>7. CASE Rollback
  BY <1>7 DEF Rollback, TypeOK, Idle, Authentic
<1>8. CASE UNCHANGED vars
  BY <1>8 DEF vars, TypeOK, Idle, Authentic
<1>9. QED
  BY <1>1, <1>2, <1>3, <1>4, <1>5, <1>6, <1>7, <1>8 DEF Next

\* The bank in flight is the standby bank, the byte count stays within the
\* declared size, and a manifest is pending exactly during an update.
THEOREM TypeCorrect == Spec => []TypeOK
  BY TypeInit, TypeNext, PTL DEF Spec

-----------------------------------------------------------------------------
(***************************************************************************)
(* What Ready promises, and where a rollback goes: no caller discipline is *)
(* needed.                                                                 *)
(***************************************************************************)
BankInv ==
    /\ TypeOK
    /\ ReadyIsAuthentic
    /\ RollbackLeavesActive

LEMMA BankInit == Init => BankInv
  BY TypeInit, OtaAssumption
     DEF Init, BankInv, ReadyIsAuthentic, RollbackLeavesActive, IdleState, Slot

LEMMA BankNext == BankInv /\ [Next]_vars => BankInv'
<1> SUFFICES ASSUME BankInv, [Next]_vars
             PROVE  ReadyIsAuthentic' /\ RollbackLeavesActive'
  BY TypeNext DEF BankInv
<1>0. TypeOK /\ ReadyIsAuthentic /\ RollbackLeavesActive
  BY DEF BankInv
<1>1. ASSUME NEW m \in Manifest, CallerStartsDownload(m)
      PROVE  ReadyIsAuthentic' /\ RollbackLeavesActive'
  BY <1>0, <1>1
     DEF CallerStartsDownload, StartDownload, ReadyIsAuthentic, RollbackLeavesActive
<1>2. ASSUME NEW n \in 0 .. MaxSize, NEW c \in Content, WriteChunk(n, c)
      PROVE  ReadyIsAuthentic' /\ RollbackLeavesActive'
  <2>1. state \in [phase : {"Downloading"}, slot : Slot, received : Nat, total : Nat]
    BY <1>0, <1>2, StateShapes DEF WriteChunk, AcceptsChunk, TypeOK
  <2>2. state'.phase = "Downloading"
    BY <1>2, <2>1 DEF WriteChunk
  <2>3. QED
    BY <1>0, <1>2, <2>2 DEF WriteChunk, ReadyIsAuthentic, RollbackLeavesActive
<1>3. CASE FinishDownload
  BY <1>0, <1>3 DEF FinishDownload, ReadyIsAuthentic, RollbackLeavesActive
<1>4. CASE VerifyAccepts
  BY <1>0, <1>4
     DEF VerifyAccepts, ImageVerifies, ReadyIsAuthentic, RollbackLeavesActive
<1>5. CASE VerifyRejects \/ Abort
  BY <1>0, <1>5
     DEF VerifyRejects, Abort, IdleState, ReadyIsAuthentic, RollbackLeavesActive
<1>6. CASE Restart
  BY <1>0, <1>6, OtaAssumption
     DEF Restart, IdleState, TypeOK, Slot, ReadyIsAuthentic, RollbackLeavesActive
<1>7. CASE Swap
  \* The bank left is not the bank entered: the standby bank was in flight.
  <2>1. state.slot = Other(active) /\ active \in Slot
    BY <1>0, <1>7 DEF Swap, TypeOK, Idle
  <2>2. QED
    BY <1>7, <2>1, OtherSlot
       DEF Swap, IdleState, ReadyIsAuthentic, RollbackLeavesActive
<1>8. CASE ConfirmSwap \/ Rollback
  BY <1>0, <1>8, OtaAssumption
     DEF ConfirmSwap, Rollback, TypeOK, Slot, Idle, ReadyIsAuthentic, RollbackLeavesActive
<1>9. CASE UNCHANGED vars
  BY <1>0, <1>9 DEF vars, ReadyIsAuthentic, RollbackLeavesActive
<1>10. QED
  BY <1>1, <1>2, <1>3, <1>4, <1>5, <1>6, <1>7, <1>8, <1>9 DEF Next

\* A bank the core offers to swap holds the image of a signed manifest,
\* whoever calls the core and in whatever order.
THEOREM ReadyHolds == Spec => []ReadyIsAuthentic
<1>1. BankInv => ReadyIsAuthentic
  BY DEF BankInv
<1>2. QED
  BY <1>1, BankInit, BankNext, PTL DEF Spec

\* A rollback always leaves the bank that runs.
THEOREM RollbackHolds == Spec => []RollbackLeavesActive
<1>1. BankInv => RollbackLeavesActive
  BY DEF BankInv
<1>2. QED
  BY <1>1, BankInit, BankNext, PTL DEF Spec

\* No step, of the core or of its caller, changes the bytes of the bank that
\* runs.
THEOREM RunningBankHolds == Spec => RunningBankUntouched
<1>1. TypeOK /\ [Next]_vars => [flash'[active] = flash[active]]_vars
  <2> SUFFICES ASSUME TypeOK, [Next]_vars
               PROVE  flash'[active] = flash[active]
    OBVIOUS
  <2>1. ASSUME NEW n \in 0 .. MaxSize, NEW c \in Content, WriteChunk(n, c)
        PROVE  flash'[active] = flash[active]
    <3>1. state.slot = Other(active) /\ active \in Slot /\ flash \in [Slot -> Content]
      BY <2>1 DEF WriteChunk, AcceptsChunk, TypeOK, Idle
    <3>2. QED
      BY <2>1, <3>1, OtherSlot DEF WriteChunk
  <2>2. QED
    BY <2>1
       DEF Next, CallerStartsDownload, StartDownload, FinishDownload, VerifyAccepts,
           VerifyRejects, Swap, ConfirmSwap, Rollback, Abort, Restart, vars
<1>2. QED
  BY <1>1, TypeCorrect, PTL DEF Spec, RunningBankUntouched

-----------------------------------------------------------------------------
(***************************************************************************)
(* The owner's view.  It needs the caller to settle every swap: between    *)
(* swap and confirm_swap a download would write the very bank a rollback   *)
(* goes back to.  The inductive invariant therefore says that, as long as  *)
(* a swap is unsettled, the core is idle and the bank left is intact.      *)
(***************************************************************************)
IntactWindow == lastSwap # None => Idle /\ flash[lastSwap] \in Images

OwnerInv ==
    /\ BankInv
    /\ RunsAuthenticImage
    /\ IntactWindow

LEMMA OwnerInit == Init => OwnerInv
  BY BankInit DEF Init, OwnerInv, RunsAuthenticImage, IntactWindow

LEMMA OwnerNext ==
    ASSUME ConfirmFirst
    PROVE  OwnerInv /\ [Next]_vars => OwnerInv'
<1> SUFFICES ASSUME OwnerInv, [Next]_vars
             PROVE  RunsAuthenticImage' /\ IntactWindow'
  BY BankNext DEF OwnerInv
<1>0. BankInv /\ RunsAuthenticImage /\ IntactWindow
  BY DEF OwnerInv
<1>1. ASSUME NEW m \in Manifest, CallerStartsDownload(m)
      PROVE  RunsAuthenticImage' /\ IntactWindow'
  BY <1>0, <1>1
     DEF CallerStartsDownload, StartDownload, RunsAuthenticImage, IntactWindow
<1>2. ASSUME NEW n \in 0 .. MaxSize, NEW c \in Content, WriteChunk(n, c)
      PROVE  RunsAuthenticImage' /\ IntactWindow'
  <2>1. /\ state.slot = Other(active) /\ active \in Slot
        /\ flash \in [Slot -> Content] /\ ~ Idle
    BY <1>0, <1>2 DEF WriteChunk, AcceptsChunk, BankInv, TypeOK, Idle
  <2>2. flash'[active] = flash[active]
    BY <1>2, <2>1, OtherSlot DEF WriteChunk
  <2>3. QED
    BY <1>0, <1>2, <2>1, <2>2 DEF WriteChunk, RunsAuthenticImage, IntactWindow
<1>3. CASE FinishDownload \/ VerifyAccepts
  BY <1>0, <1>3
     DEF FinishDownload, VerifyAccepts, RunsAuthenticImage, IntactWindow, Idle
<1>4. CASE VerifyRejects \/ Abort \/ Restart
  BY <1>0, <1>4
     DEF VerifyRejects, Abort, Restart, RunsAuthenticImage, IntactWindow, Idle, IdleState
<1>5. CASE Swap
  <2>1. flash[state.slot] \in Images
    BY <1>0, <1>5
       DEF Swap, BankInv, TypeOK, Idle, Authentic, ReadyIsAuthentic
  <2>2. QED
    BY <1>0, <1>5, <2>1
       DEF Swap, RunsAuthenticImage, IntactWindow, Idle, IdleState
<1>6. CASE ConfirmSwap \/ Rollback
  BY <1>0, <1>6 DEF ConfirmSwap, Rollback, RunsAuthenticImage, IntactWindow
<1>7. CASE UNCHANGED vars
  BY <1>0, <1>7 DEF vars, RunsAuthenticImage, IntactWindow, Idle
<1>8. QED
  BY <1>1, <1>2, <1>3, <1>4, <1>5, <1>6, <1>7 DEF Next

\* A node whose caller settles every swap always runs a complete, authentic
\* image.
THEOREM OwnerRunsAuthentic ==
    ASSUME ConfirmFirst
    PROVE  Spec => []RunsAuthenticImage
<1>1. OwnerInv => RunsAuthenticImage
  BY DEF OwnerInv
<1>2. QED
  BY <1>1, OwnerInit, OwnerNext, PTL DEF Spec

-----------------------------------------------------------------------------
\* Every step of the core is an install, a confirmation or a revert of the
\* owner's view, or invisible to it.
LEMMA StepRefines ==
    ASSUME ConfirmFirst
    PROVE  OwnerInv /\ [Next]_vars => [Firmware!Next]_(Firmware!firmwareVars)
<1> SUFFICES ASSUME OwnerInv, [Next]_vars
             PROVE  [Firmware!Next]_(Firmware!firmwareVars)
  OBVIOUS
<1> USE DEF Firmware!Next, Firmware!firmwareVars
<1>1. ASSUME NEW m \in Manifest, CallerStartsDownload(m)
      PROVE  UNCHANGED Firmware!firmwareVars
  BY <1>1 DEF CallerStartsDownload, StartDownload
<1>2. ASSUME NEW n \in 0 .. MaxSize, NEW c \in Content, WriteChunk(n, c)
      PROVE  UNCHANGED Firmware!firmwareVars
  <2>1. /\ state.slot = Other(active) /\ active \in Slot
        /\ flash \in [Slot -> Content] /\ ~ Idle
    BY <1>2 DEF WriteChunk, AcceptsChunk, OwnerInv, BankInv, TypeOK, Idle
  <2>2. lastSwap = None /\ lastSwap' = None /\ active' = active
    BY <1>2, <2>1 DEF WriteChunk, OwnerInv, IntactWindow
  <2>3. flash'[active] = flash[active]
    BY <1>2, <2>1, OtherSlot DEF WriteChunk
  <2>4. QED
    BY <2>2, <2>3
<1>3. CASE FinishDownload \/ VerifyAccepts \/ VerifyRejects \/ Abort
  BY <1>3 DEF FinishDownload, VerifyAccepts, VerifyRejects, Abort
<1>4. CASE Swap
  <2>1. flash[state.slot] \in Images
    BY <1>4 DEF Swap, OwnerInv, BankInv, TypeOK, Idle, Authentic, ReadyIsAuthentic
  <2>2. lastSwap' # None
    BY <1>4, OtaAssumption DEF Swap, OwnerInv, BankInv, TypeOK, Slot
  <2>3. Firmware!Install
    BY <1>4, <2>1, <2>2 DEF Swap, Firmware!Install
  <2>4. QED
    BY <2>3
<1>5. CASE ConfirmSwap \/ Restart
  BY <1>5 DEF ConfirmSwap, Restart, Firmware!Confirm
<1>6. CASE Rollback
  <2>1. flash[lastSwap] # None
    BY <1>6, OtaAssumption DEF Rollback, OwnerInv, IntactWindow
  <2>2. Firmware!Revert
    BY <1>6, <2>1 DEF Rollback, Firmware!Revert
  <2>3. QED
    BY <2>2
<1>7. CASE UNCHANGED vars
  BY <1>7 DEF vars
<1>8. QED
  BY <1>1, <1>2, <1>3, <1>4, <1>5, <1>6, <1>7 DEF Next

\* For a caller that settles every swap, the core implements the owner's
\* view of an update: a revert brings back the very image that ran before.
THEOREM OwnerView ==
    ASSUME ConfirmFirst
    PROVE  Spec => ImplementsFirmwareUpdate
<1>1. Init => Firmware!Init
  BY DEF Init, Firmware!Init
<1>2. QED
  BY <1>1, StepRefines, OwnerInit, OwnerNext, PTL
     DEF Spec, ImplementsFirmwareUpdate, Firmware!Spec

=============================================================================
