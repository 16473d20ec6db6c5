------------------------------ MODULE OtaCore ------------------------------
(***************************************************************************)
(* wohl-ota: the A/B update core of a sensor node, with the two flash      *)
(* banks its caller writes.                                                *)
(*                                                                         *)
(* The core only counts bytes; the flash writes, the digest of the bytes   *)
(* in the bank and the signature check belong to its caller (HAL), as the  *)
(* documentation of write_chunk and verify says.  Here the caller writes   *)
(* the bytes of every chunk the core accepts, any bytes, and computes the  *)
(* digest over the bank.  A bank holds one of Images, or Junk: a partial,  *)
(* damaged or foreign image.  The digest of an image stands for the image. *)
(***************************************************************************)
EXTENDS Integers

CONSTANTS
    Images,         \* complete images a publisher has signed off
    Junk,           \* any other content of a bank
    None,           \* Rust's Option::None
    MaxImageBytes,  \* MAX_IMAGE_BYTES
    MaxChunkBytes,  \* MAX_CHUNK_BYTES
    MaxSize,        \* bound: largest size a manifest declares or a chunk has
    ConfirmFirst    \* the caller settles a swap before the next download

ASSUME OtaAssumption ==
    /\ Junk \notin Images
    /\ None \notin Images \cup {Junk, "A", "B"}
    /\ MaxImageBytes \in Nat
    /\ MaxChunkBytes \in Nat
    /\ MaxSize \in Nat
    /\ ConfirmFirst \in BOOLEAN

VARIABLES
    active,     \* the running bank
    state,      \* OtaState
    pending,    \* manifest of the update in flight, or None
    lastSwap,   \* bank a rollback goes back to, or None
    flash       \* external: what each bank holds

vars == <<active, state, pending, lastSwap, flash>>

Slot == {"A", "B"}

\* Slot::other
Other(s) == IF s = "A" THEN "B" ELSE "A"

Content == Images \cup {Junk}

(***************************************************************************)
(* A manifest: the size it declares, the image whose digest it carries,    *)
(* and whether the verifier accepts its signature.  Only manifests for     *)
(* published images are signed.                                            *)
(***************************************************************************)
Manifest == [size : 0 .. MaxSize, digest : Content, signed : BOOLEAN]

ASSUME NoneAssumption == None \notin Manifest

Authentic(m) == m.signed => m.digest \in Images

\* OtaManifest::is_well_formed
WellFormed(m) == m.size > 0 /\ m.size <= MaxImageBytes

IdleState == [phase |-> "Idle"]

OtaState ==
    {IdleState}
        \cup [phase : {"Downloading"}, slot : Slot, received : Nat, total : Nat]
        \cup [phase : {"Verifying", "Ready"}, slot : Slot]

Idle == state.phase = "Idle"

\* A node leaves the factory with an image in the bank it runs.
Init ==
    /\ active \in Slot
    /\ state = IdleState
    /\ pending = None
    /\ lastSwap = None
    /\ flash \in [Slot -> Content]
    /\ flash[active] \in Images

-----------------------------------------------------------------------------
(***************************************************************************)
(* The public API.  A call the core refuses (WrongState, BadManifest,      *)
(* ChunkTooLarge, ChunkOverflow, Incomplete, NothingToRollback) changes    *)
(* nothing and is a stuttering step.                                       *)
(***************************************************************************)

\* Mutant: the update is streamed into the bank that runs.
StartDownloadInPlace(m) ==
    /\ Idle
    /\ WellFormed(m)
    /\ state' = [phase |-> "Downloading", slot |-> active,
                 received |-> 0, total |-> m.size]
    /\ pending' = m
    /\ UNCHANGED <<active, lastSwap, flash>>

\* The code does not look at last_swap.
StartDownload(m) ==
    /\ Idle
    /\ WellFormed(m)
    /\ state' = [phase |-> "Downloading", slot |-> Other(active),
                 received |-> 0, total |-> m.size]
    /\ pending' = m
    /\ UNCHANGED <<active, lastSwap, flash>>

\* Mutant: the declared size is not checked.
AcceptsChunkUnchecked(n) ==
    /\ n <= MaxChunkBytes
    /\ state.phase = "Downloading"

\* The checks of write_chunk: the chunk's own limit, then the state, then
\* the declared size.
AcceptsChunk(n) ==
    /\ n <= MaxChunkBytes
    /\ state.phase = "Downloading"
    /\ state.received + n <= state.total

\* write_chunk, and the bytes the caller puts into the bank.
WriteChunk(n, c) ==
    /\ AcceptsChunk(n)
    /\ state' = [state EXCEPT !.received = @ + n]
    /\ flash' = IF n = 0 THEN flash ELSE [flash EXCEPT ![state.slot] = c]
    /\ UNCHANGED <<active, pending, lastSwap>>

FinishDownload ==
    /\ state.phase = "Downloading"
    /\ state.received = state.total
    /\ state' = [phase |-> "Verifying", slot |-> state.slot]
    /\ UNCHANGED <<active, pending, lastSwap, flash>>

\* Mutant: only the signature is checked.
ImageVerifiesSignatureOnly == pending.signed

\* Signature and digest, as verify checks them.
ImageVerifies == pending.signed /\ flash[state.slot] = pending.digest

VerifyAccepts ==
    /\ state.phase = "Verifying"
    /\ ImageVerifies
    /\ state' = [phase |-> "Ready", slot |-> state.slot]
    /\ UNCHANGED <<active, pending, lastSwap, flash>>

VerifyRejects ==
    /\ state.phase = "Verifying"
    /\ ~ ImageVerifies
    /\ state' = IdleState
    /\ pending' = None
    /\ UNCHANGED <<active, lastSwap, flash>>

\* Mutant: the bank being entered is recorded instead of the one left.
SwapRecordsNew ==
    /\ state.phase = "Ready"
    /\ lastSwap' = state.slot
    /\ active' = state.slot
    /\ state' = IdleState
    /\ pending' = None
    /\ UNCHANGED flash

Swap ==
    /\ state.phase = "Ready"
    /\ lastSwap' = active
    /\ active' = state.slot
    /\ state' = IdleState
    /\ pending' = None
    /\ UNCHANGED flash

ConfirmSwap ==
    /\ Idle
    /\ lastSwap' = None
    /\ UNCHANGED <<active, state, pending, flash>>

Rollback ==
    /\ Idle
    /\ lastSwap # None
    /\ active' = lastSwap
    /\ lastSwap' = None
    /\ UNCHANGED <<state, pending, flash>>

Abort ==
    /\ state' = IdleState
    /\ pending' = None
    /\ UNCHANGED <<active, lastSwap, flash>>

\* The node restarts on the bank it ran: OtaCore::new(active).  The core
\* keeps nothing across a restart.
Restart ==
    /\ state' = IdleState
    /\ pending' = None
    /\ lastSwap' = None
    /\ UNCHANGED <<active, flash>>

\* A caller that settles every swap first is one the code does not require.
CallerStartsDownload(m) ==
    /\ Authentic(m)
    /\ ConfirmFirst => lastSwap = None
    /\ StartDownload(m)

Next ==
    \/ \E m \in Manifest : CallerStartsDownload(m)
    \/ \E n \in 0 .. MaxSize, c \in Content : WriteChunk(n, c)
    \/ FinishDownload
    \/ VerifyAccepts
    \/ VerifyRejects
    \/ Swap
    \/ ConfirmSwap
    \/ Rollback
    \/ Abort
    \/ Restart

Spec == Init /\ [][Next]_vars

-----------------------------------------------------------------------------
(***************************************************************************)
(* Properties.                                                             *)
(***************************************************************************)

\* Shape of the state: a bank in flight is always the standby bank (OTA-P01),
\* the byte count never exceeds the declared size (OTA-P03), and a manifest is
\* pending exactly while an update is in flight (the branch verify calls
\* unreachable is).
TypeOK ==
    /\ active \in Slot
    /\ state \in OtaState
    /\ pending \in Manifest \cup {None}
    /\ lastSwap \in Slot \cup {None}
    /\ flash \in [Slot -> Content]
    /\ ~ Idle => state.slot = Other(active) /\ pending # None /\ Authentic(pending)
    /\ Idle => pending = None
    /\ state.phase = "Downloading" =>
           /\ state.received <= state.total
           /\ state.total = pending.size
           /\ state.total <= MaxImageBytes

\* The bytes of the bank that runs never change under it.
RunningBankUntouched == [][flash'[active] = flash[active]]_vars

\* A bank that is Ready, so that swap would promote it, holds the very image
\* of a signed manifest: nothing can be written between verify and swap.
ReadyIsAuthentic ==
    state.phase = "Ready" => flash[state.slot] = pending.digest /\ pending.signed

\* The bank a rollback goes back to is never the one that runs; so it is
\* always the bank the next download writes.
RollbackLeavesActive == lastSwap # active

\* The node runs a complete, authentic image.  Holds when the caller confirms
\* or rolls back every swap before it starts the next download.
RunsAuthenticImage == flash[active] \in Images

\* The core implements the owner's view: the bank that runs is the image that
\* runs, and the bank recorded by the last swap is the image to go back to.
Firmware == INSTANCE FirmwareUpdate WITH
                NoImage <- None,
                running <- flash[active],
                previous <- IF lastSwap = None THEN None ELSE flash[lastSwap]

ImplementsFirmwareUpdate == Firmware!Spec

-----------------------------------------------------------------------------
(***************************************************************************)
(* What the documentation of swap says and the code does not ensure.       *)
(***************************************************************************)

\* "After a successful swap the previous active becomes the new standby
\* (still holds the prior image for rollback)": a rollback the core accepts
\* goes back to a complete image.
RollbackPromotesImage ==
    Idle /\ lastSwap # None => flash[lastSwap] \in Images

=============================================================================
