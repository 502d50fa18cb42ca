------------------------------ MODULE LidarQueue -----------------------------
(***************************************************************************)
(* The point-cloud queue of one lidar (livox_ros_driver2, comm/ldq.cpp): a *)
(* lock-free ring buffer between the thread that pushes frames             *)
(* (Lds::PushLidarData, called by PubHandler's packet thread) and the      *)
(* thread that polls them (Lddc::PollingLidarPointCloudData).              *)
(*                                                                         *)
(* Both indices run freely over the range of their integer type and are    *)
(* masked into the buffer on each use.  Neither thread takes a lock, so    *)
(* filling a slot, emptying one and moving an index are separate steps,    *)
(* and a frame's two parts (its header, base_time and points_num, and its  *)
(* points) are copied in separate steps.  The stores of one thread are     *)
(* seen by the other in program order.                                     *)
(***************************************************************************)
EXTENDS Integers, Sequences

CONSTANTS
  Frames,      \* the frames that can be pushed
  NoFrame,     \* what a slot or a local packet holds before its first frame
  Size,        \* the number of slots InitQueue allocates
  IndexRange   \* how many values an index has: 2^32 in the code

(* A queue size is a power of two below the index range, itself a power    *)
(* of two: the sizes divide the range, and masking an index is taking it   *)
(* modulo the size.                                                        *)
ASSUME QueueAssumption ==
  /\ NoFrame \notin Frames
  /\ Size \in Nat \ {0}
  /\ IndexRange \in Nat
  /\ \E k \in 2 .. IndexRange : IndexRange = k * Size

VARIABLES
  storage,     \* storage_packet: slot -> the frames its header and points are of
  allocated,   \* storage_packet # nullptr
  rd_idx, wr_idx, mask,
  push_pc,     \* where the pushing thread is in PushLidarData
  frame,       \* the frame PushLidarData was called with, or NoFrame
  poll_pc,     \* where the polling thread is in QueuePop
  pkg,         \* the polling thread's local StoragePacket
  popped       \* the packet QueuePop returned last

queue_vars == <<storage, allocated, rd_idx, wr_idx, mask>>
push_vars == <<push_pc, frame>>
poll_vars == <<poll_pc, pkg, popped>>
vars == <<queue_vars, push_vars, poll_vars>>

Slots == 0 .. Size - 1
Indices == 0 .. IndexRange - 1

(* A packet whose header is of one frame and whose points may be of        *)
(* another: what a reader sees of a slot that is being overwritten.        *)
Packet == [header : Frames \cup {NoFrame}, points : Frames \cup {NoFrame}]
Blank == [header |-> NoFrame, points |-> NoFrame]
Whole(f) == [header |-> f, points |-> f]

-----------------------------------------------------------------------------
(* The queue functions of ldq.cpp.                                         *)

SlotOf(index) == index % (mask + 1)

Incremented(index) == (index + 1) % IndexRange

QueueUsedSize == (wr_idx - rd_idx) % IndexRange

(* Mutant: one frame too many.                                             *)
QueueIsFullLate == QueueUsedSize > mask + 1
QueueIsFull == QueueUsedSize > mask
QueueIsEmpty == rd_idx = wr_idx

Init ==
  /\ storage = [s \in Slots |-> Blank]
  /\ allocated = FALSE
  /\ rd_idx = 0
  /\ wr_idx = 0
  /\ mask = 0
  /\ push_pc = "idle"
  /\ frame = NoFrame
  /\ poll_pc = "idle"
  /\ pkg = Blank
  /\ popped = Blank

-----------------------------------------------------------------------------
(* The pushing thread.                                                     *)

PushLidarData(f) ==
  /\ push_pc = "idle"
  /\ frame' = f
  /\ push_pc' = IF allocated THEN "check" ELSE "allocate"
  /\ UNCHANGED <<queue_vars, poll_vars>>

(* InitQueue publishes the new buffer before it sets the other fields.     *)
AllocateStorage ==
  /\ push_pc = "allocate"
  /\ storage' = [s \in Slots |-> Blank]
  /\ allocated' = TRUE
  /\ push_pc' = "set_indices"
  /\ UNCHANGED <<rd_idx, wr_idx, mask, frame, poll_vars>>

SetIndices ==
  /\ push_pc = "set_indices"
  /\ rd_idx' = 0
  /\ wr_idx' = 0
  /\ mask' = Size - 1
  /\ push_pc' = "check"
  /\ UNCHANGED <<storage, allocated, frame, poll_vars>>

(* Mutant: a full queue gives up its oldest frame.                         *)
DropOldest ==
  /\ push_pc = "check"
  /\ QueueIsFull
  /\ rd_idx' = Incremented(rd_idx)
  /\ UNCHANGED <<storage, allocated, wr_idx, mask, push_vars, poll_vars>>

(* A full queue refuses the new frame: PushLidarData then only signals.    *)
DropWhenFull ==
  /\ push_pc = "check"
  /\ QueueIsFull
  /\ push_pc' = "idle"
  /\ frame' = NoFrame
  /\ UNCHANGED <<queue_vars, poll_vars>>

EnterPushAny ==
  /\ push_pc = "check"
  /\ ~QueueIsFull
  /\ push_pc' = "header"
  /\ UNCHANGED <<queue_vars, frame, poll_vars>>

WriteHeader ==
  /\ push_pc = "header"
  /\ storage' = [storage EXCEPT ![SlotOf(wr_idx)].header = frame]
  /\ push_pc' = "points"
  /\ UNCHANGED <<allocated, rd_idx, wr_idx, mask, frame, poll_vars>>

WritePoints ==
  /\ push_pc = "points"
  /\ storage' = [storage EXCEPT ![SlotOf(wr_idx)].points = frame]
  /\ push_pc' = "advance"
  /\ UNCHANGED <<allocated, rd_idx, wr_idx, mask, frame, poll_vars>>

AdvanceWrite ==
  /\ push_pc = "advance"
  /\ wr_idx' = Incremented(wr_idx)
  /\ push_pc' = "idle"
  /\ frame' = NoFrame
  /\ UNCHANGED <<storage, allocated, rd_idx, mask, poll_vars>>

-----------------------------------------------------------------------------
(* The polling thread: the polling loop's and QueuePrePop's tests that the *)
(* queue is not empty, then QueuePop.                                      *)

EnterPop ==
  /\ poll_pc = "idle"
  /\ allocated
  /\ ~QueueIsEmpty
  /\ poll_pc' = "header"
  /\ UNCHANGED <<queue_vars, push_vars, pkg, popped>>

ReadHeader ==
  /\ poll_pc = "header"
  /\ pkg' = [pkg EXCEPT !.header = storage[SlotOf(rd_idx)].header]
  /\ poll_pc' = "points"
  /\ UNCHANGED <<queue_vars, push_vars, popped>>

ReadPoints ==
  /\ poll_pc = "points"
  /\ pkg' = [pkg EXCEPT !.points = storage[SlotOf(rd_idx)].points]
  /\ poll_pc' = "update"
  /\ UNCHANGED <<queue_vars, push_vars, popped>>

QueuePopUpdate ==
  /\ poll_pc = "update"
  /\ rd_idx' = Incremented(rd_idx)
  /\ popped' = pkg
  /\ poll_pc' = "idle"
  /\ UNCHANGED <<storage, allocated, wr_idx, mask, push_vars, pkg>>

-----------------------------------------------------------------------------
Push ==
  \/ \E f \in Frames : PushLidarData(f)
  \/ AllocateStorage \/ SetIndices
  \/ DropWhenFull \/ EnterPushAny
  \/ WriteHeader \/ WritePoints \/ AdvanceWrite

Pop == EnterPop \/ ReadHeader \/ ReadPoints \/ QueuePopUpdate

Next == Push \/ Pop

Spec == Init /\ [][Next]_vars

-----------------------------------------------------------------------------
(* Correctness.                                                            *)

TypeOK ==
  /\ storage \in [Slots -> Packet]
  /\ allocated \in BOOLEAN
  /\ rd_idx \in Indices
  /\ wr_idx \in Indices
  /\ mask \in {0, Size - 1}
  /\ push_pc \in {"idle", "allocate", "set_indices", "check", "header",
                  "points", "advance"}
  /\ frame \in Frames \cup {NoFrame}
  /\ poll_pc \in {"idle", "header", "points", "update"}
  /\ pkg \in Packet
  /\ popped \in Packet

Writing == push_pc \in {"header", "points", "advance"}
Reading == poll_pc \in {"header", "points", "update"}

(* The slot of the i-th unread frame, counted from 0.                      *)
UnreadSlot(i) == SlotOf((rd_idx + i) % IndexRange)

(* The two threads are never in the same slot at the same time, although   *)
(* the queue takes no lock: a slot is written only while QueueIsFull was   *)
(* false and read only while QueueIsEmpty was false.                       *)
ThreadsApart == Writing /\ Reading => SlotOf(wr_idx) # SlotOf(rd_idx)

(* QueuePop never returns a header of one frame with the points of another *)
(* one, which PublishPointcloud2 would stamp with the wrong base_time.     *)
NoTornPacket == popped.header = popped.points

(* The inductive strengthening: what each thread has established about the *)
(* indices and the slots at each point of its code.                        *)
BeforeInit ==
  push_pc = "allocate" \/ ~allocated =>
    ~allocated /\ mask = 0 /\ push_pc \in {"idle", "allocate"}

NothingQueued ==
  ~allocated \/ push_pc = "set_indices" =>
    rd_idx = 0 /\ wr_idx = 0 /\ poll_pc = "idle"

MaskIsSet ==
  allocated /\ push_pc # "set_indices" => mask = Size - 1

Bounded ==
  /\ QueueUsedSize <= Size
  /\ Writing => QueueUsedSize < Size
  /\ Reading => QueueUsedSize > 0

FrameOffered == (frame = NoFrame) <=> (push_pc = "idle")

UnreadWhole ==
  \A i \in 0 .. QueueUsedSize - 1 :
    \E f \in Frames : storage[UnreadSlot(i)] = Whole(f)

BeingWritten ==
  /\ push_pc = "points" => storage[SlotOf(wr_idx)].header = frame
  /\ push_pc = "advance" => storage[SlotOf(wr_idx)] = Whole(frame)

BeingRead ==
  /\ poll_pc = "points" => pkg.header = storage[SlotOf(rd_idx)].header
  /\ poll_pc = "update" => pkg = storage[SlotOf(rd_idx)]

QueueInv ==
  /\ TypeOK
  /\ BeforeInit
  /\ NothingQueued
  /\ MaskIsSet
  /\ Bounded
  /\ FrameOffered
  /\ UnreadWhole
  /\ BeingWritten
  /\ BeingRead
  /\ NoTornPacket

(* The ring buffer implements the bounded channel of FrameFifo.            *)
Unread == [i \in 1 .. QueueUsedSize |-> storage[UnreadSlot(i - 1)].header]

Fifo == INSTANCE FrameFifo WITH
  fifo <- Unread, offered <- frame, taken <- popped.header, Capacity <- Size

(* Frames leave in the order they were accepted, each once, and a frame is *)
(* refused only when the buffer holds Size frames, also when the indices   *)
(* have wrapped round.                                                     *)
ImplementsFifo == Fifo!Spec
==============================================================================
