-------------------------- MODULE LidarQueueProofs ---------------------------
(***************************************************************************)
(* For every set of frames, every queue size and every index range, the    *)
(* ring buffer of LidarQueue keeps its invariant, never returns a torn     *)
(* packet, keeps its two threads in different slots and implements the     *)
(* bounded channel of FrameFifo.                                           *)
(***************************************************************************)
EXTENDS LidarQueue, SequenceTheorems, TLAPS

-----------------------------------------------------------------------------
(* Arithmetic of the free-running indices.                                 *)

(* Division with remainder, the two facts the lemmas below need of it.     *)
LEMMA ModDecompose ==
  ASSUME NEW n \in Nat, NEW d \in Nat \ {0}
  PROVE  /\ n % d \in 0 .. d - 1
         /\ n \div d \in Nat
         /\ n = d * (n \div d) + (n % d)
OBVIOUS

LEMMA ModUnique ==
  ASSUME NEW q \in Int, NEW r \in Int, NEW d \in Nat \ {0}, 0 <= r, r < d
  PROVE  (d * q + r) % d = r
OBVIOUS

(* Masking is not disturbed by the wrap-around of an index: the size       *)
(* divides the index range.                                                *)
LEMMA MaskSurvivesWrap ==
  ASSUME NEW n \in Nat, n < 2 * IndexRange
  PROVE  (n % IndexRange) % Size = n % Size
<1>. USE QueueAssumption
<1>1. PICK k \in 2 .. IndexRange : IndexRange = k * Size
  OBVIOUS
<1>2. CASE n < IndexRange
  BY <1>2
<1>3. CASE n >= IndexRange
  <2>. DEFINE m == n - IndexRange
  <2>1. m \in Nat /\ m < IndexRange /\ n % IndexRange = m
    BY <1>3
  <2>2. /\ m % Size \in 0 .. Size - 1
        /\ m \div Size \in Nat
        /\ m = Size * (m \div Size) + (m % Size)
    BY <2>1, ModDecompose
  <2>3. n = Size * ((m \div Size) + k) + (m % Size)
    BY <1>1, <2>1, <2>2
  <2>. DEFINE q == (m \div Size) + k  r == m % Size
  <2>4. q \in Int /\ r \in Int /\ 0 <= r /\ r < Size
    BY <2>2
  <2>5. n = Size * q + r
    BY <2>3
  <2>. HIDE DEF q, r
  <2>6. (Size * q + r) % Size = r
    BY <2>4, ModUnique
  <2>7. n % Size = m % Size
    BY <2>5, <2>6 DEF r
  <2>. QED  BY <2>1, <2>7
<1>. QED  BY <1>2, <1>3

(* Size consecutive indices are masked into different slots.               *)
LEMMA WindowApart ==
  ASSUME NEW a \in Nat, NEW i \in Nat, NEW j \in Nat,
         i < j, j < i + Size
  PROVE  (a + i) % Size # (a + j) % Size
<1>. USE QueueAssumption
<1>. DEFINE m == a + i  n == a + j
<1>0. m \in Nat /\ n \in Nat /\ 0 < n - m /\ n - m < Size
  OBVIOUS
<1>. HIDE DEF m, n
<1>1. /\ m % Size \in 0 .. Size - 1 /\ m \div Size \in Nat
      /\ m = Size * (m \div Size) + (m % Size)
  BY <1>0, ModDecompose
<1>2. /\ n % Size \in 0 .. Size - 1 /\ n \div Size \in Nat
      /\ n = Size * (n \div Size) + (n % Size)
  BY <1>0, ModDecompose
<1>3. SUFFICES ASSUME m % Size = n % Size
               PROVE  FALSE
  BY DEF m, n
<1>4. n - m = Size * ((n \div Size) - (m \div Size))
  BY <1>1, <1>2, <1>3
<1>5. CASE (n \div Size) - (m \div Size) <= 0
  BY <1>0, <1>1, <1>2, <1>4, <1>5
<1>6. CASE (n \div Size) - (m \div Size) >= 1
  BY <1>0, <1>1, <1>2, <1>4, <1>6
<1>. QED  BY <1>1, <1>2, <1>5, <1>6

(* How the number of used slots follows the two indices.                   *)
LEMMA UsedSize ==
  ASSUME NEW r \in Indices, NEW w \in Indices
  PROVE  /\ (w - r) % IndexRange \in 0 .. IndexRange - 1
         /\ w = (r + ((w - r) % IndexRange)) % IndexRange
         /\ r = w <=> (w - r) % IndexRange = 0
BY QueueAssumption DEF Indices

LEMMA RangeExceedsSize == Size < IndexRange /\ IndexRange >= 2 * Size
BY QueueAssumption

LEMMA UsedAfterWrite ==
  ASSUME NEW r \in Indices, NEW w \in Indices, (w - r) % IndexRange < Size
  PROVE  /\ (w + 1) % IndexRange \in Indices
         /\ (((w + 1) % IndexRange) - r) % IndexRange
              = ((w - r) % IndexRange) + 1
BY QueueAssumption, RangeExceedsSize DEF Indices

LEMMA UsedAfterRead ==
  ASSUME NEW r \in Indices, NEW w \in Indices, (w - r) % IndexRange > 0
  PROVE  /\ (r + 1) % IndexRange \in Indices
         /\ (w - ((r + 1) % IndexRange)) % IndexRange
              = ((w - r) % IndexRange) - 1
BY QueueAssumption, RangeExceedsSize DEF Indices

LEMMA NextUnread ==
  ASSUME NEW r \in Indices, NEW i \in 0 .. Size
  PROVE  (((r + 1) % IndexRange) + i) % IndexRange = (r + (i + 1)) % IndexRange
BY QueueAssumption, RangeExceedsSize DEF Indices

(* The slots of two unread frames, or of an unread frame and of the frame  *)
(* being written behind them, differ.                                      *)
LEMMA SlotsApart ==
  ASSUME NEW r \in Indices, NEW i \in 0 .. Size - 1, NEW j \in 0 .. Size - 1,
         i # j
  PROVE  ((r + i) % IndexRange) % Size # ((r + j) % IndexRange) % Size
<1>1. /\ r \in Nat /\ r < IndexRange
      /\ i \in Nat /\ j \in Nat /\ i < Size /\ j < Size
  BY QueueAssumption DEF Indices
<1>2. /\ r + i \in Nat /\ r + i < 2 * IndexRange
      /\ r + j \in Nat /\ r + j < 2 * IndexRange
  BY <1>1, RangeExceedsSize, QueueAssumption
<1>3. /\ ((r + i) % IndexRange) % Size = (r + i) % Size
      /\ ((r + j) % IndexRange) % Size = (r + j) % Size
  BY <1>2, MaskSurvivesWrap
<1>4. CASE i < j
  <2>1. j < i + Size
    BY <1>1, QueueAssumption
  <2>2. (r + i) % Size # (r + j) % Size
    BY <1>1, <1>4, <2>1, WindowApart
  <2>. QED  BY <1>3, <2>2
<1>5. CASE j < i
  <2>1. i < j + Size
    BY <1>1, QueueAssumption
  <2>2. (r + j) % Size # (r + i) % Size
    BY <1>1, <1>5, <2>1, WindowApart
  <2>. QED  BY <1>3, <2>2
<1>. QED  BY <1>1, <1>4, <1>5

-----------------------------------------------------------------------------
(* Type correctness.                                                       *)

LEMMA ZeroIsIndex == 0 \in Indices
BY QueueAssumption, RangeExceedsSize DEF Indices

LEMMA BlankType == Blank \in Packet
BY DEF Blank, Packet

LEMMA IncrementedType == ASSUME NEW r \in Indices PROVE Incremented(r) \in Indices
BY QueueAssumption, RangeExceedsSize DEF Indices, Incremented

LEMMA SlotOfType ==
  ASSUME mask \in {0, Size - 1}, NEW r \in Indices
  PROVE  SlotOf(r) \in Slots
BY QueueAssumption DEF Slots, SlotOf, Indices

LEMMA TypeStep == TypeOK /\ [Next]_vars => TypeOK'
<1>. SUFFICES ASSUME TypeOK, [Next]_vars
              PROVE  TypeOK'
  OBVIOUS
<1>. USE DEF TypeOK, queue_vars, push_vars, poll_vars
<1>1. ASSUME NEW f \in Frames, PushLidarData(f)
      PROVE  TypeOK'
  BY <1>1 DEF PushLidarData
<1>2. CASE AllocateStorage
  BY <1>2, BlankType DEF AllocateStorage
<1>3. CASE SetIndices
  BY <1>3, ZeroIsIndex DEF SetIndices
<1>4. CASE DropWhenFull
  BY <1>4 DEF DropWhenFull
<1>5. CASE EnterPushAny
  BY <1>5 DEF EnterPushAny
<1>6. CASE WriteHeader
  BY <1>6 DEF WriteHeader, Packet
<1>7. CASE WritePoints
  BY <1>7 DEF WritePoints, Packet
<1>8. CASE AdvanceWrite
  BY <1>8, IncrementedType DEF AdvanceWrite
<1>9. CASE EnterPop
  BY <1>9 DEF EnterPop
<1>10. CASE ReadHeader
  BY <1>10, SlotOfType DEF ReadHeader, Packet
<1>11. CASE ReadPoints
  BY <1>11, SlotOfType DEF ReadPoints, Packet
<1>12. CASE QueuePopUpdate
  BY <1>12, IncrementedType DEF QueuePopUpdate
<1>13. CASE UNCHANGED vars
  BY <1>13 DEF vars
<1>. QED
  BY <1>1, <1>2, <1>3, <1>4, <1>5, <1>6, <1>7, <1>8, <1>9, <1>10, <1>11,
     <1>12, <1>13 DEF Next, Push, Pop

(* The variables of the queue and of its two threads keep their types,     *)
(* whatever the queue size and the width of the indices.                   *)
THEOREM TypeCorrect == Spec => []TypeOK
<1>1. Init => TypeOK
  BY ZeroIsIndex, BlankType DEF Init, TypeOK
<1>2. TypeOK /\ [Next]_vars => TypeOK'
  BY TypeStep
<1>. QED  BY <1>1, <1>2, PTL DEF Spec

-----------------------------------------------------------------------------
(* The inductive invariant.                                                *)

LEMMA SlotOfMasked ==
  ASSUME mask = Size - 1, NEW r
  PROVE  SlotOf(r) = r % Size
BY QueueAssumption DEF SlotOf

LEMMA NothingUsed == rd_idx = 0 /\ wr_idx = 0 => QueueUsedSize = 0
BY QueueAssumption, RangeExceedsSize DEF QueueUsedSize

LEMMA UsedType == TypeOK => QueueUsedSize \in 0 .. IndexRange - 1
BY UsedSize DEF TypeOK, QueueUsedSize

(* The invariant holds in the initial state.                               *)
LEMMA InvInit == Init => QueueInv
<1>. SUFFICES ASSUME Init
              PROVE  QueueInv
  OBVIOUS
<1>1. TypeOK
  BY ZeroIsIndex, BlankType DEF Init, TypeOK
<1>2. QueueUsedSize = 0
  BY NothingUsed DEF Init
<1>3. BeforeInit /\ NothingQueued /\ MaskIsSet
  BY DEF Init, BeforeInit, NothingQueued, MaskIsSet
<1>4. Bounded
  BY <1>2, QueueAssumption DEF Init, Bounded, Writing, Reading
<1>5. FrameOffered /\ BeingWritten /\ BeingRead /\ NoTornPacket
  BY DEF Init, FrameOffered, BeingWritten, BeingRead, NoTornPacket, Blank
<1>6. UnreadWhole
  BY <1>2 DEF UnreadWhole
<1>. QED  BY <1>1, <1>3, <1>4, <1>5, <1>6 DEF QueueInv

(* Steps that move neither an index nor a slot keep what the invariant     *)
(* says of the unread frames.                                              *)
LEMMA QueueUnchanged ==
  ASSUME QueueInv, UNCHANGED queue_vars
  PROVE  UnreadWhole' /\ QueueUsedSize' = QueueUsedSize
BY DEF QueueInv, queue_vars, UnreadWhole, UnreadSlot, SlotOf, QueueUsedSize, Whole

(* The steps of the pushing thread before it touches the queue.            *)
LEMMA PushEntry ==
  ASSUME QueueInv, TypeOK',
         \/ \E f \in Frames : PushLidarData(f)
         \/ DropWhenFull \/ EnterPushAny
  PROVE  QueueInv'
<1>. USE DEF queue_vars, push_vars, poll_vars
<1>1. UnreadWhole' /\ QueueUsedSize' = QueueUsedSize
  BY QueueUnchanged DEF PushLidarData, DropWhenFull, EnterPushAny
<1>2. UNCHANGED <<poll_vars, queue_vars>>
  BY DEF PushLidarData, DropWhenFull, EnterPushAny
<1>3. BeforeInit' /\ NothingQueued' /\ MaskIsSet'
  BY <1>2 DEF QueueInv, TypeOK, BeforeInit, NothingQueued, MaskIsSet, PushLidarData,
              DropWhenFull, EnterPushAny
<1>4. Bounded'
  BY <1>1, <1>2, UsedType, QueueAssumption
     DEF QueueInv, BeforeInit, MaskIsSet, Bounded, Writing, Reading,
         QueueIsFull, PushLidarData, DropWhenFull, EnterPushAny
<1>5. FrameOffered'
  BY QueueAssumption
     DEF QueueInv, FrameOffered, PushLidarData, DropWhenFull, EnterPushAny
<1>6. BeingWritten' /\ BeingRead' /\ NoTornPacket'
  BY <1>2 DEF QueueInv, BeingWritten, BeingRead, NoTornPacket, SlotOf,
              PushLidarData, DropWhenFull, EnterPushAny
<1>. QED  BY <1>1, <1>3, <1>4, <1>5, <1>6 DEF QueueInv

(* The first push allocates and sets up an empty queue.                    *)
LEMMA Initialisation ==
  ASSUME QueueInv, TypeOK', AllocateStorage \/ SetIndices
  PROVE  QueueInv'
<1>. USE DEF queue_vars, push_vars, poll_vars
<1>1. /\ rd_idx = 0 /\ wr_idx = 0 /\ poll_pc = "idle"
      /\ UNCHANGED <<rd_idx, wr_idx, frame, poll_vars>>
  BY DEF QueueInv, BeforeInit, NothingQueued, AllocateStorage, SetIndices
<1>2. QueueUsedSize' = 0
  BY <1>1, NothingUsed DEF QueueUsedSize
<1>3. BeforeInit' /\ NothingQueued' /\ MaskIsSet'
  BY <1>1 DEF QueueInv, BeforeInit, NothingQueued, MaskIsSet,
              AllocateStorage, SetIndices
<1>4. Bounded' /\ UnreadWhole'
  BY <1>1, <1>2, QueueAssumption
     DEF Bounded, UnreadWhole, Writing, Reading, AllocateStorage, SetIndices
<1>5. FrameOffered' /\ BeingWritten' /\ BeingRead' /\ NoTornPacket'
  BY <1>1 DEF QueueInv, FrameOffered, BeingWritten, BeingRead, NoTornPacket,
              AllocateStorage, SetIndices
<1>. QED  BY <1>3, <1>4, <1>5 DEF QueueInv

(* A thread inside an operation works on an initialised queue.             *)
LEMMA MaskInUse ==
  QueueInv /\ (Writing \/ Reading) => allocated /\ mask = Size - 1
BY DEF QueueInv, BeforeInit, NothingQueued, MaskIsSet, Writing, Reading, TypeOK

(* The slot being written holds no unread frame: the heart of the matter.  *)
LEMMA WriteSlotFree ==
  ASSUME QueueInv, Writing, NEW i \in 0 .. QueueUsedSize - 1
  PROVE  UnreadSlot(i) # SlotOf(wr_idx)
<1>. DEFINE u == QueueUsedSize
<1>1. /\ rd_idx \in Indices /\ wr_idx \in Indices
      /\ mask = Size - 1
      /\ u \in 0 .. IndexRange - 1 /\ u < Size
  BY MaskInUse, UsedType DEF QueueInv, TypeOK, Bounded
<1>2. wr_idx = (rd_idx + u) % IndexRange
  BY <1>1, UsedSize DEF QueueUsedSize
<1>3. i \in 0 .. Size - 1 /\ u \in 0 .. Size - 1 /\ i # u
  BY <1>1, QueueAssumption
<1>. HIDE DEF u
<1>4. ((rd_idx + i) % IndexRange) % Size # ((rd_idx + u) % IndexRange) % Size
  BY <1>1, <1>3, SlotsApart
<1>. QED  BY <1>1, <1>2, <1>4, SlotOfMasked DEF UnreadSlot

(* The oldest unread frame is the one at the read index.                   *)
LEMMA OldestUnread ==
  ASSUME TypeOK
  PROVE  UnreadSlot(0) = SlotOf(rd_idx)
<1>1. (rd_idx + 0) % IndexRange = rd_idx
  BY QueueAssumption DEF TypeOK, Indices
<1>. QED  BY <1>1 DEF UnreadSlot

LEMMA ApartFromInv == QueueInv => ThreadsApart
<1>. SUFFICES ASSUME QueueInv, Writing, Reading
              PROVE  SlotOf(wr_idx) # SlotOf(rd_idx)
  BY DEF ThreadsApart
<1>1. 0 \in 0 .. QueueUsedSize - 1
  BY UsedType DEF QueueInv, Bounded
<1>. QED  BY <1>1, WriteSlotFree, OldestUnread DEF QueueInv

(* Filling a slot disturbs neither the unread frames nor the reader.       *)
LEMMA FillSlot ==
  ASSUME QueueInv, TypeOK', WriteHeader \/ WritePoints
  PROVE  QueueInv'
<1>. USE DEF queue_vars, push_vars, poll_vars
<1>1. /\ Writing /\ mask = Size - 1 /\ allocated
      /\ UNCHANGED <<allocated, rd_idx, wr_idx, mask, frame, poll_vars>>
      /\ \A t \in Slots : t # SlotOf(wr_idx) => storage'[t] = storage[t]
  BY MaskInUse DEF WriteHeader, WritePoints, Writing, QueueInv, TypeOK
<1>2. QueueUsedSize' = QueueUsedSize
  BY <1>1 DEF QueueUsedSize
<1>3. BeforeInit' /\ NothingQueued' /\ MaskIsSet' /\ FrameOffered'
  BY <1>1 DEF QueueInv, BeforeInit, NothingQueued, MaskIsSet, FrameOffered,
              WriteHeader, WritePoints
<1>4. Bounded'
  BY <1>1, <1>2 DEF QueueInv, Bounded, Writing, Reading, WriteHeader, WritePoints
<1>5. UnreadWhole'
  <2>. SUFFICES ASSUME NEW i \in 0 .. QueueUsedSize - 1
                PROVE  \E f \in Frames : storage'[UnreadSlot(i)] = Whole(f)
    BY <1>1, <1>2 DEF UnreadWhole, UnreadSlot, SlotOf, Whole
  <2>1. UnreadSlot(i) # SlotOf(wr_idx)
    BY <1>1, WriteSlotFree
  <2>2. (rd_idx + i) % IndexRange \in Indices
    BY QueueAssumption, RangeExceedsSize, UsedType DEF QueueInv, TypeOK, Indices
  <2>3. UnreadSlot(i) \in Slots
    BY <1>1, <2>2, SlotOfType DEF UnreadSlot
  <2>. QED  BY <1>1, <2>1, <2>3 DEF QueueInv, UnreadWhole
<1>6. BeingWritten'
  <2>1. SlotOf(wr_idx) \in Slots /\ SlotOf(wr_idx)' = SlotOf(wr_idx)
    BY <1>1, SlotOfType DEF QueueInv, TypeOK, SlotOf
  <2>2. storage[SlotOf(wr_idx)] \in Packet
    BY <2>1 DEF QueueInv, TypeOK
  <2>3. CASE WriteHeader
    BY <2>1, <2>2, <2>3 DEF QueueInv, TypeOK, BeingWritten, WriteHeader, Packet
  <2>4. CASE WritePoints
    BY <2>1, <2>2, <2>4
       DEF QueueInv, TypeOK, BeingWritten, WritePoints, Packet, Whole
  <2>. QED  BY <2>3, <2>4
<1>7. BeingRead' /\ NoTornPacket'
  <2>1. Reading => SlotOf(wr_idx) # SlotOf(rd_idx)
    BY <1>1, ApartFromInv DEF ThreadsApart
  <2>2. SlotOf(rd_idx) \in Slots /\ SlotOf(rd_idx)' = SlotOf(rd_idx)
    BY <1>1, SlotOfType DEF QueueInv, TypeOK, SlotOf
  <2>. QED
    BY <1>1, <2>1, <2>2 DEF QueueInv, BeingRead, Reading, NoTornPacket
<1>. QED  BY <1>3, <1>4, <1>5, <1>6, <1>7 DEF QueueInv

(* Moving the write index hands the written frame to the reader.           *)
LEMMA HandOver ==
  ASSUME QueueInv, TypeOK', AdvanceWrite
  PROVE  QueueInv'
<1>. USE DEF queue_vars, push_vars, poll_vars
<1>1. /\ Writing /\ mask = Size - 1 /\ allocated
      /\ UNCHANGED <<storage, allocated, rd_idx, mask, poll_vars>>
      /\ rd_idx \in Indices /\ wr_idx \in Indices
      /\ QueueUsedSize \in 0 .. IndexRange - 1 /\ QueueUsedSize < Size
  BY MaskInUse, UsedType DEF AdvanceWrite, Writing, QueueInv, TypeOK, Bounded
<1>2. QueueUsedSize' = QueueUsedSize + 1
  BY <1>1, UsedAfterWrite DEF QueueUsedSize, AdvanceWrite, Incremented
<1>3. BeforeInit' /\ NothingQueued' /\ MaskIsSet' /\ FrameOffered'
  BY <1>1 DEF QueueInv, BeforeInit, NothingQueued, MaskIsSet, FrameOffered,
              AdvanceWrite
<1>4. Bounded'
  BY <1>1, <1>2, QueueAssumption DEF QueueInv, Bounded, Writing, Reading, AdvanceWrite
<1>5. UnreadWhole'
  <2>. SUFFICES ASSUME NEW i \in 0 .. QueueUsedSize
                PROVE  \E f \in Frames : storage[UnreadSlot(i)] = Whole(f)
    BY <1>1, <1>2 DEF UnreadWhole, UnreadSlot, SlotOf, Whole
  <2>1. CASE i = QueueUsedSize
    <3>1. wr_idx = (rd_idx + i) % IndexRange
      BY <1>1, <2>1, UsedSize DEF QueueUsedSize
    <3>2. frame \in Frames
      BY DEF AdvanceWrite, QueueInv, FrameOffered, TypeOK
    <3>. QED  BY <3>1, <3>2 DEF UnreadSlot, QueueInv, BeingWritten, AdvanceWrite
  <2>2. CASE i # QueueUsedSize
    BY <1>1, <2>2 DEF QueueInv, UnreadWhole
  <2>. QED  BY <2>1, <2>2
<1>6. BeingWritten' /\ BeingRead' /\ NoTornPacket'
  BY <1>1 DEF QueueInv, BeingWritten, BeingRead, NoTornPacket, SlotOf, AdvanceWrite
<1>. QED  BY <1>3, <1>4, <1>5, <1>6 DEF QueueInv

(* Copying a slot out.                                                     *)
LEMMA CopyOut ==
  ASSUME QueueInv, TypeOK', EnterPop \/ ReadHeader \/ ReadPoints
  PROVE  QueueInv'
<1>. USE DEF queue_vars, push_vars, poll_vars
<1>1. UNCHANGED <<queue_vars, push_vars, popped>>
  BY DEF EnterPop, ReadHeader, ReadPoints
<1>2. UnreadWhole' /\ QueueUsedSize' = QueueUsedSize
  BY <1>1, QueueUnchanged
<1>3. BeforeInit' /\ NothingQueued' /\ MaskIsSet' /\ FrameOffered'
  BY <1>1 DEF QueueInv, BeforeInit, NothingQueued, MaskIsSet, FrameOffered,
              EnterPop, ReadHeader, ReadPoints, QueueIsEmpty
<1>4. Bounded'
  <2>1. EnterPop => QueueUsedSize > 0
    BY UsedSize, UsedType
       DEF EnterPop, QueueIsEmpty, QueueInv, TypeOK, QueueUsedSize
  <2>. QED
    BY <1>1, <1>2, <2>1
       DEF QueueInv, Bounded, Writing, Reading, EnterPop, ReadHeader, ReadPoints
<1>5. BeingWritten' /\ NoTornPacket'
  BY <1>1 DEF QueueInv, BeingWritten, NoTornPacket, SlotOf
<1>6. BeingRead'
  <2>1. CASE EnterPop
    BY <2>1 DEF EnterPop, BeingRead
  <2>2. CASE ReadHeader
    BY <2>2 DEF ReadHeader, BeingRead, QueueInv, TypeOK, Packet, SlotOf
  <2>3. CASE ReadPoints
    <3>1. SlotOf(rd_idx) \in Slots
      BY SlotOfType DEF QueueInv, TypeOK
    <3>2. storage[SlotOf(rd_idx)] \in Packet /\ pkg \in Packet
      BY <3>1 DEF QueueInv, TypeOK
    <3>3. pkg' = storage[SlotOf(rd_idx)]
      BY <2>3, <3>2 DEF ReadPoints, BeingRead, QueueInv, Packet
    <3>. QED  BY <1>1, <2>3, <3>3 DEF ReadPoints, BeingRead, SlotOf
  <2>. QED  BY <2>1, <2>2, <2>3
<1>. QED  BY <1>2, <1>3, <1>4, <1>5, <1>6 DEF QueueInv

(* Moving the read index gives the slot back to the writer.                *)
LEMMA GiveBack ==
  ASSUME QueueInv, TypeOK', QueuePopUpdate
  PROVE  QueueInv'
<1>. USE DEF queue_vars, push_vars, poll_vars
<1>1. /\ Reading /\ mask = Size - 1 /\ allocated
      /\ UNCHANGED <<storage, allocated, wr_idx, mask, push_vars>>
      /\ rd_idx \in Indices /\ wr_idx \in Indices
      /\ QueueUsedSize \in 0 .. IndexRange - 1
      /\ QueueUsedSize > 0 /\ QueueUsedSize <= Size
  BY MaskInUse, UsedType DEF QueuePopUpdate, Reading, QueueInv, TypeOK, Bounded
<1>2. QueueUsedSize' = QueueUsedSize - 1
  BY <1>1, UsedAfterRead DEF QueueUsedSize, QueuePopUpdate, Incremented
<1>3. BeforeInit' /\ NothingQueued' /\ MaskIsSet' /\ FrameOffered'
  BY <1>1 DEF QueueInv, BeforeInit, NothingQueued, MaskIsSet, FrameOffered,
              QueuePopUpdate, Reading
<1>4. Bounded'
  BY <1>1, <1>2, QueueAssumption DEF QueueInv, Bounded, Writing, Reading, QueuePopUpdate
<1>5. UnreadWhole'
  <2>. SUFFICES ASSUME NEW i \in 0 .. QueueUsedSize - 2
                PROVE  \E f \in Frames : storage[UnreadSlot(i)'] = Whole(f)
    BY <1>1, <1>2 DEF UnreadWhole, Whole
  <2>1. i \in 0 .. Size /\ i + 1 \in 0 .. QueueUsedSize - 1
    BY <1>1, QueueAssumption
  <2>2. UnreadSlot(i)' = UnreadSlot(i + 1)
    BY <1>1, <2>1, NextUnread DEF UnreadSlot, SlotOf, QueuePopUpdate, Incremented
  <2>. QED  BY <2>1, <2>2 DEF QueueInv, UnreadWhole
<1>6. BeingWritten' /\ BeingRead'
  BY <1>1 DEF QueueInv, BeingWritten, BeingRead, SlotOf, QueuePopUpdate
<1>7. NoTornPacket'
  <2>1. popped' = storage[UnreadSlot(0)]
    BY OldestUnread DEF QueuePopUpdate, QueueInv, BeingRead
  <2>2. 0 \in 0 .. QueueUsedSize - 1
    BY <1>1
  <2>3. PICK f \in Frames : popped' = Whole(f)
    BY <2>1, <2>2 DEF QueueInv, UnreadWhole
  <2>. QED  BY <2>3 DEF NoTornPacket, Whole
<1>. QED  BY <1>3, <1>4, <1>5, <1>6, <1>7 DEF QueueInv

(* QueueInv is an invariant of the queue, for every size and index range.  *)
THEOREM QueueInvariant == Spec => []QueueInv
<1>1. QueueInv /\ [Next]_vars => QueueInv'
  <2>. SUFFICES ASSUME QueueInv, [Next]_vars
                PROVE  QueueInv'
    OBVIOUS
  <2>1. TypeOK'
    BY TypeStep DEF QueueInv
  <2>2. CASE UNCHANGED vars
    BY <2>2, <2>1, QueueUnchanged
       DEF vars, queue_vars, push_vars, poll_vars, QueueInv, BeforeInit, NothingQueued,
           MaskIsSet, Bounded, FrameOffered, BeingWritten, BeingRead, NoTornPacket,
           Writing, Reading, SlotOf
  <2>. QED
    BY <2>1, <2>2, PushEntry, Initialisation, FillSlot, HandOver, CopyOut, GiveBack
       DEF Next, Push, Pop
<1>. QED  BY InvInit, <1>1, PTL DEF Spec

(* Without a lock the two threads never work in the same slot: a frame is  *)
(* not overwritten while Lddc reads it.                                    *)
THEOREM ThreadsStayApart == Spec => []ThreadsApart
BY QueueInvariant, ApartFromInv, PTL

(* Every packet QueuePop returns is one frame, header and points.          *)
THEOREM PacketsAreWhole == Spec => []NoTornPacket
<1>1. QueueInv => NoTornPacket
  BY DEF QueueInv
<1>. QED  BY <1>1, QueueInvariant, PTL

-----------------------------------------------------------------------------
(* The ring buffer implements the channel.                                 *)

LEMMA UnreadType ==
  ASSUME QueueInv
  PROVE  /\ Unread \in Seq(Frames)
         /\ Len(Unread) = QueueUsedSize
         /\ QueueUsedSize \in Nat
         /\ \A i \in 1 .. QueueUsedSize :
               Unread[i] = storage[UnreadSlot(i - 1)].header
<1>1. QueueUsedSize \in Nat
  BY UsedType DEF QueueInv
<1>2. \A i \in 1 .. QueueUsedSize : storage[UnreadSlot(i - 1)].header \in Frames
  <2>. TAKE i \in 1 .. QueueUsedSize
  <2>1. i - 1 \in 0 .. QueueUsedSize - 1
    BY <1>1
  <2>2. PICK f \in Frames : storage[UnreadSlot(i - 1)] = Whole(f)
    BY <2>1 DEF QueueInv, UnreadWhole
  <2>. QED  BY <2>2 DEF Whole
<1>. QED  BY <1>1, <1>2 DEF Unread

(* The abstract channel is the same after a step that moves no index and   *)
(* no unread slot.                                                         *)
LEMMA SameUnread ==
  ASSUME QueueInv, UNCHANGED <<rd_idx, wr_idx>>,
         \A i \in 0 .. QueueUsedSize - 1 :
            storage'[UnreadSlot(i)'] = storage[UnreadSlot(i)]
  PROVE  Unread' = Unread
<1>1. QueueUsedSize' = QueueUsedSize /\ QueueUsedSize \in Nat
  BY UsedType DEF QueueInv, QueueUsedSize
<1>. QED  BY <1>1 DEF Unread

LEMMA FillSlotStutters ==
  ASSUME QueueInv, WriteHeader \/ WritePoints
  PROVE  Unread' = Unread
<1>1. /\ Writing
      /\ UNCHANGED <<rd_idx, wr_idx, mask>>
      /\ \A t \in Slots : t # SlotOf(wr_idx) => storage'[t] = storage[t]
  BY DEF WriteHeader, WritePoints, Writing, QueueInv, TypeOK
<1>2. ASSUME NEW i \in 0 .. QueueUsedSize - 1
      PROVE  storage'[UnreadSlot(i)'] = storage[UnreadSlot(i)]
  <2>1. UnreadSlot(i) # SlotOf(wr_idx) /\ UnreadSlot(i)' = UnreadSlot(i)
    BY <1>1, WriteSlotFree DEF UnreadSlot, SlotOf
  <2>2. (rd_idx + i) % IndexRange \in Indices
    BY QueueAssumption, RangeExceedsSize, UsedType DEF QueueInv, TypeOK, Indices
  <2>3. UnreadSlot(i) \in Slots
    BY <2>2, SlotOfType DEF UnreadSlot, QueueInv, TypeOK
  <2>. QED  BY <1>1, <2>1, <2>3
<1>. QED  BY <1>1, <1>2, SameUnread

LEMMA HandOverAccepts ==
  ASSUME QueueInv, QueueInv', AdvanceWrite
  PROVE  Fifo!Accept
<1>1. /\ Writing /\ frame \in Frames
      /\ UNCHANGED <<storage, rd_idx, mask, popped>>
      /\ rd_idx \in Indices /\ wr_idx \in Indices
      /\ QueueUsedSize < Size
  BY DEF AdvanceWrite, Writing, QueueInv, TypeOK, Bounded, FrameOffered, poll_vars
<1>2. QueueUsedSize' = QueueUsedSize + 1
  BY <1>1, UsedAfterWrite DEF QueueUsedSize, AdvanceWrite, Incremented
<1>3. wr_idx = (rd_idx + QueueUsedSize) % IndexRange
  BY <1>1, UsedSize DEF QueueUsedSize
<1>4. storage[UnreadSlot(QueueUsedSize)].header = frame
  BY <1>1, <1>3 DEF UnreadSlot, AdvanceWrite, QueueInv, BeingWritten, Whole
<1>5. /\ Unread \in Seq(Frames) /\ Unread' \in Seq(Frames)
      /\ Len(Unread) = QueueUsedSize /\ Len(Unread') = QueueUsedSize + 1
      /\ QueueUsedSize \in Nat
      /\ \A i \in 1 .. QueueUsedSize : Unread[i] = storage[UnreadSlot(i - 1)].header
      /\ \A i \in 1 .. QueueUsedSize + 1 :
            Unread'[i] = storage[UnreadSlot(i - 1)].header
  <2>1. /\ Unread \in Seq(Frames) /\ Len(Unread) = QueueUsedSize
        /\ QueueUsedSize \in Nat
        /\ \A i \in 1 .. QueueUsedSize :
              Unread[i] = storage[UnreadSlot(i - 1)].header
    BY UnreadType
  <2>2. Unread' = [i \in 1 .. QueueUsedSize + 1 |->
                      storage[UnreadSlot(i - 1)].header]
    BY <1>1, <1>2 DEF Unread, UnreadSlot, SlotOf
  <2>3. \A i \in 1 .. QueueUsedSize + 1 :
           storage[UnreadSlot(i - 1)].header \in Frames
    <3>. TAKE i \in 1 .. QueueUsedSize + 1
    <3>1. CASE i = QueueUsedSize + 1
      BY <1>1, <1>4, <2>1, <3>1
    <3>2. CASE i \in 1 .. QueueUsedSize
      BY <2>1, <3>2, ElementOfSeq
    <3>. QED  BY <2>1, <3>1, <3>2
  <2>. QED  BY <2>1, <2>2, <2>3
<1>6. Unread' = Append(Unread, frame)
  <2>. DEFINE t == Append(Unread, frame)
  <2>1. /\ t \in Seq(Frames) /\ Len(t) = QueueUsedSize + 1
        /\ \A i \in 1 .. QueueUsedSize : t[i] = Unread[i]
        /\ t[QueueUsedSize + 1] = frame
    BY <1>1, <1>5, AppendProperties
  <2>. HIDE DEF t
  <2>2. \A i \in 1 .. QueueUsedSize + 1 : Unread'[i] = t[i]
    <3>. TAKE i \in 1 .. QueueUsedSize + 1
    <3>1. CASE i = QueueUsedSize + 1
      BY <1>4, <1>5, <2>1, <3>1
    <3>2. CASE i \in 1 .. QueueUsedSize
      BY <1>5, <2>1, <3>2
    <3>. QED  BY <1>5, <3>1, <3>2
  <2>3. Unread' = t
    BY <1>5, <2>1, <2>2, SeqEqual
  <2>. QED  BY <2>3 DEF t
<1>7. frame # NoFrame /\ frame' = NoFrame /\ popped.header' = popped.header
  BY <1>1, QueueAssumption DEF AdvanceWrite
<1>. QED  BY <1>1, <1>5, <1>6, <1>7 DEF Fifo!Accept

LEMMA PopTakes ==
  ASSUME QueueInv, QueueInv', QueuePopUpdate
  PROVE  Fifo!Take
<1>1. /\ UNCHANGED <<storage, wr_idx, mask, frame>>
      /\ rd_idx \in Indices /\ wr_idx \in Indices
      /\ QueueUsedSize > 0 /\ QueueUsedSize <= Size
  BY DEF QueuePopUpdate, Reading, QueueInv, TypeOK, Bounded, push_vars
<1>2. QueueUsedSize' = QueueUsedSize - 1
  BY <1>1, UsedAfterRead DEF QueueUsedSize, QueuePopUpdate, Incremented
<1>3. /\ Unread \in Seq(Frames) /\ Len(Unread) = QueueUsedSize
      /\ QueueUsedSize \in Nat
      /\ \A i \in 1 .. QueueUsedSize : Unread[i] = storage[UnreadSlot(i - 1)].header
  BY UnreadType
<1>4. Unread # << >>
  BY <1>1, <1>3, EmptySeq
<1>5. popped.header' = Head(Unread)
  <2>1. Unread[1] = storage[UnreadSlot(0)].header
    BY <1>1, <1>3
  <2>. QED  BY <1>3, <1>4, <2>1, OldestUnread DEF QueuePopUpdate, QueueInv, BeingRead
<1>6. Unread' = Tail(Unread)
  <2>. DEFINE n == QueueUsedSize - 1
  <2>1. n \in Nat /\ Unread' = [i \in 1 .. n |-> storage[UnreadSlot(i - 1)'].header]
    BY <1>1, <1>2, <1>3 DEF Unread
  <2>2. \A i \in 1 .. n : UnreadSlot(i - 1)' = UnreadSlot(i)
    <3>. TAKE i \in 1 .. n
    <3>1. i - 1 \in 0 .. Size /\ (i - 1) + 1 = i
      BY <1>1, <1>3, QueueAssumption
    <3>. QED
      BY <1>1, <3>1, NextUnread DEF UnreadSlot, SlotOf, QueuePopUpdate, Incremented
  <2>3. Unread' = [i \in 1 .. n |-> storage[UnreadSlot(i)].header]
    BY <2>1, <2>2
  <2>4. \A i \in 1 .. n : storage[UnreadSlot(i)].header = Unread[i + 1]
    BY <1>3
  <2>5. /\ Tail(Unread) \in Seq(Frames) /\ Len(Tail(Unread)) = n
        /\ \A i \in 1 .. n : Tail(Unread)[i] = Unread[i + 1]
    BY <1>3, <1>4, HeadTailProperties
  <2>6. Tail(Unread) = [i \in 1 .. n |-> storage[UnreadSlot(i)].header]
    BY <2>1, <2>4, <2>5, LenProperties
  <2>. QED  BY <2>3, <2>6
<1>. QED  BY <1>1, <1>4, <1>5, <1>6 DEF Fifo!Take

(* Every step of the two threads is a step of the channel or leaves it     *)
(* alone, whatever the queue size and also across the wrap-around of the   *)
(* indices.                                                                *)
THEOREM QueueImplementsFifo == Spec => ImplementsFifo
<1>1. Init => Fifo!Init
  <2>. SUFFICES ASSUME Init
                PROVE  Fifo!Init
    OBVIOUS
  <2>1. QueueUsedSize = 0
    BY NothingUsed DEF Init
  <2>2. Unread = << >>
    BY <2>1 DEF Unread
  <2>. QED  BY <2>2 DEF Init, Blank, Fifo!Init
<1>2. QueueInv /\ QueueInv' /\ [Next]_vars => [Fifo!Next]_Fifo!vars
  <2>. SUFFICES ASSUME QueueInv, QueueInv', [Next]_vars
                PROVE  [Fifo!Next]_Fifo!vars
    OBVIOUS
  <2>. USE DEF queue_vars, push_vars, poll_vars
  <2>1. ASSUME UNCHANGED queue_vars
        PROVE  Unread' = Unread
    BY <2>1, SameUnread DEF UnreadSlot, SlotOf
  <2>2. ASSUME NEW f \in Frames, PushLidarData(f)
        PROVE  Fifo!Offer(f)
    BY <2>1, <2>2 DEF PushLidarData, QueueInv, FrameOffered, Fifo!Offer
  <2>3. CASE DropWhenFull
    <3>1. QueueUsedSize = Size /\ frame # NoFrame
      BY <2>3, UsedType, QueueAssumption
         DEF DropWhenFull, QueueIsFull, QueueInv, Bounded, BeforeInit, MaskIsSet,
             FrameOffered
    <3>2. /\ frame' = NoFrame
          /\ UNCHANGED <<queue_vars, popped>>
      BY <2>3 DEF DropWhenFull
    <3>3. Unread' = Unread
      BY <2>1, <3>2
    <3>4. Len(Unread) = Size
      BY <3>1, UnreadType
    <3>. QED  BY <3>1, <3>2, <3>3, <3>4 DEF Fifo!Refuse, Fifo!Next
  <2>4. CASE AllocateStorage \/ SetIndices
    <3>1. /\ rd_idx = 0 /\ wr_idx = 0 /\ UNCHANGED <<rd_idx, wr_idx, frame, popped>>
      BY <2>4 DEF QueueInv, BeforeInit, NothingQueued, AllocateStorage, SetIndices
    <3>2. QueueUsedSize = 0
      BY <3>1, NothingUsed
    <3>3. Unread' = Unread
      BY <3>1, <3>2, SameUnread
    <3>. QED  BY <3>1, <3>3 DEF Fifo!vars
  <2>5. CASE WriteHeader \/ WritePoints
    BY <2>5, FillSlotStutters DEF WriteHeader, WritePoints, Fifo!vars
  <2>6. CASE EnterPushAny \/ EnterPop \/ ReadHeader \/ ReadPoints
    BY <2>1, <2>6 DEF EnterPushAny, EnterPop, ReadHeader, ReadPoints, Fifo!vars
  <2>7. CASE UNCHANGED vars
    BY <2>1, <2>7 DEF vars, Fifo!vars
  <2>. QED
    BY <2>2, <2>3, <2>4, <2>5, <2>6, <2>7, HandOverAccepts, PopTakes
       DEF Next, Push, Pop, Fifo!Next
<1>. QED  BY <1>1, <1>2, QueueInvariant, PTL DEF Spec, ImplementsFifo, Fifo!Spec
==============================================================================
