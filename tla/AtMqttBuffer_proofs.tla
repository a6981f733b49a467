------------------------ MODULE AtMqttBuffer_proofs ------------------------
(***************************************************************************)
(* Theorems about the receive buffer for every number of static slots,     *)
(* every maximum and every number of calls.                                *)
(***************************************************************************)
EXTENDS AtMqttBuffer, FiniteSetTheorems, TLAPS

(* Wrapping stays among the slots when the number in use does.             *)
LEMMA WrapInSlots ==
    ASSUME NEW i \in Slots, NEW n \in 0..MaxBufferNum
    PROVE  Wrap(i, n) \in Slots
BY BufferAssumption DEF Wrap, Slots

(* A slot holds a message exactly while its flag is set: the flag and the  *)
(* memory are cleared together.                                            *)
FlagMatchesMemory ==
    \A i \in Slots : valid_flag[i] = 1 <=> slot[i] # NoMsg

TypeInv == TypeOK /\ FlagMatchesMemory

LEMMA WaitingAreIds == TypeInv => Waiting \subseteq Id
BY DEF TypeInv, TypeOK, FlagMatchesMemory, Waiting, Valid, Id, NoMsg

LEMMA TypeInit == Init => TypeInv
<1> SUFFICES ASSUME Init PROVE TypeInv
  OBVIOUS
<1>1. 0 \in Slots
  BY BufferAssumption DEF Slots
<1>2. FlagMatchesMemory
  BY DEF Init, FlagMatchesMemory, NoMsg
<1>3. ready \in BOOLEAN /\ connected \in BOOLEAN /\ halted \in BOOLEAN
  BY DEF Init
<1>4. 0 \in 0..MaxBufferNum /\ 0 \in 0..MaxInputs
  BY BufferAssumption
<1> QED
  BY <1>1, <1>2, <1>3, <1>4 DEF Init, TypeInv, TypeOK

(* One call of at_mqtt_input() that stores into slot t. *)
LEMMA TypeStore ==
    ASSUME TypeInv, NEW t \in Slots, Call, StoreAt(t),
           allocated' \subseteq Slots
    PROVE  /\ inputs + 1 \in Id
           /\ inputs' \in 0..MaxInputs
           /\ slot' \in [Slots -> Id \cup {NoMsg}]
           /\ valid_flag' \in [Slots -> {0, 1}]
           /\ lost' \subseteq Id
           /\ accepted' \subseteq Id
           /\ halted' \in BOOLEAN
           /\ FlagMatchesMemory'
<1> USE DEF TypeInv, TypeOK
<1>1. inputs + 1 \in Id /\ inputs' \in 0..MaxInputs /\ inputs + 1 # NoMsg
  BY BufferAssumption DEF Call, Id, NoMsg
<1>2. lost' \subseteq Id
  BY WaitingAreIds DEF StoreAt
<1>3. halted' \in BOOLEAN
  BY DEF StoreAt
<1>4. slot' \in [Slots -> Id \cup {NoMsg}] /\ valid_flag' \in [Slots -> {0, 1}]
  BY <1>1 DEF StoreAt
<1>5. FlagMatchesMemory'
  BY <1>1 DEF StoreAt, FlagMatchesMemory
<1> QED
  BY <1>1, <1>2, <1>3, <1>4, <1>5 DEF StoreAt

LEMMA TypeNext == TypeInv /\ [Next]_vars => TypeInv'
<1> SUFFICES ASSUME TypeInv, [Next]_vars PROVE TypeInv'
  OBVIOUS
<1> USE DEF TypeInv, TypeOK
<1>w. Waiting \subseteq Id
  BY WaitingAreIds
<1>0. 0 \in Slots /\ 0 \in 0..MaxBufferNum
  BY BufferAssumption DEF Slots
<1>c. ASSUME ClearAll
      PROVE  /\ write_index' \in Slots /\ read_index' \in Slots
             /\ last_write_index' \in Slots
             /\ valid_flag' \in [Slots -> {0, 1}]
             /\ slot' \in [Slots -> Id \cup {NoMsg}]
             /\ unzeroed' \subseteq Slots
             /\ lost' \subseteq Id
             /\ FlagMatchesMemory'
  BY <1>c, <1>w, <1>0 DEF ClearAll, FlagMatchesMemory, NoMsg
<1>1. CASE RecvBufInit
  <2>1. 0..(DefaultBufferNum - 1) \subseteq Slots /\ DefaultBufferNum \in 0..MaxBufferNum
    BY BufferAssumption DEF Slots
  <2> QED
    BY <1>1, <1>c, <2>1 DEF RecvBufInit
<1>2. CASE RecvBufDeinit
  BY <1>2, <1>c DEF RecvBufDeinit
<1>3. CASE InputRejected \/ InputFull
  <2>1. inputs' \in 0..MaxInputs
    BY <1>3, BufferAssumption DEF InputRejected, InputFull, Call
  <2> QED
    BY <1>3, <2>1 DEF InputRejected, InputFull, indices, memory, FlagMatchesMemory
<1>5. CASE InputStore
  <2>1. write_index' \in Slots
    BY <1>5, WrapInSlots DEF InputStore
  <2> QED
    BY <1>5, <1>0, <2>1, TypeStore DEF InputStore
<1>6. CASE InputGrow
  <2>1. buffer_num \in Slots /\ buffer_num' \in 0..MaxBufferNum
    BY <1>6, BufferAssumption DEF InputGrow, Slots
  <2>2. write_index' \in Slots
    BY <1>6, <2>1, WrapInSlots DEF InputGrow
  <2>3. allocated' \subseteq Slots /\ unzeroed' \subseteq Slots
    BY <1>6, <2>1 DEF InputGrow
  <2> QED
    BY <1>6, <2>1, <2>2, <2>3, TypeStore DEF InputGrow
<1>7. CASE InputNoMemory
  <2>1. inputs' \in 0..MaxInputs
    BY <1>7, BufferAssumption DEF InputNoMemory, Call
  <2> QED
    BY <1>7, <2>1 DEF InputNoMemory, FlagMatchesMemory
<1>8. CASE BeginRead
  <2>1. slot[read_index] \in Id
    BY <1>8 DEF BeginRead, CanRead, FlagMatchesMemory, NoMsg
  <2> QED
    BY <1>8, <2>1 DEF BeginRead, indices, memory, FlagMatchesMemory
<1>f. ASSUME NEW i \in Slots, NEW next \in Slots, Free(i, next, {i})
      PROVE  /\ read_index' \in Slots
             /\ slot' \in [Slots -> Id \cup {NoMsg}]
             /\ valid_flag' \in [Slots -> {0, 1}]
             /\ unzeroed' \subseteq Slots
             /\ reading' = NoRead
             /\ FlagMatchesMemory'
             /\ UNCHANGED <<write_index, last_write_index, buffer_num,
                            allocated, ready, connected, inputs, accepted,
                            grown, lost>>
  BY <1>f DEF Free, FlagMatchesMemory
<1>9. CASE EndRead
  <2>1. reading \in Slots
    BY <1>9 DEF EndRead, EndReadOf
  <2>2. Wrap(reading, buffer_num) \in Slots
    BY <2>1, WrapInSlots
  <2>3. halted' \in BOOLEAN /\ UNCHANGED <<delivered, dropped>>
    BY <1>9 DEF EndRead, EndReadOf
  <2>4. Free(reading, Wrap(reading, buffer_num), {reading})
    BY <1>9 DEF EndRead, EndReadOf
  <2> QED
    BY <1>f, <2>1, <2>2, <2>3, <2>4
<1>12. CASE Drop
  <2>1. Wrap(read_index, buffer_num) \in Slots
    BY WrapInSlots
  <2>2. slot[read_index] \in Id
    BY <1>12 DEF Drop, CanRead, FlagMatchesMemory, NoMsg
  <2>3. Free(read_index, Wrap(read_index, buffer_num), {read_index})
    BY <1>12 DEF Drop
  <2>4. dropped' \subseteq Id /\ UNCHANGED <<halted, delivered>>
    BY <1>12, <2>2 DEF Drop
  <2> QED
    BY <1>f, <2>1, <2>3, <2>4
<1>13. CASE StateChanges
  BY <1>13 DEF StateChanges, indices, memory, history, FlagMatchesMemory
<1>10. CASE Restart
  <2>1. lost' \subseteq Id
    BY <1>10, <1>w DEF Restart
  <2>2. FlagMatchesMemory'
    BY <1>10 DEF Restart, FlagMatchesMemory, NoMsg
  <2> QED
    BY <1>10, <1>0, <2>1, <2>2 DEF Restart
<1>11. CASE UNCHANGED vars
  BY <1>11 DEF vars, indices, memory, history, FlagMatchesMemory
<1> QED
  BY <1>1, <1>2, <1>3, <1>5, <1>6, <1>7, <1>8, <1>9, <1>10, <1>11, <1>12,
     <1>13
  DEF Next, Input, Read

(* Every variable keeps the range the declarations of                      *)
(* eng/atm/at_mqtt.c give it: the indices never leave the slot array.      *)
THEOREM TypeCorrect == Spec => []TypeOK
<1>1. TypeInv => TypeOK
  BY DEF TypeInv
<1> QED
  BY <1>1, TypeInit, TypeNext, PTL DEF Spec

-----------------------------------------------------------------------------
(* The ring: the two indices, the flags and the memory.                    *)
RingInv == OccupiedInterval /\ FaultsOnlyOutsideService /\ HandlerOwnsItsSlot

LEMMA RingInit == Init => RingInv
BY DEF Init, RingInv, OccupiedInterval, FaultsOnlyOutsideService,
       HandlerOwnsItsSlot

(* Writing at an occupied slot means that the ring is full. *)
LEMMA OccupiedMeansFull ==
    ASSUME TypeInv, RingInv, ready, valid_flag[write_index] = 1
    PROVE  /\ read_index = write_index
           /\ \A i \in 0..(buffer_num - 1) : valid_flag[i] = 1
<1> USE DEF TypeInv, TypeOK, RingInv, OccupiedInterval, Slots
<1>1. write_index \in 0..(buffer_num - 1)
  OBVIOUS
<1>2. read_index = write_index
  <2> SUFFICES ASSUME read_index # write_index PROVE FALSE
    OBVIOUS
  <2>1. InInterval(write_index)
    BY <1>1
  <2> QED
    BY <2>1 DEF InInterval
<1> QED
  BY <1>1, <1>2

LEMMA RingStore ==
    ASSUME TypeInv, RingInv, InputStore
    PROVE  RingInv'
<1> USE DEF TypeInv, TypeOK, RingInv, Slots
<1>1. CASE ~ready
  BY <1>1 DEF InputStore, OccupiedInterval, FaultsOnlyOutsideService,
              HandlerOwnsItsSlot
<1>2. CASE ready
  <2> USE <1>2
  <2>1. /\ ready' /\ read_index' = read_index /\ buffer_num' = buffer_num
        /\ write_index' = Wrap(write_index, buffer_num)
        /\ valid_flag' = [valid_flag EXCEPT ![write_index] = 1]
        /\ valid_flag[write_index] = 0
        /\ allocated' = allocated
        /\ reading' = reading /\ delivered' = delivered
    BY DEF InputStore, StoreAt
  <2>2. /\ buffer_num \in 1..MaxBufferNum
        /\ write_index \in 0..(buffer_num - 1)
        /\ read_index \in 0..(buffer_num - 1)
    BY BufferAssumption DEF OccupiedInterval
  <2>3. write_index' \in 0..(buffer_num - 1)
    BY <2>1, <2>2 DEF Wrap
  <2>4. \A i \in Slots : buffer_num =< i => valid_flag'[i] = 0
    BY <2>1, <2>2 DEF OccupiedInterval
  <2>5. \A i \in 0..(buffer_num - 1) :
            valid_flag[i] = 1 <=> (read_index # write_index /\ InInterval(i))
    <3>1. CASE read_index # write_index
      BY <3>1, <2>2 DEF OccupiedInterval
    <3>2. CASE read_index = write_index
      BY <3>2, <2>1, <2>2 DEF OccupiedInterval
    <3> QED
      BY <3>1, <3>2
  <2>6. ASSUME NEW i \in 0..(buffer_num - 1), read_index' # write_index'
        PROVE  valid_flag'[i] = 1 <=> InInterval(i)'
    <3>0. i \in Slots
      BY <2>2, BufferAssumption
    <3>1. CASE i = write_index
      BY <3>0, <3>1, <2>1, <2>2, <2>6 DEF InInterval, Wrap
    <3>2. CASE i # write_index
      <4>1. valid_flag'[i] = valid_flag[i]
        BY <3>0, <3>2, <2>1
      <4>2. (read_index # write_index /\ InInterval(i)) <=> InInterval(i)'
        BY <3>2, <2>1, <2>2, <2>6 DEF InInterval, Wrap
      <4> QED
        BY <4>1, <4>2, <2>5
    <3> QED
      BY <3>1, <3>2
  <2>7. ASSUME NEW i \in 0..(buffer_num - 1), read_index' = write_index'
        PROVE  valid_flag'[i] = 1
    <3>0. i \in Slots
      BY <2>2, BufferAssumption
    <3>1. CASE i = write_index
      BY <3>0, <3>1, <2>1
    <3>2. CASE i # write_index
      <4>1. valid_flag'[i] = valid_flag[i]
        BY <3>0, <3>2, <2>1
      <4>2. read_index # write_index /\ InInterval(i)
        BY <3>2, <2>1, <2>2, <2>7 DEF InInterval, Wrap
      <4> QED
        BY <4>1, <4>2, <2>5
    <3> QED
      BY <3>1, <3>2
  <2>8. OccupiedInterval'
    BY <2>1, <2>2, <2>3, <2>4, <2>6, <2>7 DEF OccupiedInterval
  <2>9. FaultsOnlyOutsideService'
    <3>1. write_index \in allocated'
      BY <2>1, <2>2 DEF FaultsOnlyOutsideService
    <3>2. halted' = FALSE
      BY <3>1 DEF InputStore, StoreAt
    <3> QED
      BY <2>1, <3>2 DEF FaultsOnlyOutsideService
  <2>10. HandlerOwnsItsSlot'
    <3> SUFFICES ASSUME reading # NoRead
                 PROVE  /\ reading = read_index
                        /\ valid_flag'[reading] = 1
                        /\ slot'[reading] \in delivered
      BY <2>1 DEF HandlerOwnsItsSlot
    <3>1. reading \in Slots /\ reading = read_index /\ reading # write_index
      BY <2>1 DEF HandlerOwnsItsSlot
    <3> QED
      BY <3>1, <2>1 DEF HandlerOwnsItsSlot, InputStore, StoreAt
  <2> QED
    BY <2>8, <2>9, <2>10
<1> QED
  BY <1>1, <1>2

LEMMA RingGrow ==
    ASSUME TypeInv, RingInv, InputGrow
    PROVE  RingInv'
<1> USE DEF TypeInv, TypeOK, RingInv, Slots
<1>1. CASE ~ready
  BY <1>1 DEF InputGrow, OccupiedInterval, FaultsOnlyOutsideService,
              HandlerOwnsItsSlot
<1>2. CASE ready
  <2> USE <1>2
  <2>1. /\ read_index = write_index
        /\ \A i \in 0..(buffer_num - 1) : valid_flag[i] = 1
    BY OccupiedMeansFull DEF InputGrow
  <2>2. /\ buffer_num \in 1..(MaxBufferNum - 1)
        /\ write_index \in 0..(buffer_num - 1)
    BY BufferAssumption DEF OccupiedInterval, InputGrow
  <2>3. /\ ready' /\ read_index' = read_index /\ buffer_num' = buffer_num + 1
        /\ valid_flag' = [valid_flag EXCEPT ![buffer_num] = 1]
        /\ slot' = [slot EXCEPT ![buffer_num] = inputs + 1]
        /\ allocated' = allocated \cup {buffer_num}
        /\ reading' = reading /\ delivered' = delivered
    BY DEF InputGrow, StoreAt
  <2>4. write_index' = write_index
    BY <2>2 DEF InputGrow, Wrap
  <2>5. \A i \in 0..buffer_num : valid_flag'[i] = 1
    BY <2>1, <2>2, <2>3
  <2>6. \A i \in Slots : buffer_num + 1 =< i => valid_flag'[i] = 0
    BY <2>2, <2>3 DEF OccupiedInterval
  <2>7. OccupiedInterval'
    BY <2>1, <2>2, <2>3, <2>4, <2>5, <2>6, BufferAssumption
    DEF OccupiedInterval
  <2>8. FaultsOnlyOutsideService'
    <3>1. allocated' = 0..buffer_num
      BY <2>2, <2>3 DEF FaultsOnlyOutsideService
    <3>2. halted' = FALSE
      BY <2>3 DEF InputGrow, StoreAt
    <3> QED
      BY <2>2, <2>3, <3>1, <3>2 DEF FaultsOnlyOutsideService
  <2>9. HandlerOwnsItsSlot'
    BY <2>1, <2>2, <2>3 DEF HandlerOwnsItsSlot
  <2> QED
    BY <2>7, <2>8, <2>9
<1> QED
  BY <1>1, <1>2

(* Freeing the oldest slot leaves the interval one shorter. *)
LEMMA RingFree ==
    ASSUME TypeInv, RingInv, ready, valid_flag[read_index] = 1,
           Free(read_index, Wrap(read_index, buffer_num), {read_index}),
           halted' = FALSE
    PROVE  RingInv'
<1> USE DEF TypeInv, TypeOK, RingInv, Slots
<1>1. read_index \in Slots
  OBVIOUS
<1>2. /\ ready' = ready /\ write_index' = write_index
      /\ buffer_num' = buffer_num /\ allocated' = allocated
      /\ read_index' = Wrap(read_index, buffer_num)
      /\ valid_flag' = [valid_flag EXCEPT ![read_index] = 0]
      /\ reading' = NoRead
  BY DEF Free
<1>3. /\ buffer_num \in 1..MaxBufferNum
      /\ write_index \in 0..(buffer_num - 1)
      /\ read_index \in 0..(buffer_num - 1)
  BY <1>1, BufferAssumption DEF OccupiedInterval
<1>4. read_index' \in 0..(buffer_num - 1)
  BY <1>2, <1>3 DEF Wrap
<1>5. \A i \in Slots : buffer_num =< i => valid_flag'[i] = 0
  BY <1>1, <1>2, <1>3 DEF OccupiedInterval
<1>6. \A i \in 0..(buffer_num - 1) :
          valid_flag[i] = 1 <=> (read_index = write_index \/ InInterval(i))
  <2>1. CASE read_index # write_index
    BY <2>1, <1>1, <1>3 DEF OccupiedInterval
  <2>2. CASE read_index = write_index
    BY <2>2, <1>1, <1>3 DEF OccupiedInterval
  <2> QED
    BY <2>1, <2>2
<1>7. ASSUME NEW i \in 0..(buffer_num - 1), read_index' # write_index'
      PROVE  valid_flag'[i] = 1 <=> InInterval(i)'
  <2>0. i \in Slots
    BY <1>3, BufferAssumption
  <2>1. CASE i = read_index
    BY <2>0, <2>1, <1>2, <1>3, <1>7 DEF InInterval, Wrap
  <2>2. CASE i # read_index
    <3>1. valid_flag'[i] = valid_flag[i]
      BY <2>0, <2>2, <1>2
    <3>2. (read_index = write_index \/ InInterval(i)) <=> InInterval(i)'
      BY <2>2, <1>2, <1>3, <1>7 DEF InInterval, Wrap
    <3> QED
      BY <3>1, <3>2, <1>6
  <2> QED
    BY <2>1, <2>2
<1>8. ASSUME NEW i \in 0..(buffer_num - 1), read_index' = write_index'
      PROVE  valid_flag'[i] = 0
  <2>0. i \in Slots
    BY <1>3, BufferAssumption
  <2>1. CASE i = read_index
    BY <2>0, <2>1, <1>2
  <2>2. CASE i # read_index
    <3>1. valid_flag'[i] = valid_flag[i] /\ valid_flag[i] \in {0, 1}
      BY <2>0, <2>2, <1>2
    <3>2. ~(read_index = write_index \/ InInterval(i))
      BY <2>2, <1>2, <1>3, <1>8 DEF InInterval, Wrap
    <3> QED
      BY <3>1, <3>2, <1>6
  <2> QED
    BY <2>1, <2>2
<1>9. OccupiedInterval'
  BY <1>1, <1>2, <1>3, <1>4, <1>5, <1>7, <1>8, BufferAssumption
  DEF OccupiedInterval
<1>10. FaultsOnlyOutsideService'
  BY <1>2 DEF FaultsOnlyOutsideService
<1> QED
  BY <1>2, <1>9, <1>10 DEF HandlerOwnsItsSlot

LEMMA RingEndRead ==
    ASSUME TypeInv, RingInv, EndRead
    PROVE  RingInv'
<1>1. /\ ready /\ reading \in Slots /\ reading = read_index
      /\ valid_flag[read_index] = 1
  BY DEF EndRead, EndReadOf, RingInv, HandlerOwnsItsSlot, TypeInv, TypeOK
<1>2. reading \in allocated
  BY <1>1, BufferAssumption
  DEF RingInv, FaultsOnlyOutsideService, OccupiedInterval, TypeInv, TypeOK,
      Slots
<1>3. /\ Free(read_index, Wrap(read_index, buffer_num), {read_index})
      /\ halted' = FALSE
  BY <1>1, <1>2 DEF EndRead, EndReadOf
<1> QED
  BY <1>1, <1>3, RingFree

LEMMA RingDrop ==
    ASSUME TypeInv, RingInv, Drop
    PROVE  RingInv'
<1>1. halted' = FALSE
  BY DEF Drop, CanRead, TypeInv, TypeOK
<1> QED
  BY <1>1, RingFree DEF Drop, CanRead

LEMMA RingNext == TypeInv /\ RingInv /\ [Next]_vars => RingInv'
<1> SUFFICES ASSUME TypeInv, RingInv, [Next]_vars PROVE RingInv'
  OBVIOUS
<1> USE DEF RingInv
<1>1. CASE RecvBufInit
  BY <1>1, BufferAssumption
  DEF RecvBufInit, ClearAll, Slots, OccupiedInterval,
      FaultsOnlyOutsideService, HandlerOwnsItsSlot
<1>2. CASE RecvBufDeinit
  BY <1>2 DEF RecvBufDeinit, OccupiedInterval,
              FaultsOnlyOutsideService, HandlerOwnsItsSlot
<1>3. CASE InputRejected \/ InputFull
  BY <1>3 DEF InputRejected, InputFull, indices, memory, OccupiedInterval,
              InInterval, FaultsOnlyOutsideService, HandlerOwnsItsSlot
<1>4. CASE InputNoMemory
  <2>1. ready => allocated' = allocated
    BY <1>4 DEF InputNoMemory, FaultsOnlyOutsideService, OccupiedInterval,
                TypeInv, TypeOK
  <2> QED
    BY <1>4, <2>1
    DEF InputNoMemory, OccupiedInterval, InInterval,
        FaultsOnlyOutsideService, HandlerOwnsItsSlot
<1>5. CASE BeginRead
  BY <1>5 DEF BeginRead, CanRead, indices, memory, OccupiedInterval,
              InInterval, FaultsOnlyOutsideService, HandlerOwnsItsSlot
<1>6. CASE Restart
  BY <1>6 DEF Restart, OccupiedInterval, FaultsOnlyOutsideService,
              HandlerOwnsItsSlot
<1>7. CASE StateChanges \/ UNCHANGED vars
  BY <1>7 DEF StateChanges, vars, indices, memory, history, OccupiedInterval,
              InInterval, FaultsOnlyOutsideService, HandlerOwnsItsSlot
<1> QED
  BY <1>1, <1>2, <1>3, <1>4, <1>5, <1>6, <1>7, RingStore, RingGrow,
     RingEndRead, RingDrop
  DEF Next, Input, Read

LEMMA RingAlways == Spec => [](TypeInv /\ RingInv)
<1>1. Init => TypeInv /\ RingInv
  BY TypeInit, RingInit
<1>2. TypeInv /\ RingInv /\ [Next]_vars => (TypeInv /\ RingInv)'
  BY TypeNext, RingNext
<1> QED
  BY <1>1, <1>2, PTL DEF Spec

(* The occupied slots are the cyclic interval between the indices of       *)
(* mal_mc_cycle() and at_mqtt_input(), however the ring grew.              *)
THEOREM OccupiedIntervalHolds == Spec => []OccupiedInterval
<1>1. RingInv => OccupiedInterval
  BY DEF RingInv
<1> QED
  BY <1>1, RingAlways, PTL

(* No access of at_mqtt_input() or mal_mc_cycle() goes through a NULL slot *)
(* while a client is served.                                               *)
THEOREM FaultsOnlyOutsideServiceHolds == Spec => []FaultsOnlyOutsideService
<1>1. RingInv => FaultsOnlyOutsideService
  BY DEF RingInv
<1> QED
  BY <1>1, RingAlways, PTL

(* Nothing reuses the slot of a running handler.                           *)
THEOREM HandlerOwnsItsSlotHolds == Spec => []HandlerOwnsItsSlot
<1>1. RingInv => HandlerOwnsItsSlot
  BY DEF RingInv
<1> QED
  BY <1>1, RingAlways, PTL

(* mal_mc_cycle() never misses a waiting message by looking at one slot.   *)
THEOREM ReaderFindsWorkHolds == Spec => []ReaderFindsWork
<1>1. TypeInv /\ RingInv => ReaderFindsWork
  <2> SUFFICES ASSUME TypeInv, RingInv, ready, Valid # {}
               PROVE  valid_flag[read_index] = 1
    BY DEF ReaderFindsWork
  <2> USE DEF TypeInv, TypeOK, RingInv, OccupiedInterval, Slots
  <2>1. PICK k \in Slots : valid_flag[k] = 1
    BY DEF Valid
  <2>2. k \in 0..(buffer_num - 1) /\ read_index \in 0..(buffer_num - 1)
    BY <2>1
  <2>3. CASE read_index = write_index
    BY <2>1, <2>2, <2>3
  <2>4. CASE read_index # write_index
    <3>1. InInterval(read_index)
      BY <2>4 DEF InInterval
    <3> QED
      BY <2>2, <2>4, <3>1
  <2> QED
    BY <2>3, <2>4
<1> QED
  BY <1>1, RingAlways, PTL

-----------------------------------------------------------------------------
(* The messages: where each accepted one is.                               *)
AcceptedInThePast == accepted \subseteq 1..inputs

MessageInv == AcceptedInThePast /\ EachMessageOnce

LEMMA MessageInit == Init => MessageInv
BY DEF Init, MessageInv, AcceptedInThePast, EachMessageOnce, Waiting, Valid

(* The next call carries a message nobody has. *)
LEMMA NextIdIsNew ==
    ASSUME TypeInv, MessageInv
    PROVE  /\ inputs + 1 \notin accepted
           /\ inputs + 1 \notin delivered
           /\ inputs + 1 \notin dropped
           /\ inputs + 1 \notin lost
           /\ inputs + 1 \notin Waiting
           /\ \A i \in Valid : slot[i] # inputs + 1
<1>1. inputs \in Nat
  BY BufferAssumption DEF TypeInv, TypeOK
<1>2. inputs + 1 \notin accepted
  BY <1>1 DEF MessageInv, AcceptedInThePast
<1>3. \A i \in Valid : slot[i] \in accepted
  BY DEF MessageInv, EachMessageOnce, Waiting
<1> QED
  BY <1>2, <1>3 DEF MessageInv, EachMessageOnce

(* What is waiting after a store into t. *)
LEMMA WaitingAfterStore ==
    ASSUME TypeInv, MessageInv, NEW t \in Slots, StoreAt(t),
           delivered' = delivered
    PROVE  /\ Valid' = Valid \cup {t}
           /\ \A i \in Slots \ {t} : slot'[i] = slot[i]
           /\ slot'[t] = inputs + 1
           /\ Waiting' = (Waiting \ {slot[t]}) \cup {inputs + 1}
<1> USE DEF TypeInv, TypeOK
<1>1. Valid' = Valid \cup {t}
  BY DEF StoreAt, Valid
<1>2. /\ \A i \in Slots \ {t} : slot'[i] = slot[i]
      /\ slot'[t] = inputs + 1
  BY DEF StoreAt
<1>3. \A i \in Valid : slot[i] = slot[t] => i = t
  <2>1. CASE t \in Valid
    BY <2>1 DEF MessageInv, EachMessageOnce
  <2>2. CASE t \notin Valid
    BY <2>2 DEF FlagMatchesMemory, Valid
  <2> QED
    BY <2>1, <2>2
<1>4. Valid \subseteq Slots
  BY DEF Valid
<1> DEFINE stored == {slot[i] : i \in Valid}
<1>5. Waiting = stored \ delivered /\ Waiting' = stored' \ delivered
  BY DEF Waiting
<1>6. stored' = (stored \ {slot[t]}) \cup {inputs + 1}
  BY <1>1, <1>2, <1>3, <1>4
<1>7. inputs + 1 \notin delivered
  BY NextIdIsNew
<1> HIDE DEF stored
<1>8. Waiting' = (Waiting \ {slot[t]}) \cup {inputs + 1}
  BY <1>5, <1>6, <1>7
<1> QED
  BY <1>1, <1>2, <1>8

LEMMA MessageStored ==
    ASSUME TypeInv, RingInv, MessageInv, NEW t \in Slots, Call, StoreAt(t),
           delivered' = delivered, dropped' = dropped, reading' = reading
    PROVE  MessageInv'
<1>1. /\ Valid' = Valid \cup {t}
      /\ \A i \in Slots \ {t} : slot'[i] = slot[i]
      /\ slot'[t] = inputs + 1
      /\ Waiting' = (Waiting \ {slot[t]}) \cup {inputs + 1}
  BY WaitingAfterStore
<1>2. /\ accepted' = accepted \cup {inputs + 1}
      /\ lost' = lost \cup ({slot[t]} \cap Waiting)
  BY DEF StoreAt
<1>3. AcceptedInThePast'
  BY <1>2, BufferAssumption
  DEF MessageInv, AcceptedInThePast, Call, TypeInv, TypeOK
<1>4. Valid \subseteq Slots
  BY DEF Valid
<1>5. accepted' = delivered' \cup dropped' \cup lost' \cup Waiting'
  BY <1>1, <1>2 DEF MessageInv, EachMessageOnce
<1>6. /\ delivered' \cap dropped' = {}
      /\ lost' \cap (delivered' \cup dropped') = {}
      /\ dropped' \subseteq Filtered
  BY <1>2 DEF MessageInv, EachMessageOnce, Waiting
<1>7. Waiting' \cap (lost' \cup dropped') = {}
  BY <1>1, <1>2, NextIdIsNew DEF MessageInv, EachMessageOnce
<1>8. \A i, j \in Valid' : slot'[i] = slot'[j] => i = j
  BY <1>1, <1>4, NextIdIsNew DEF MessageInv, EachMessageOnce
<1>9. \A i \in Valid' : slot'[i] \in delivered' => i = reading'
  BY <1>1, <1>4, NextIdIsNew DEF MessageInv, EachMessageOnce
<1> QED
  BY <1>3, <1>5, <1>6, <1>7, <1>8, <1>9 DEF MessageInv, EachMessageOnce

LEMMA MessageBeginRead ==
    ASSUME TypeInv, MessageInv, BeginRead
    PROVE  /\ MessageInv'
           /\ slot[read_index] \in Waiting
           /\ Waiting' = Waiting \ {slot[read_index]}
<1> DEFINE m == slot[read_index]
<1>1. /\ read_index \in Valid /\ reading = NoRead /\ reading' = read_index
      /\ Valid' = Valid /\ slot' = slot /\ accepted' = accepted
      /\ inputs' = inputs /\ lost' = lost /\ dropped' = dropped
      /\ delivered' = delivered \cup {m}
  BY DEF BeginRead, CanRead, Valid, memory, TypeInv, TypeOK
<1>2. m \notin delivered
  BY <1>1 DEF MessageInv, EachMessageOnce, Valid, Slots, NoRead
<1>3. m \in Waiting
  BY <1>1, <1>2 DEF Waiting
<1>4. Waiting' = Waiting \ {m}
  BY <1>1 DEF Waiting
<1>5. EachMessageOnce'
  <2>1. accepted' = delivered' \cup dropped' \cup lost' \cup Waiting'
    BY <1>1, <1>3, <1>4 DEF MessageInv, EachMessageOnce
  <2>2. /\ delivered' \cap dropped' = {}
        /\ lost' \cap (delivered' \cup dropped') = {}
        /\ Waiting' \cap (lost' \cup dropped') = {}
        /\ dropped' \subseteq Filtered
    BY <1>1, <1>3, <1>4 DEF MessageInv, EachMessageOnce
  <2>3. \A i, j \in Valid' : slot'[i] = slot'[j] => i = j
    BY <1>1 DEF MessageInv, EachMessageOnce
  <2>4. ASSUME NEW i \in Valid', slot'[i] \in delivered'
        PROVE  i = reading'
    <3>1. i \in Slots /\ i # NoRead
      BY DEF Valid, Slots, NoRead
    <3>2. slot[i] \notin delivered
      BY <1>1, <3>1 DEF MessageInv, EachMessageOnce
    <3> QED
      BY <1>1, <2>4, <3>2 DEF MessageInv, EachMessageOnce
  <2> QED
    BY <2>1, <2>2, <2>3, <2>4 DEF EachMessageOnce
<1> QED
  BY <1>1, <1>3, <1>4, <1>5 DEF MessageInv, AcceptedInThePast

LEMMA MessageEndRead ==
    ASSUME TypeInv, RingInv, MessageInv, EndRead
    PROVE  MessageInv' /\ Waiting' = Waiting
<1>1. /\ reading \in Valid /\ slot[reading] \in delivered
  BY DEF EndRead, EndReadOf, RingInv, HandlerOwnsItsSlot, Valid, TypeInv, TypeOK
<1>2. /\ Valid' = Valid \ {reading}
      /\ \A i \in Slots \ {reading} : slot'[i] = slot[i]
  BY <1>1 DEF EndRead, EndReadOf, Free, Valid, TypeInv, TypeOK
<1>3. UNCHANGED <<accepted, inputs, lost, delivered, dropped>>
  BY DEF EndRead, EndReadOf, Free
<1>4. Valid \subseteq Slots
  BY DEF Valid
<1>5. Waiting' = Waiting
  BY <1>1, <1>2, <1>3, <1>4 DEF Waiting
<1>6. \A i, j \in Valid' : slot'[i] = slot'[j] => i = j
  BY <1>2, <1>4 DEF MessageInv, EachMessageOnce
<1>7. \A i \in Valid' : slot'[i] \notin delivered'
  BY <1>2, <1>3, <1>4 DEF MessageInv, EachMessageOnce
<1> QED
  BY <1>3, <1>5, <1>6, <1>7 DEF MessageInv, AcceptedInThePast, EachMessageOnce

(* A dropped message leaves the ring for good. *)
LEMMA MessageDrop ==
    ASSUME TypeInv, MessageInv, Drop
    PROVE  /\ MessageInv'
           /\ slot[read_index] \in Waiting
           /\ Waiting' = Waiting \ {slot[read_index]}
<1> DEFINE m == slot[read_index]
<1>1. /\ read_index \in Valid /\ reading = NoRead /\ reading' = NoRead
      /\ m \in Filtered /\ dropped' = dropped \cup {m}
  BY DEF Drop, CanRead, Free, Valid, TypeInv, TypeOK
<1>2. /\ Valid' = Valid \ {read_index}
      /\ \A i \in Slots \ {read_index} : slot'[i] = slot[i]
  BY DEF Drop, CanRead, Free, Valid, TypeInv, TypeOK
<1>3. UNCHANGED <<accepted, inputs, lost, delivered>>
  BY DEF Drop, Free
<1>4. Valid \subseteq Slots /\ NoRead \notin Slots
  BY DEF Valid, Slots, NoRead
<1>5. m \notin delivered
  BY <1>1, <1>4 DEF MessageInv, EachMessageOnce
<1>6. m \in Waiting
  BY <1>1, <1>5 DEF Waiting
<1>7. \A i \in Valid \ {read_index} : slot[i] # m
  BY <1>1 DEF MessageInv, EachMessageOnce
<1>8. Waiting' = Waiting \ {m}
  BY <1>1, <1>2, <1>3, <1>4, <1>7 DEF Waiting
<1>9. EachMessageOnce'
  <2>1. accepted' = delivered' \cup dropped' \cup lost' \cup Waiting'
    BY <1>1, <1>3, <1>6, <1>8 DEF MessageInv, EachMessageOnce
  <2>2. /\ delivered' \cap dropped' = {}
        /\ lost' \cap (delivered' \cup dropped') = {}
        /\ Waiting' \cap (lost' \cup dropped') = {}
        /\ dropped' \subseteq Filtered
    BY <1>1, <1>3, <1>5, <1>6, <1>8 DEF MessageInv, EachMessageOnce
  <2>3. \A i, j \in Valid' : slot'[i] = slot'[j] => i = j
    BY <1>2, <1>4 DEF MessageInv, EachMessageOnce
  <2>4. \A i \in Valid' : slot'[i] \notin delivered'
    BY <1>1, <1>2, <1>3, <1>4 DEF MessageInv, EachMessageOnce
  <2> QED
    BY <2>1, <2>2, <2>3, <2>4 DEF EachMessageOnce
<1> QED
  BY <1>3, <1>6, <1>8, <1>9 DEF MessageInv, AcceptedInThePast

(* Init, release and reset leave nothing waiting. *)
LEMMA MessageWiped ==
    ASSUME MessageInv, valid_flag' = [i \in Slots |-> 0],
           lost' = lost \cup Waiting,
           UNCHANGED <<inputs, accepted, delivered, dropped>>
    PROVE  MessageInv' /\ Waiting' = {}
<1>1. Valid' = {} /\ Waiting' = {}
  BY DEF Valid, Waiting
<1> QED
  BY <1>1 DEF MessageInv, AcceptedInThePast, EachMessageOnce, Waiting

(* The steps that move no message. *)
LEMMA MessageUnmoved ==
    ASSUME TypeInv, MessageInv, inputs' \in {inputs, inputs + 1},
           UNCHANGED <<valid_flag, slot, reading, accepted, delivered, dropped,
                       lost>>
    PROVE  MessageInv' /\ Waiting' = Waiting
<1>1. Valid' = Valid /\ Waiting' = Waiting
  BY DEF Valid, Waiting
<1>2. AcceptedInThePast'
  BY BufferAssumption
  DEF MessageInv, AcceptedInThePast, TypeInv, TypeOK
<1> QED
  BY <1>1, <1>2 DEF MessageInv, EachMessageOnce

LEMMA MessageNext ==
    TypeInv /\ RingInv /\ MessageInv /\ [Next]_vars => MessageInv'
<1> SUFFICES ASSUME TypeInv, RingInv, MessageInv, [Next]_vars
             PROVE  MessageInv'
  OBVIOUS
<1>1. CASE RecvBufInit \/ RecvBufDeinit
  BY <1>1, MessageWiped DEF RecvBufInit, RecvBufDeinit, ClearAll
<1>2. CASE Restart
  BY <1>2, MessageWiped DEF Restart
<1>3. CASE InputRejected \/ InputFull \/ InputNoMemory
  BY <1>3, MessageUnmoved
  DEF InputRejected, InputFull, InputNoMemory, Call, indices, memory
<1>4. CASE InputStore
  BY <1>4, MessageStored DEF InputStore, TypeInv, TypeOK
<1>5. CASE InputGrow
  <2>1. buffer_num \in Slots
    BY <1>5, BufferAssumption DEF InputGrow, TypeInv, TypeOK, Slots
  <2> QED
    BY <1>5, <2>1, MessageStored DEF InputGrow
<1>6. CASE BeginRead
  BY <1>6, MessageBeginRead
<1>7. CASE EndRead
  BY <1>7, MessageEndRead
<1>8. CASE Drop
  BY <1>8, MessageDrop
<1>9. CASE StateChanges \/ UNCHANGED vars
  BY <1>9, MessageUnmoved DEF StateChanges, vars, memory, history
<1> QED
  BY <1>1, <1>2, <1>3, <1>4, <1>5, <1>6, <1>7, <1>8, <1>9
  DEF Next, Input, Read

LEMMA MessagesAlways == Spec => [](TypeInv /\ RingInv /\ MessageInv)
<1>1. Init => TypeInv /\ RingInv /\ MessageInv
  BY TypeInit, RingInit, MessageInit
<1>2. TypeInv /\ RingInv /\ MessageInv /\ [Next]_vars
      => (TypeInv /\ RingInv /\ MessageInv)'
  BY TypeNext, RingNext, MessageNext
<1> QED
  BY <1>1, <1>2, PTL DEF Spec

(* at_mqtt_input() and mal_mc_cycle() neither drop nor repeat a message.   *)
THEOREM EachMessageOnceHolds == Spec => []EachMessageOnce
<1>1. MessageInv => EachMessageOnce
  BY DEF MessageInv
<1> QED
  BY <1>1, MessagesAlways, PTL

(* Storing and growing never overwrite a waiting message of a served       *)
(* client.                                                                 *)
THEOREM NoLossInServiceHolds == Spec => NoLossInService
<1>1. TypeInv /\ RingInv /\ [Next]_vars
      => [ready /\ ready' => lost' = lost]_vars
  <2> SUFFICES ASSUME TypeInv, RingInv, Next, ready, ready'
               PROVE  lost' = lost
    OBVIOUS
  <2>1. \A t \in Slots : valid_flag[t] = 0 => slot[t] \notin Waiting
    BY WaitingAreIds DEF TypeInv, TypeOK, FlagMatchesMemory, Id, NoMsg
  <2>2. CASE InputStore
    BY <2>1, <2>2 DEF InputStore, StoreAt, TypeInv, TypeOK
  <2>3. CASE InputGrow
    <3>1. buffer_num \in Slots /\ valid_flag[buffer_num] = 0
      BY <2>3, BufferAssumption
      DEF InputGrow, TypeInv, TypeOK, Slots, RingInv, OccupiedInterval
    <3> QED
      BY <2>1, <2>3, <3>1 DEF InputGrow, StoreAt
  <2> QED
    BY <2>2, <2>3
    DEF Next, Input, RecvBufInit, RecvBufDeinit, Restart, InputRejected,
        InputFull, InputNoMemory, Read, BeginRead, EndRead, EndReadOf, Drop,
        Free, StateChanges, history
<1> QED
  BY <1>1, RingAlways, PTL DEF Spec, NoLossInService

-----------------------------------------------------------------------------
(* The order of reading and the memory of the grown slots.                 *)
OrderInv == OvertakesByGrowthOnly /\ UnterminatedByGrowthOnly

LEMMA OrderInit == Init => OrderInv
BY DEF Init, OrderInv, OvertakesByGrowthOnly, UnterminatedByGrowthOnly

(* Every stored message is older than the next call. *)
LEMMA StoredIsOlder ==
    ASSUME TypeInv, MessageInv
    PROVE  \A i \in Valid : slot[i] \in Nat /\ slot[i] < inputs + 1
<1>1. \A i \in Valid : slot[i] \in accepted
  BY DEF MessageInv, EachMessageOnce, Waiting
<1>2. inputs \in Nat
  BY BufferAssumption DEF TypeInv, TypeOK
<1>3. accepted \subseteq 1..inputs
  BY DEF MessageInv, AcceptedInThePast
<1> SUFFICES ASSUME NEW i \in Valid
             PROVE  slot[i] \in Nat /\ slot[i] < inputs + 1
  OBVIOUS
<1>4. slot[i] \in 1..inputs
  BY <1>1, <1>3
<1> QED
  BY <1>2, <1>4

(* A store without growth goes behind everything that waits. *)
LEMMA StoredLast ==
    ASSUME TypeInv, RingInv, ready, valid_flag[write_index] = 0
    PROVE  \A j \in Valid : ~Before(write_index, j)
<1> SUFFICES ASSUME NEW j \in Valid PROVE ~Before(write_index, j)
  OBVIOUS
<1> USE DEF TypeInv, TypeOK, RingInv, OccupiedInterval, Slots
<1>1. j \in 0..(buffer_num - 1) /\ valid_flag[j] = 1
  BY DEF Valid
<1>2. write_index \in 0..(buffer_num - 1)
  OBVIOUS
<1>3. read_index # write_index
  BY <1>1, <1>2
<1>4. InInterval(j)
  BY <1>1, <1>3
<1> QED
  BY <1>1, <1>2, <1>3, <1>4 DEF Before, InInterval

LEMMA OrderStore ==
    ASSUME TypeInv, RingInv, MessageInv, OrderInv, InputStore
    PROVE  OrderInv'
<1>1. CASE ~ready
  BY <1>1 DEF InputStore, OrderInv, OvertakesByGrowthOnly,
              UnterminatedByGrowthOnly
<1>2. CASE ready
  <2> USE <1>2
  <2>1. /\ write_index \in Slots /\ valid_flag[write_index] = 0
        /\ ready' = ready /\ read_index' = read_index /\ grown' = grown
        /\ buffer_num' = buffer_num /\ unzeroed' = unzeroed
        /\ delivered' = delivered /\ StoreAt(write_index)
    BY DEF InputStore, TypeInv, TypeOK
  <2>2. /\ Valid' = Valid \cup {write_index}
        /\ \A i \in Slots \ {write_index} : slot'[i] = slot[i]
        /\ slot'[write_index] = inputs + 1
    BY <2>1, WaitingAfterStore
  <2>3. ASSUME NEW i \in Valid', NEW j \in Valid',
               Before(i, j), slot'[i] > slot'[j]
        PROVE  slot'[i] \in grown
    <3>0. Valid \subseteq Slots /\ write_index \notin Valid
      BY <2>1 DEF Valid
    <3>1. CASE i = write_index
      <4>1. j # write_index
        BY <2>3, <3>1, <2>1 DEF Before, TypeInv, TypeOK, Slots
      <4> QED
        BY <2>1, <2>2, <2>3, <3>1, <4>1, StoredLast
    <3>2. CASE i # write_index /\ j = write_index
      BY <2>2, <2>3, <3>0, <3>2, StoredIsOlder, BufferAssumption
      DEF TypeInv, TypeOK
    <3>3. CASE i # write_index /\ j # write_index
      BY <2>2, <2>3, <3>0, <3>3 DEF OrderInv, OvertakesByGrowthOnly
    <3> QED
      BY <3>1, <3>2, <3>3
  <2>4. OvertakesByGrowthOnly'
    BY <2>1, <2>3 DEF OvertakesByGrowthOnly, Before
  <2>5. UnterminatedByGrowthOnly'
    <3> SUFFICES ASSUME NEW i \in unzeroed
                 PROVE  /\ DefaultBufferNum =< i /\ i < buffer_num
                        /\ valid_flag'[i] = 1
                        /\ slot'[i] \in grown
      BY <2>1 DEF UnterminatedByGrowthOnly
    <3>1. /\ DefaultBufferNum =< i /\ i < buffer_num
          /\ valid_flag[i] = 1 /\ slot[i] \in grown /\ i \in Slots
      BY DEF OrderInv, UnterminatedByGrowthOnly, TypeInv, TypeOK
    <3>2. i # write_index
      BY <2>1, <3>1
    <3> QED
      BY <2>1, <3>1, <3>2 DEF StoreAt, TypeInv, TypeOK
  <2> QED
    BY <2>4, <2>5 DEF OrderInv
<1> QED
  BY <1>1, <1>2

LEMMA OrderGrow ==
    ASSUME TypeInv, RingInv, MessageInv, OrderInv, InputGrow
    PROVE  OrderInv'
<1>1. CASE ~ready
  BY <1>1 DEF InputGrow, OrderInv, OvertakesByGrowthOnly,
              UnterminatedByGrowthOnly
<1>2. CASE ready
  <2> USE <1>2
  <2>1. /\ buffer_num \in Slots /\ buffer_num \notin Valid
        /\ DefaultBufferNum =< buffer_num
        /\ ready' = ready /\ read_index' = read_index
        /\ grown' = grown \cup {inputs + 1}
        /\ buffer_num' = buffer_num + 1
        /\ unzeroed' = unzeroed \cup {buffer_num}
        /\ delivered' = delivered /\ StoreAt(buffer_num)
    BY BufferAssumption
    DEF InputGrow, TypeInv, TypeOK, Slots, RingInv, OccupiedInterval, Valid
  <2>2. /\ Valid' = Valid \cup {buffer_num}
        /\ \A i \in Slots \ {buffer_num} : slot'[i] = slot[i]
        /\ slot'[buffer_num] = inputs + 1
    BY <2>1, WaitingAfterStore
  <2>3. ASSUME NEW i \in Valid', NEW j \in Valid',
               Before(i, j), slot'[i] > slot'[j]
        PROVE  slot'[i] \in grown'
    <3>0. Valid \subseteq Slots
      BY DEF Valid
    <3>1. CASE i = buffer_num
      BY <2>1, <2>2, <3>1
    <3>2. CASE i # buffer_num /\ j = buffer_num
      BY <2>1, <2>2, <2>3, <3>0, <3>2, StoredIsOlder, BufferAssumption
      DEF TypeInv, TypeOK
    <3>3. CASE i # buffer_num /\ j # buffer_num
      BY <2>1, <2>2, <2>3, <3>0, <3>3 DEF OrderInv, OvertakesByGrowthOnly
    <3> QED
      BY <3>1, <3>2, <3>3
  <2>4. OvertakesByGrowthOnly'
    BY <2>1, <2>3 DEF OvertakesByGrowthOnly, Before
  <2>5. UnterminatedByGrowthOnly'
    <3> SUFFICES ASSUME NEW i \in unzeroed'
                 PROVE  /\ DefaultBufferNum =< i /\ i < buffer_num + 1
                        /\ valid_flag'[i] = 1
                        /\ slot'[i] \in grown'
      BY <2>1 DEF UnterminatedByGrowthOnly
    <3>1. CASE i = buffer_num
      BY <2>1, <2>2, <3>1 DEF StoreAt, TypeInv, TypeOK, Slots
    <3>2. CASE i # buffer_num
      <4>1. /\ DefaultBufferNum =< i /\ i < buffer_num
            /\ valid_flag[i] = 1 /\ slot[i] \in grown /\ i \in Slots
        BY <2>1, <3>2 DEF OrderInv, UnterminatedByGrowthOnly, TypeInv, TypeOK
      <4> QED
        BY <2>1, <2>2, <3>2, <4>1 DEF StoreAt, TypeInv, TypeOK, Slots
    <3> QED
      BY <3>1, <3>2
  <2> QED
    BY <2>4, <2>5 DEF OrderInv
<1> QED
  BY <1>1, <1>2

(* Freeing the oldest slot leaves the order of the others. *)
LEMMA OrderFree ==
    ASSUME TypeInv, RingInv, OrderInv, ready,
           Free(read_index, Wrap(read_index, buffer_num), {read_index})
    PROVE  OrderInv'
<1>1. /\ read_index \in Slots /\ read_index < buffer_num
      /\ buffer_num \in 1..MaxBufferNum
  BY BufferAssumption DEF RingInv, OccupiedInterval, TypeInv, TypeOK, Slots
<1>2. /\ ready' = ready /\ grown' = grown /\ buffer_num' = buffer_num
      /\ unzeroed' = unzeroed \ {read_index}
      /\ read_index' = Wrap(read_index, buffer_num)
      /\ Valid' = Valid \ {read_index}
      /\ \A i \in Slots \ {read_index} :
            slot'[i] = slot[i] /\ valid_flag'[i] = valid_flag[i]
  BY <1>1 DEF Free, Valid, TypeInv, TypeOK
<1>3. \A i \in Valid : i \in Slots /\ i < buffer_num
  BY <1>1 DEF Valid, RingInv, OccupiedInterval, TypeInv, TypeOK, Slots
<1>4. ASSUME NEW i \in Valid', NEW j \in Valid', Before(i, j)'
      PROVE  Before(i, j)
  <2>1. /\ i \in 0..(buffer_num - 1) /\ j \in 0..(buffer_num - 1)
        /\ i # read_index /\ j # read_index
        /\ read_index \in 0..(buffer_num - 1)
    BY <1>1, <1>2, <1>3, BufferAssumption DEF Slots
  <2> QED
    BY <1>1, <1>2, <1>4, <2>1 DEF Before, Wrap
<1>5. OvertakesByGrowthOnly'
  BY <1>1, <1>2, <1>3, <1>4 DEF OrderInv, OvertakesByGrowthOnly
<1>6. UnterminatedByGrowthOnly'
  BY <1>1, <1>2 DEF OrderInv, UnterminatedByGrowthOnly, TypeInv, TypeOK
<1> QED
  BY <1>5, <1>6 DEF OrderInv

LEMMA OrderEndRead ==
    ASSUME TypeInv, RingInv, OrderInv, EndRead
    PROVE  OrderInv'
<1>1. ready /\ reading = read_index
  BY DEF EndRead, EndReadOf, RingInv, HandlerOwnsItsSlot
<1> QED
  BY <1>1, OrderFree DEF EndRead, EndReadOf

LEMMA OrderDrop ==
    ASSUME TypeInv, RingInv, OrderInv, Drop
    PROVE  OrderInv'
BY OrderFree DEF Drop, CanRead

LEMMA OrderNext ==
    TypeInv /\ RingInv /\ MessageInv /\ OrderInv /\ [Next]_vars => OrderInv'
<1> SUFFICES ASSUME TypeInv, RingInv, MessageInv, OrderInv, [Next]_vars
             PROVE  OrderInv'
  OBVIOUS
<1>1. CASE RecvBufInit \/ RecvBufDeinit
  BY <1>1
  DEF RecvBufInit, RecvBufDeinit, ClearAll, OrderInv, OvertakesByGrowthOnly,
      UnterminatedByGrowthOnly, Valid
<1>2. CASE Restart
  BY <1>2 DEF Restart, OrderInv, OvertakesByGrowthOnly,
              UnterminatedByGrowthOnly
<1>3. CASE \/ InputRejected \/ InputFull \/ InputNoMemory
           \/ BeginRead \/ StateChanges \/ UNCHANGED vars
  <2>1. UNCHANGED <<ready, read_index, buffer_num, valid_flag, slot,
                    unzeroed, grown>>
    BY <1>3 DEF InputRejected, InputFull, InputNoMemory, BeginRead,
                StateChanges, vars, indices, memory, history
  <2> QED
    BY <2>1 DEF OrderInv, OvertakesByGrowthOnly, UnterminatedByGrowthOnly,
                Valid, Before
<1> QED
  BY <1>1, <1>2, <1>3, OrderStore, OrderGrow, OrderEndRead, OrderDrop
  DEF Next, Input, Read

LEMMA OrderAlways == Spec => [](TypeInv /\ RingInv /\ MessageInv /\ OrderInv)
<1> DEFINE Inv == TypeInv /\ RingInv /\ MessageInv /\ OrderInv
<1>1. Init => Inv
  BY TypeInit, RingInit, MessageInit, OrderInit
<1>2. Inv /\ [Next]_vars => Inv'
  BY TypeNext, RingNext, MessageNext, OrderNext
<1> HIDE DEF Inv
<1>3. Spec => []Inv
  BY <1>1, <1>2, PTL DEF Spec
<1> QED
  BY <1>3 DEF Inv

(* Only a growth lets a message overtake an older one (at_mqtt_input).     *)
THEOREM OvertakesByGrowthOnlyHolds == Spec => []OvertakesByGrowthOnly
<1>1. OrderInv => OvertakesByGrowthOnly
  BY DEF OrderInv
<1> QED
  BY <1>1, OrderAlways, PTL

(* Only the first message of a grown slot has no end (at_mqtt_input copies *)
(* it into memory that was never cleared, mal_mc_cycle clears it).         *)
THEOREM UnterminatedByGrowthOnlyHolds == Spec => []UnterminatedByGrowthOnly
<1>1. OrderInv => UnterminatedByGrowthOnly
  BY DEF OrderInv
<1> QED
  BY <1>1, OrderAlways, PTL

-----------------------------------------------------------------------------
(* The message store.                                                      *)

(* A message is waiting in a slot of its own, so a store finds room. *)
LEMMA RoomToStore ==
    ASSUME TypeInv, NEW t \in Slots, t \notin Valid
    PROVE  Cardinality(Waiting) < MaxBufferNum
<1> DEFINE others == Slots \ {t}
           place == [m \in Waiting |-> CHOOSE i \in others : slot[i] = m]
<1>1. IsFiniteSet(Slots) /\ Cardinality(Slots) = MaxBufferNum
  BY FS_Interval, BufferAssumption DEF Slots
<1>2. IsFiniteSet(others) /\ Cardinality(others) = MaxBufferNum - 1
  BY <1>1, FS_RemoveElement
<1>3. \A m \in Waiting : \E i \in others : slot[i] = m
  BY DEF Waiting, Valid
<1>4. \A m \in Waiting : place[m] \in others /\ slot[place[m]] = m
  BY <1>3
<1>5. place \in Injection(Waiting, others)
  BY <1>4 DEF Injection, IsInjective
<1>6. IsFiniteSet(Waiting) /\ Cardinality(Waiting) =< Cardinality(others)
  BY <1>2, <1>5, FS_Injection
<1>7. Cardinality(Waiting) \in Nat
  BY <1>6, FS_CardinalityType
<1> QED
  BY <1>2, <1>6, <1>7, BufferAssumption

(* A store into an empty slot of a served client, or outside of service. *)
LEMMA StoreImplements ==
    ASSUME TypeInv, MessageInv, NEW t \in Slots, Call, StoreAt(t),
           ready => t \notin Valid,
           UNCHANGED <<delivered, dropped, ready, connected>>
    PROVE  Store!Next
<1> DEFINE m == inputs + 1
<1>1. m \in Id
  BY TypeStore, BufferAssumption DEF Call, Id, TypeInv, TypeOK
<1>2. m \notin Store!Known
  BY NextIdIsNew DEF Store!Known
<1>3. /\ Waiting' = (Waiting \ {slot[t]}) \cup {m}
      /\ lost' = lost \cup ({slot[t]} \cap Waiting)
  BY WaitingAfterStore DEF StoreAt
<1>4. CASE ready
  <2>1. slot[t] \notin Waiting
    BY <1>4, WaitingAreIds
    DEF TypeInv, TypeOK, FlagMatchesMemory, Valid, Id, NoMsg
  <2>2. Cardinality(Waiting) < MaxBufferNum
    BY <1>4, RoomToStore
  <2>3. Store!Cardinality(Waiting) < MaxBufferNum
    BY <2>2 DEF Store!Cardinality, Cardinality
  <2>4. Store!Accept(m)
    BY <1>2, <1>3, <1>4, <2>1, <2>3 DEF Store!Accept
  <2> QED
    BY <1>1, <2>4 DEF Store!Next
<1>5. CASE ~ready
  <2>1. /\ Waiting' \in SUBSET (Waiting \cup {m})
        /\ lost' = lost \cup ((Waiting \cup {m}) \ Waiting')
    BY <1>3, NextIdIsNew
  <2>2. Store!AcceptClosed(m)
    BY <1>2, <1>5, <2>1 DEF Store!AcceptClosed
  <2> QED
    BY <1>1, <2>2 DEF Store!Next
<1> QED
  BY <1>4, <1>5

LEMMA StepImplements ==
    ASSUME TypeInv, RingInv, MessageInv, [Next]_vars
    PROVE  [Store!Next]_(Store!vars)
<1>1. CASE RecvBufInit
  <2>1. Store!Wipe(TRUE)
    BY <1>1, MessageWiped DEF RecvBufInit, ClearAll, Store!Wipe
  <2> QED
    BY <2>1 DEF Store!Next
<1>2. CASE RecvBufDeinit \/ Restart
  <2>1. Store!Wipe(FALSE)
    BY <1>2, MessageWiped DEF RecvBufDeinit, Restart, ClearAll, Store!Wipe
  <2> QED
    BY <2>1 DEF Store!Next
<1>3. CASE \/ InputRejected \/ InputFull \/ InputNoMemory \/ EndRead
           \/ UNCHANGED vars
  <2>1. Waiting' = Waiting
    BY <1>3, MessageUnmoved, MessageEndRead
    DEF InputRejected, InputFull, InputNoMemory, Call, indices, memory, vars,
        history
  <2>2. UNCHANGED <<ready, connected, delivered, dropped, lost>>
    BY <1>3 DEF InputRejected, InputFull, InputNoMemory, EndRead, EndReadOf,
                Free, vars, history
  <2> QED
    BY <2>1, <2>2 DEF Store!vars
<1>4. CASE InputStore
  BY <1>4, StoreImplements DEF InputStore, Valid, TypeInv, TypeOK
<1>5. CASE InputGrow
  <2>1. buffer_num \in Slots /\ (ready => buffer_num \notin Valid)
    BY <1>5, BufferAssumption
    DEF InputGrow, TypeInv, TypeOK, Slots, RingInv, OccupiedInterval, Valid
  <2> QED
    BY <1>5, <2>1, StoreImplements DEF InputGrow
<1>6. CASE Read
  <2>1. /\ slot[read_index] \in Waiting
        /\ Waiting' = Waiting \ {slot[read_index]}
    BY <1>6, MessageBeginRead, MessageDrop DEF Read
  <2>2. Store!Take(slot[read_index])
    BY <1>6, <2>1
    DEF Read, BeginRead, Drop, CanRead, Free, Store!Take, Store!Deliver,
        Store!Discard
  <2> QED
    BY <2>1, <2>2, WaitingAreIds DEF Store!Next
<1>7. CASE StateChanges
  <2>1. Waiting' = Waiting
    BY <1>7, MessageUnmoved DEF StateChanges, memory, history
  <2>2. Store!Connection
    BY <1>7, <2>1 DEF StateChanges, Store!Connection, history
  <2> QED
    BY <2>2 DEF Store!Next
<1> QED
  BY <1>1, <1>2, <1>3, <1>4, <1>5, <1>6, <1>7 DEF Next, Input

(* The ring of eng/atm/at_mqtt.c implements the message store: what it     *)
(* accepts it keeps, within its capacity, and takes out exactly once, while *)
(* the client is connected, for the handlers or for the flow control.      *)
THEOREM ImplementsStoreSafety == Spec => Store!Spec
<1>1. Init => Store!Init
  BY DEF Init, Store!Init, Waiting, Valid
<1>2. TypeInv /\ RingInv /\ MessageInv /\ [Next]_vars
      => [Store!Next]_(Store!vars)
  BY StepImplements
<1> QED
  BY <1>1, <1>2, MessagesAlways, PTL DEF Spec, Store!Spec
=============================================================================
