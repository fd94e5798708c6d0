------------------------- MODULE DrmShimDeviceProofs -------------------------
(***************************************************************************)
(* Proofs about DrmShimDevice, for every size of its tables, every number  *)
(* of threads and pages.                                                   *)
(***************************************************************************)
EXTENDS DrmShimDevice, TLAPS

-----------------------------------------------------------------------------
(* Types. *)

(* A cleared entry is an entry. *)
LEMMA ZeroTypes == ZeroBo \in Bo /\ ZeroChan \in Chan
BY DeviceAssumption DEF ZeroBo, ZeroChan, Bo, Chan

(* What AutoVa returns is an address outside the arena. *)
LEMMA AutoVaType == \A s \in Slots : AutoVa(s) \in Vas \ ArenaPages
BY DeviceAssumption DEF Slots, AutoVa, Vas, ArenaPages

(* The mappings the calls make are mappings. *)
LEMMA MappingTypes ==
  /\ NoMap \in Mapping
  /\ \A s \in Slots, len \in 0 .. MaxSize : [obj |-> s, len |-> len] \in Mapping
  /\ \A m \in Mapping : [m EXCEPT !.obj = Orphan] \in Mapping
BY DeviceAssumption DEF NoMap, Mapping

(* The operations on the address space keep its type. *)
LEMMA AsmapTypes ==
  ASSUME NEW as \in [Vas -> Mapping], NEW s \in Slots, NEW len \in 0 .. MaxSize, NEW va
  PROVE  /\ Map(as, va, s, len) \in [Vas -> Mapping]
         /\ Unmap(as, va) \in [Vas -> Mapping]
         /\ CloseMap(as, s) \in [Vas -> Mapping]
BY MappingTypes DEF Map, Unmap, CloseMap

(* So do the operations on the BO table. *)
LEMMA BosTypes ==
  ASSUME NEW b \in [Slots -> Bo], NEW s \in Slots
  PROVE  /\ \A size \in 1 .. MaxSize : AllocBo(b, s, size) \in [Slots -> Bo]
         /\ InternalBo(b, s) \in [Slots -> Bo]
         /\ ReleaseBo(b, s) \in [Slots -> Bo]
<1>1. ASSUME NEW size \in 1 .. MaxSize PROVE AllocBo(b, s, size) \in [Slots -> Bo]
  <2>1. b[s] \in Bo /\ size \in 0 .. MaxSize
    BY DeviceAssumption
  <2>2. [b[s] EXCEPT !.used = TRUE, !.size = size, !.gpu_mapped = FALSE] \in Bo
    BY <2>1 DEF Bo
  <2>3. QED
    BY <2>2 DEF AllocBo
<1>2. InternalBo(b, s) \in [Slots -> Bo]
  BY AutoVaType, DeviceAssumption DEF InternalBo, Bo
<1>3. ReleaseBo(b, s) \in [Slots -> Bo]
  BY ZeroTypes DEF ReleaseBo
<1>4. QED
  BY <1>1, <1>2, <1>3

(* And making and undoing the mapping of an internal BO. *)
LEMMA InternalMapTypes ==
  ASSUME NEW as \in [Vas -> Mapping], NEW s \in Slots, NEW b
  PROVE  /\ MapInternal(as, s) \in [Vas -> Mapping]
         /\ UnmapInternal(as, b, s) \in [Vas -> Mapping]
<1>1. MapInternal(as, s) \in [Vas -> Mapping]
  <2>1. [obj |-> s, len |-> 1] \in Mapping
    BY MappingTypes, DeviceAssumption
  <2>2. QED
    BY <2>1 DEF MapInternal, Map
<1>2. Unmap(as, b[s].gpu_va) \in [Vas -> Mapping]
  BY MappingTypes DEF Unmap
<1>3. UnmapInternal(as, b, s) \in [Vas -> Mapping]
  BY <1>2, MappingTypes DEF UnmapInternal, CloseMap
<1>4. QED
  BY <1>1, <1>3

(* Types are kept by every step. *)
LEMMA TypeStep == TypeOK /\ [Next]_vars => TypeOK'
<1> SUFFICES ASSUME TypeOK, [Next]_vars PROVE TypeOK'
  OBVIOUS
<1> USE DEF TypeOK
<1>1. CASE Open
  <2>1. refcnt' \in 0 .. MaxOpen
    BY <1>1, DeviceAssumption DEF Open
  <2>2. nv_up' \in BOOLEAN /\ arena' \in BOOLEAN /\ services' \subseteq UpTo(5)
    BY <1>1, Zenon DEF Open, NvUp, NvUpFails, Cascade
  <2>3. QED
    BY <1>1, <2>1, <2>2 DEF Open, chanKernel
<1>2. CASE Close
  <2>1. CASE NvDown
    <3>1. bos' \in [Slots -> Bo] /\ channels' \in [ChanSlots -> Chan]
      BY <2>1, ZenonT(60) DEF NvDown, Bo, Chan
    <3>2. asmap' \in [Vas -> Mapping]
      BY <2>1, MappingTypes DEF NvDown
    <3>3. refcnt' \in 0 .. MaxOpen /\ lock' \in Threads \cup {NoThread} /\ inside' \subseteq Threads
      BY <1>2, DeviceAssumption DEF Close
    <3>4. /\ services' \subseteq UpTo(5) /\ nvmaps' \subseteq Slots
          /\ hwchans' \subseteq ChanSlots /\ queued' \subseteq ChanSlots
          /\ bound' \subseteq ChanSlots /\ executed' \subseteq ChanSlots
          /\ nv_up' \in BOOLEAN /\ arena' \in BOOLEAN
          /\ last' \in [Slots -> {0} \cup ArenaPages]
      BY <2>1 DEF NvDown
    <3>5. QED
      BY <3>1, <3>2, <3>3, <3>4
  <2>2. CASE UNCHANGED <<nv_up, arena, bos, channels, kernelVars, last>>
    BY <1>2, <2>2, DeviceAssumption DEF Close, kernelVars, chanKernel
  <2>3. QED
    BY <1>2, <2>1, <2>2 DEF Close
<1>3. CASE \E s \in Slots : CloseBuffer(s)
  <2> PICK s \in Slots : CloseBuffer(s)
    BY <1>3
  <2>1. asmap' \in [Vas -> Mapping]
    <3> DEFINE va == ReleasedVa(bos[s])
               as == IF va = 0 THEN asmap ELSE Unmap(asmap, va)
    <3>1. as \in [Vas -> Mapping]
      BY AsmapTypes, DeviceAssumption
    <3>2. asmap' = CloseMap(as, s)
      BY DEF CloseBuffer
    <3> HIDE DEF as
    <3>3. QED
      BY <3>1, <3>2, MappingTypes DEF CloseMap
  <2>2. bos' \in [Slots -> Bo]
    BY ZeroTypes DEF CloseBuffer
  <2>3. QED
    BY <2>1, <2>2 DEF CloseBuffer, chanKernel
<1>4. ASSUME NEW t \in Threads, Enter(t) PROVE TypeOK'
  BY <1>4 DEF Enter, kernelVars, chanKernel
<1>5. ASSUME NEW t \in Threads, NoChange(t) PROVE TypeOK'
  BY <1>5 DEF NoChange, Handler, chanKernel
<1>6. ASSUME NEW t \in Threads, NEW s \in Slots, NEW size \in 1 .. MaxSize, GemNew(t, s, size)
      PROVE  TypeOK'
  BY <1>6, BosTypes DEF GemNew, Handler, chanKernel
<1>7. ASSUME NEW t \in Threads, VmBindOp(t) PROVE TypeOK'
  <2>1. CASE VmBindBegin(t) \/ VmBindReturn(t)
    BY <2>1 DEF VmBindBegin, VmBindReturn, kernelVars, chanKernel
  <2>2. ASSUME NEW s \in Slots, NEW p \in ArenaPages, NEW len \in 1 .. MaxSize, VmBindMap(t, s, p, len)
        PROVE  TypeOK'
    <3>1. p \in Vas
      BY DeviceAssumption DEF ArenaPages, Vas
    <3>2. bos' \in [Slots -> Bo]
      <4>1. [bos[s] EXCEPT !.gpu_va = p] \in Bo
        BY <3>1 DEF Bo
      <4>2. QED
        BY <2>2, <4>1 DEF VmBindMap, RecordVa
    <3>3. asmap' \in [Vas -> Mapping]
      <4>1. [obj |-> s, len |-> len] \in Mapping
        BY MappingTypes, DeviceAssumption
      <4>2. QED
        BY <2>2, <4>1 DEF VmBindMap, Map
    <3>4. QED
      BY <2>2, <3>2, <3>3 DEF VmBindMap, chanKernel
  <2>3. ASSUME NEW p \in ArenaPages, VmBindUnmap(t, p) PROVE TypeOK'
    <3>1. asmap' \in [Vas -> Mapping]
      BY <2>3, MappingTypes DEF VmBindUnmap, Unmap
    <3>2. QED
      BY <2>3, <3>1 DEF VmBindUnmap, chanKernel
  <2>4. QED
    BY <1>7, <2>1, <2>2, <2>3 DEF VmBindOp
<1>8. ASSUME NEW t \in Threads, ChannelOp(t) PROVE TypeOK'
  <2>1. ASSUME NEW c \in ChanSlots, NEW z \in Slots, NEW m \in Slots, ChannelAlloc(t, c, z, m)
        PROVE  TypeOK'
    <3>1. bos' \in [Slots -> Bo]
      <4>1. InternalBo(bos, z) \in [Slots -> Bo]
        BY BosTypes
      <4>2. InternalBo(InternalBo(bos, z), m) \in [Slots -> Bo]
        BY <4>1, BosTypes
      <4>3. QED
        BY <2>1, <4>2 DEF ChannelAlloc
    <3>2. asmap' \in [Vas -> Mapping]
      <4>1. MapInternal(asmap, z) \in [Vas -> Mapping]
        BY InternalMapTypes
      <4>2. MapInternal(MapInternal(asmap, z), m) \in [Vas -> Mapping]
        BY <4>1, InternalMapTypes
      <4>3. QED
        BY <2>1, <4>2 DEF ChannelAlloc
    <3>3. channels' \in [ChanSlots -> Chan]
      BY <2>1 DEF ChannelAlloc, Chan
    <3>4. QED
      BY <2>1, <3>1, <3>2, <3>3 DEF ChannelAlloc, Handler
  <2>2. ASSUME NEW c \in ChanSlots, ChannelAllocFailsEarly(t, c) PROVE TypeOK'
    <3>1. bos' \in [Slots -> Bo]
      BY <2>2, ZeroTypes DEF ChannelAllocFailsEarly, ReleaseBo
    <3>2. QED
      BY <2>2, <3>1, ZeroTypes DEF ChannelAllocFailsEarly, Handler, chanKernel
  <2>3. ASSUME NEW c \in ChanSlots, NEW z \in Slots, ChannelAllocFailsLate(t, c, z) PROVE TypeOK'
    <3> DEFINE b1 == InternalBo(bos, z)
    <3>1. b1 \in [Slots -> Bo]
      BY BosTypes, DeviceAssumption
    <3>2. bos' \in [Slots -> Bo]
      <4> HIDE DEF b1
      <4>1. \/ bos' = ReleaseBo(b1, z)
            \/ \E m \in Slots : bos' = ReleaseBo(ReleaseBo(b1, m), z)
        BY <2>3 DEF ChannelAllocFailsLate, b1
      <4>2. QED
        BY <4>1, <3>1, ZeroTypes DEF ReleaseBo
    <3>3. asmap' \in [Vas -> Mapping]
      <4>1. MapInternal(asmap, z) \in [Vas -> Mapping]
        BY InternalMapTypes
      <4>2. UnmapInternal(MapInternal(asmap, z), b1, z) \in [Vas -> Mapping]
        BY <4>1, InternalMapTypes
      <4>3. QED
        BY <2>3, <4>2 DEF ChannelAllocFailsLate
    <3>4. QED
      BY <2>3, <3>2, <3>3, ZeroTypes DEF ChannelAllocFailsLate, Handler, chanKernel, AfterFail
  <2>4. ASSUME NEW c \in ChanSlots, ChannelFree(t, c) PROVE TypeOK'
    <3>1. bos' \in [Slots -> Bo]
      BY <2>4, ZeroTypes DEF ChannelFree
    <3>2. asmap' \in [Vas -> Mapping]
      BY <2>4, MappingTypes DEF ChannelFree
    <3>3. QED
      BY <2>4, <3>1, <3>2, ZeroTypes DEF ChannelFree, Handler, Cleared
  <2>5. ASSUME NEW c \in ChanSlots, Exec(t, c) PROVE TypeOK'
    BY <2>5 DEF Exec, Handler, Chan
  <2>6. QED
    BY <1>8, <2>1, <2>2, <2>3, <2>4, <2>5 DEF ChannelOp
<1>9. CASE UNCHANGED vars
  BY <1>9 DEF vars, shimVars, kernelVars, chanKernel
<1>10. QED
  BY <1>1, <1>2, <1>3, <1>4, <1>5, <1>6, <1>7, <1>8, <1>9 DEF Next

(* Every reachable state has the types of the C declarations: in            *)
(* particular an open count that never goes below zero, and BO and channel  *)
(* entries whose cross references are slots of the tables.                  *)
THEOREM TypeCorrect == Spec => []TypeOK
<1>1. Init => TypeOK
  <2> SUFFICES ASSUME Init PROVE TypeOK
    OBVIOUS
  <2>1. bos \in [Slots -> Bo] /\ channels \in [ChanSlots -> Chan] /\ asmap \in [Vas -> Mapping]
    BY ZeroTypes, MappingTypes DEF Init
  <2>2. refcnt \in 0 .. MaxOpen
    BY DeviceAssumption DEF Init
  <2>3. nv_up \in BOOLEAN /\ arena \in BOOLEAN
    BY Zenon DEF Init
  <2>4. QED
    BY <2>1, <2>2, <2>3 DEF Init, TypeOK
<1>2. QED
  BY <1>1, TypeStep, PTL DEF Spec

-----------------------------------------------------------------------------
(* What each operation does to the sets of entries in use. *)

Used == <<UsedBos, ClientBos, UsedChans>>

(* What each call leaves of the objects in use: nv_down, *)
LEMMA NvDownSets ==
  ASSUME TypeOK, NvDown
  PROVE  UsedBos' = {} /\ ClientBos' = {} /\ UsedChans' = {}
<1>1. \A s \in Slots : ~bos'[s].used
  BY DEF TypeOK, NvDown, Bo
<1>2. \A c \in ChanSlots : ~channels'[c].used
  BY DEF TypeOK, NvDown, Chan
<1>3. QED
  BY <1>1, <1>2 DEF UsedBos, ClientBos, UsedChans

(* GEM_NEW, *)
LEMMA GemNewSets ==
  ASSUME TypeOK, NEW t \in Threads, NEW s \in Slots, NEW size \in 1 .. MaxSize, GemNew(t, s, size)
  PROVE  /\ s \notin UsedBos
         /\ UsedBos' = UsedBos \cup {s} /\ ClientBos' = ClientBos \cup {s}
         /\ UsedChans' = UsedChans
<1>1. ~bos[s].used
  BY DEF GemNew, FirstFree
<1>2. \A r \in Slots \ {s} : bos'[r] = bos[r]
  BY DEF GemNew, AllocBo, TypeOK
<1>3. bos'[s].used /\ ~bos'[s].gpu_mapped
  BY DEF GemNew, AllocBo, TypeOK, Bo
<1>4. QED
  BY <1>1, <1>2, <1>3 DEF UsedBos, ClientBos, UsedChans, GemNew

(* GEM_CLOSE, *)
LEMMA CloseBufferSets ==
  ASSUME TypeOK, NEW s \in Slots, CloseBuffer(s)
  PROVE  /\ UsedBos' = UsedBos \ {s} /\ ClientBos' = ClientBos \ {s}
         /\ UsedChans' = UsedChans
<1>1. ~bos'[s].used /\ \A r \in Slots \ {s} : bos'[r] = bos[r]
  BY DEF CloseBuffer, TypeOK, ZeroBo
<1>2. QED
  BY <1>1 DEF UsedBos, ClientBos, UsedChans, CloseBuffer

(* VM_BIND's map, *)
LEMMA VmBindMapSets ==
  ASSUME TypeOK, NEW t \in Threads, NEW s \in Slots, NEW p \in ArenaPages,
         NEW len \in 1 .. MaxSize, VmBindMap(t, s, p, len)
  PROVE  UNCHANGED Used
<1>1. \A r \in Slots : bos'[r].used = bos[r].used /\ bos'[r].gpu_mapped = bos[r].gpu_mapped
  BY DEF VmBindMap, RecordVa, TypeOK, Bo
<1>2. QED
  BY <1>1 DEF Used, UsedBos, ClientBos, UsedChans, VmBindMap

(* CHANNEL_ALLOC, *)
LEMMA ChannelAllocSets ==
  ASSUME TypeOK, NEW t \in Threads, NEW c \in ChanSlots, NEW z \in Slots, NEW m \in Slots,
         ChannelAlloc(t, c, z, m)
  PROVE  /\ z # m /\ {z, m} \cap UsedBos = {} /\ c \notin UsedChans
         /\ UsedBos' = UsedBos \cup {z, m} /\ ClientBos' = ClientBos
         /\ UsedChans' = UsedChans \cup {c}
         /\ \A r \in Slots \ {z, m} : bos'[r] = bos[r]
         /\ bos'[z].gpu_mapped /\ bos'[z].gpu_va = AutoVa(z) /\ bos'[z].size = 1
         /\ bos'[m].gpu_mapped /\ bos'[m].gpu_va = AutoVa(m) /\ bos'[m].size = 1
<1>1. ~bos[z].used /\ ~InternalBo(bos, z)[m].used /\ ~channels[c].used
  BY DEF ChannelAlloc, FirstFree
<1>2. InternalBo(bos, z)[z].used /\ \A r \in Slots \ {z} : InternalBo(bos, z)[r] = bos[r]
  BY DEF InternalBo, TypeOK
<1>3. z # m /\ ~bos[m].used
  BY <1>1, <1>2
<1>4. /\ bos'[z] = [used |-> TRUE, size |-> 1, gpu_mapped |-> TRUE, gpu_va |-> AutoVa(z)]
      /\ bos'[m] = [used |-> TRUE, size |-> 1, gpu_mapped |-> TRUE, gpu_va |-> AutoVa(m)]
      /\ \A r \in Slots \ {z, m} : bos'[r] = bos[r]
  BY <1>3 DEF ChannelAlloc, InternalBo, TypeOK
<1>5. channels'[c].used /\ \A d \in ChanSlots \ {c} : channels'[d] = channels[d]
  BY DEF ChannelAlloc, TypeOK, Chan
<1>6. QED
  BY <1>1, <1>3, <1>4, <1>5 DEF UsedBos, ClientBos, UsedChans

(* its failures before the buffers are made *)
LEMMA FailsEarlySets ==
  ASSUME TypeOK, NEW t \in Threads, NEW c \in ChanSlots, ChannelAllocFailsEarly(t, c)
  PROVE  /\ UNCHANGED Used
         /\ \A r \in Slots : bos'[r] = bos[r] \/ (~bos[r].used /\ bos'[r] = ZeroBo)
<1>1. \A r \in Slots : bos'[r] = bos[r] \/ (~bos[r].used /\ bos'[r] = ZeroBo)
  BY DEF ChannelAllocFailsEarly, FirstFree, ReleaseBo, TypeOK
<1>2. ~channels[c].used /\ ~channels'[c].used /\ \A d \in ChanSlots \ {c} : channels'[d] = channels[d]
  BY DEF ChannelAllocFailsEarly, FirstFree, TypeOK, ZeroChan
<1>3. ~ZeroBo.used
  BY DEF ZeroBo
<1>4. QED
  BY <1>1, <1>2, <1>3 DEF Used, UsedBos, ClientBos, UsedChans

(* and after, *)
LEMMA FailsLateSets ==
  ASSUME TypeOK, NEW t \in Threads, NEW c \in ChanSlots, NEW z \in Slots,
         ChannelAllocFailsLate(t, c, z)
  PROVE  /\ z \notin UsedBos /\ UNCHANGED Used
         /\ \A r \in Slots : bos'[r] = bos[r] \/ (~bos[r].used /\ bos'[r] = ZeroBo)
<1> DEFINE b1 == InternalBo(bos, z)
<1>1. ~bos[z].used /\ ~channels[c].used
  BY DEF ChannelAllocFailsLate, FirstFree
<1>2. DOMAIN b1 = Slots /\ b1[z].used /\ \A r \in Slots \ {z} : b1[r] = bos[r]
  BY DEF InternalBo, TypeOK
<1>3. \/ bos' = ReleaseBo(b1, z)
      \/ \E m \in Slots : ~b1[m].used /\ bos' = ReleaseBo(ReleaseBo(b1, m), z)
  BY DEF ChannelAllocFailsLate, FirstFree
<1> HIDE DEF b1
<1>4. \A r \in Slots : bos'[r] = bos[r] \/ (~bos[r].used /\ bos'[r] = ZeroBo)
  <2>1. CASE bos' = ReleaseBo(b1, z)
    BY <2>1, <1>1, <1>2 DEF ReleaseBo
  <2>2. ASSUME NEW m \in Slots, ~b1[m].used, bos' = ReleaseBo(ReleaseBo(b1, m), z)
        PROVE  \A r \in Slots : bos'[r] = bos[r] \/ (~bos[r].used /\ bos'[r] = ZeroBo)
    <3>1. m # z /\ ~bos[m].used
      BY <2>2, <1>2
    <3>2. QED
      BY <3>1, <2>2, <1>1, <1>2 DEF ReleaseBo
  <2>3. QED
    BY <1>3, <2>1, <2>2
<1>5. ~channels'[c].used /\ \A d \in ChanSlots \ {c} : channels'[d] = channels[d]
  BY DEF ChannelAllocFailsLate, TypeOK, ZeroChan
<1>6. ~ZeroBo.used
  BY DEF ZeroBo
<1>7. QED
  BY <1>1, <1>4, <1>5, <1>6 DEF Used, UsedBos, ClientBos, UsedChans

(* CHANNEL_FREE, *)
LEMMA ChannelFreeSets ==
  ASSUME TypeOK, NEW t \in Threads, NEW c \in ChanSlots, ChannelFree(t, c)
  PROVE  /\ FreedBos(channels[c]) \subseteq UsedBos
         /\ UsedBos' = UsedBos \ FreedBos(channels[c])
         /\ ClientBos' = ClientBos \ FreedBos(channels[c])
         /\ UsedChans' = UsedChans \ {c}
         /\ \A d \in ChanSlots \ {c} : channels'[d] = channels[d]
         /\ \A r \in Slots \ FreedBos(channels[c]) : bos'[r] = bos[r]
         /\ \A r \in FreedBos(channels[c]) : bos'[r] = ZeroBo
<1> DEFINE F == FreedBos(channels[c])
<1>1. F \subseteq UsedBos
  BY DEF FreedBos, UsedBos, TypeOK, Chan
<1>2. bos' = [s \in Slots |-> IF s \in F THEN ZeroBo ELSE bos[s]]
  BY DEF ChannelFree
<1>3. ~channels'[c].used /\ \A d \in ChanSlots \ {c} : channels'[d] = channels[d]
  BY DEF ChannelFree, TypeOK, ZeroChan, Cleared
<1>4. F \subseteq Slots
  BY <1>1 DEF UsedBos
<1> HIDE DEF F
<1>5. ~ZeroBo.used
  BY DEF ZeroBo
<1>6. /\ \A r \in Slots \ F : bos'[r] = bos[r]
      /\ \A r \in F : bos'[r] = ZeroBo
  BY <1>2, <1>4
<1>7. QED
  BY <1>1, <1>3, <1>4, <1>5, <1>6 DEF UsedBos, ClientBos, UsedChans, F

(* and EXEC. *)
LEMMA ExecSets ==
  ASSUME TypeOK, NEW t \in Threads, NEW c \in ChanSlots, Exec(t, c)
  PROVE  UNCHANGED Used
<1>1. \A d \in ChanSlots : channels'[d].used = channels[d].used
  BY DEF Exec, TypeOK, Chan
<1>2. QED
  BY <1>1 DEF Exec, Used, UsedBos, ClientBos, UsedChans

-----------------------------------------------------------------------------
(* The kernel's objects, and the owners of the internal BOs. *)

(* A device that is down has empty tables. *)
DownIsEmpty == ~nv_up => UsedBos = {} /\ UsedChans = {}

ObjectsInv == KernelObjectsMatch /\ DownIsEmpty

(* Every step keeps the kernel objects matched. *)
LEMMA ObjectsStep == TypeOK /\ ObjectsInv /\ [Next]_vars => ObjectsInv'
<1> SUFFICES ASSUME TypeOK, ObjectsInv, [Next]_vars PROVE ObjectsInv'
  OBVIOUS
<1> USE DEF ObjectsInv, KernelObjectsMatch, DownIsEmpty
<1>1. CASE Open
  <2>1. UNCHANGED <<UsedBos, UsedChans>>
    BY <1>1 DEF Open, UsedBos, UsedChans
  <2>2. /\ nv_up' => services' = UpTo(5)
        /\ ~nv_up' => services' = {}
        /\ nv_up' <=> refcnt' > 0
        /\ nv_up => nv_up'
    <3>1. CASE refcnt = 0 /\ NvUp /\ refcnt' = 1
      <4>1. nv_up' /\ services' = UpTo(5)
        BY <3>1, Zenon DEF NvUp
      <4>2. QED
        BY <3>1, <4>1
    <3>2. CASE refcnt = 0 /\ NvUpFails /\ UNCHANGED refcnt
      <4>1. UNCHANGED nv_up /\ services' \subseteq services
        BY <3>2, Zenon DEF NvUpFails, Cascade
      <4>2. QED
        BY <3>2, <4>1
    <3>3. CASE refcnt \in 1 .. (MaxOpen - 1) /\ refcnt' = refcnt + 1 /\ UNCHANGED <<services, nv_up, arena>>
      BY <3>3 DEF TypeOK
    <3>4. QED
      BY <1>1, <3>1, <3>2, <3>3 DEF Open
  <2>3. QED
    BY <1>1, <2>1, <2>2 DEF Open, chanKernel
<1>2. CASE Close
  <2>1. CASE refcnt = 1 /\ NvDown
    <3>1. UsedBos' = {} /\ UsedChans' = {}
      BY <2>1, NvDownSets
    <3>2. nvmaps' = {} /\ hwchans' = {}
      BY <2>1 DEF NvDown
    <3>3. services' = {} /\ ~nv_up' /\ ~(refcnt' > 0)
      BY <1>2, <2>1 DEF Close, NvDown
    <3>4. \A va \in Vas : asmap'[va] = NoMap
      BY <2>1 DEF NvDown
    <3>5. QED
      BY <3>1, <3>2, <3>3, <3>4
  <2>2. CASE refcnt > 1 /\ UNCHANGED <<nv_up, arena, bos, channels, kernelVars, last>>
    BY <1>2, <2>2 DEF Close, TypeOK, kernelVars, chanKernel, UsedBos, UsedChans
  <2>3. QED
    BY <1>2, <2>1, <2>2 DEF Close
<1>3. ASSUME NEW s \in Slots, CloseBuffer(s) PROVE ObjectsInv'
  <2>1. UsedBos' = UsedBos \ {s} /\ UsedChans' = UsedChans
    BY <1>3, CloseBufferSets
  <2>2. s \in UsedBos
    BY <1>3 DEF CloseBuffer, ClientBos
  <2>3. QED
    BY <1>3, <2>1, <2>2 DEF CloseBuffer, chanKernel
<1>4. ASSUME NEW t \in Threads, Enter(t) \/ NoChange(t) PROVE ObjectsInv'
  BY <1>4 DEF Enter, NoChange, Handler, kernelVars, chanKernel, UsedBos, UsedChans
<1>5. ASSUME NEW t \in Threads, NEW s \in Slots, NEW size \in 1 .. MaxSize, GemNew(t, s, size)
      PROVE  ObjectsInv'
  BY <1>5, GemNewSets DEF GemNew, Handler, chanKernel
<1>6. ASSUME NEW t \in Threads, VmBindOp(t) PROVE ObjectsInv'
  <2>1. CASE VmBindBegin(t) \/ VmBindReturn(t)
    BY <2>1 DEF VmBindBegin, VmBindReturn, kernelVars, chanKernel, UsedBos, UsedChans
  <2>2. ASSUME NEW s \in Slots, NEW p \in ArenaPages, NEW len \in 1 .. MaxSize, VmBindMap(t, s, p, len)
        PROVE  ObjectsInv'
    <3>1. UNCHANGED <<UsedBos, UsedChans>>
      BY <2>2, VmBindMapSets DEF Used
    <3>2. nv_up
      BY <2>2 DEF VmBindMap, Fits
    <3>3. QED
      BY <2>2, <3>1, <3>2 DEF VmBindMap, chanKernel
  <2>3. ASSUME NEW p \in ArenaPages, VmBindUnmap(t, p) PROVE ObjectsInv'
    <3>1. ~nv_up => \A va \in Vas : asmap'[va] = NoMap
      BY <2>3 DEF VmBindUnmap, Unmap, TypeOK
    <3>2. QED
      BY <2>3, <3>1 DEF VmBindUnmap, chanKernel, UsedBos, UsedChans
  <2>4. QED
    BY <1>6, <2>1, <2>2, <2>3 DEF VmBindOp
<1>7. ASSUME NEW t \in Threads, ChannelOp(t) PROVE ObjectsInv'
  <2>1. ASSUME NEW c \in ChanSlots, NEW z \in Slots, NEW m \in Slots, ChannelAlloc(t, c, z, m)
        PROVE  ObjectsInv'
    BY <2>1, ChannelAllocSets DEF ChannelAlloc, Handler
  <2>2. ASSUME NEW c \in ChanSlots, ChannelAllocFailsEarly(t, c) PROVE ObjectsInv'
    BY <2>2, FailsEarlySets DEF ChannelAllocFailsEarly, Handler, Used, chanKernel
  <2>3. ASSUME NEW c \in ChanSlots, NEW z \in Slots, ChannelAllocFailsLate(t, c, z) PROVE ObjectsInv'
    <3>1. z \notin UsedBos /\ UNCHANGED <<UsedBos, UsedChans>>
      BY <2>3, FailsLateSets DEF Used
    <3>2. nvmaps' = nvmaps
      BY <2>3, <3>1 DEF ChannelAllocFailsLate, AfterFail
    <3>3. QED
      BY <2>3, <3>1, <3>2 DEF ChannelAllocFailsLate, Handler, chanKernel
  <2>4. ASSUME NEW c \in ChanSlots, ChannelFree(t, c) PROVE ObjectsInv'
    <3> DEFINE F == FreedBos(channels[c])
    <3>1. UsedBos' = UsedBos \ F /\ UsedChans' = UsedChans \ {c} /\ c \in UsedChans
      BY <2>4, ChannelFreeSets DEF ChannelFree
    <3>2. nvmaps' = nvmaps \ F /\ hwchans' = hwchans \ {c} /\ UNCHANGED <<nv_up, refcnt, services>>
      BY <2>4 DEF ChannelFree, Handler
    <3>3. nv_up
      BY <3>1
    <3> HIDE DEF F
    <3>4. QED
      BY <3>1, <3>2, <3>3
  <2>5. ASSUME NEW c \in ChanSlots, Exec(t, c) PROVE ObjectsInv'
    <3>1. UNCHANGED <<UsedBos, UsedChans>>
      BY <2>5, ExecSets DEF Used
    <3>2. QED
      BY <2>5, <3>1 DEF Exec, Handler
  <2>6. QED
    BY <1>7, <2>1, <2>2, <2>3, <2>4, <2>5 DEF ChannelOp
<1>8. CASE UNCHANGED vars
  BY <1>8 DEF vars, shimVars, kernelVars, chanKernel, UsedBos, UsedChans
<1>9. QED
  BY <1>1, <1>2, <1>3, <1>4, <1>5, <1>6, <1>7, <1>8 DEF Next

(* In every reachable state, whatever the client does and whichever step    *)
(* failed, the kernel holds exactly the services, nvmap objects and         *)
(* channels that the shim's tables account for.                             *)
THEOREM KernelObjectsCorrect == Spec => []KernelObjectsMatch
<1>1. Init => ObjectsInv
  <2> SUFFICES ASSUME Init PROVE ObjectsInv
    OBVIOUS
  <2>1. UsedBos = {} /\ UsedChans = {}
    BY DEF Init, UsedBos, UsedChans, ZeroBo, ZeroChan
  <2>2. nvmaps = {} /\ hwchans = {} /\ services = {} /\ \A va \in Vas : asmap[va] = NoMap
    BY DEF Init
  <2>3. ~nv_up /\ ~(refcnt > 0)
    BY DEF Init
  <2>4. QED
    BY <2>1, <2>2, <2>3 DEF ObjectsInv, KernelObjectsMatch, DownIsEmpty
<1>2. ObjectsInv => KernelObjectsMatch
  BY DEF ObjectsInv
<1>3. QED
  BY <1>1, <1>2, TypeCorrect, ObjectsStep, PTL DEF Spec

-----------------------------------------------------------------------------
(* Every step keeps an owner for each internal buffer. *)
LEMMA OwnersStep == TypeOK /\ InternalBosOwned /\ [Next]_vars => InternalBosOwned'
<1> SUFFICES ASSUME TypeOK, InternalBosOwned, [Next]_vars PROVE InternalBosOwned'
  OBVIOUS
<1> DEFINE Same == UNCHANGED <<UsedBos, ClientBos>> /\ UNCHANGED UsedChans
                   /\ \A c \in UsedChans : /\ channels'[c].zcull_bo = channels[c].zcull_bo
                                            /\ channels'[c].cmdbuf_bo = channels[c].cmdbuf_bo
<1>a. ASSUME Same PROVE InternalBosOwned'
  BY <1>a DEF InternalBosOwned, Owns
<1>b. ASSUME UNCHANGED <<bos, channels>> PROVE Same
  BY <1>b DEF UsedBos, ClientBos, UsedChans
<1> HIDE DEF Same
<1>1. CASE Open
  BY <1>1, <1>a, <1>b DEF Open
<1>2. CASE Close
  <2>1. CASE NvDown
    BY <2>1, NvDownSets DEF InternalBosOwned
  <2>2. CASE UNCHANGED <<nv_up, arena, bos, channels, kernelVars, last>>
    BY <2>2, <1>a, <1>b
  <2>3. QED
    BY <1>2, <2>1, <2>2 DEF Close
<1>3. ASSUME NEW s \in Slots, CloseBuffer(s) PROVE InternalBosOwned'
  <2>1. UsedBos' = UsedBos \ {s} /\ ClientBos' = ClientBos \ {s} /\ UNCHANGED <<UsedChans, channels>>
    BY <1>3, CloseBufferSets DEF CloseBuffer
  <2>2. s \in ClientBos
    BY <1>3 DEF CloseBuffer
  <2>3. UsedBos' \ ClientBos' = UsedBos \ ClientBos
    BY <2>1, <2>2
  <2>4. QED
    BY <2>1, <2>3 DEF InternalBosOwned, Owns
<1>4. ASSUME NEW t \in Threads, Enter(t) \/ NoChange(t) PROVE InternalBosOwned'
  BY <1>4, <1>a, <1>b DEF Enter, NoChange
<1>5. ASSUME NEW t \in Threads, NEW s \in Slots, NEW size \in 1 .. MaxSize, GemNew(t, s, size)
      PROVE  InternalBosOwned'
  <2>1. /\ UsedBos' = UsedBos \cup {s} /\ ClientBos' = ClientBos \cup {s} /\ s \notin UsedBos
        /\ UNCHANGED <<UsedChans, channels>>
    BY <1>5, GemNewSets DEF GemNew
  <2>2. UsedBos' \ ClientBos' = UsedBos \ ClientBos
    BY <2>1
  <2>3. QED
    BY <2>1, <2>2 DEF InternalBosOwned, Owns
<1>6. ASSUME NEW t \in Threads, VmBindOp(t) PROVE InternalBosOwned'
  <2>1. CASE VmBindBegin(t) \/ VmBindReturn(t) \/ \E p \in ArenaPages : VmBindUnmap(t, p)
    BY <2>1, <1>a, <1>b DEF VmBindBegin, VmBindReturn, VmBindUnmap
  <2>2. ASSUME NEW s \in Slots, NEW p \in ArenaPages, NEW len \in 1 .. MaxSize, VmBindMap(t, s, p, len)
        PROVE  InternalBosOwned'
    BY <2>2, VmBindMapSets DEF Used, VmBindMap, InternalBosOwned, Owns
  <2>3. QED
    BY <1>6, <2>1, <2>2 DEF VmBindOp
<1>7. ASSUME NEW t \in Threads, ChannelOp(t) PROVE InternalBosOwned'
  <2>1. ASSUME NEW c \in ChanSlots, NEW z \in Slots, NEW m \in Slots, ChannelAlloc(t, c, z, m)
        PROVE  InternalBosOwned'
    <3>1. /\ z # m /\ {z, m} \cap UsedBos = {} /\ c \notin UsedChans
          /\ UsedBos' = UsedBos \cup {z, m} /\ ClientBos' = ClientBos
          /\ UsedChans' = UsedChans \cup {c}
      BY <2>1, ChannelAllocSets
    <3>2. UsedBos' \ ClientBos' = (UsedBos \ ClientBos) \cup {z, m}
      BY <3>1 DEF ClientBos
    <3>3. /\ channels'[c].zcull_bo = z /\ channels'[c].cmdbuf_bo = m
          /\ \A d \in ChanSlots \ {c} : channels'[d] = channels[d]
      BY <2>1 DEF ChannelAlloc, TypeOK, Chan
    <3>4. UsedChans \subseteq ChanSlots
      BY DEF UsedChans
    <3>5. \A d \in UsedChans : {channels[d].zcull_bo, channels[d].cmdbuf_bo} \cap {z, m} = {}
      BY <3>1 DEF InternalBosOwned
    <3>6. \A d \in UsedChans' :
            /\ channels'[d].zcull_bo # channels'[d].cmdbuf_bo
            /\ {channels'[d].zcull_bo, channels'[d].cmdbuf_bo} \subseteq UsedBos' \ ClientBos'
      BY <3>1, <3>2, <3>3, <3>4 DEF InternalBosOwned
    <3>7. ASSUME NEW s \in UsedBos' \ ClientBos'
          PROVE  \E d \in UsedChans' : Owns(d, s)' /\ \A e \in UsedChans' : Owns(e, s)' => e = d
      <4>1. CASE s \in {z, m}
        BY <4>1, <3>1, <3>3, <3>4, <3>5 DEF Owns
      <4>2. CASE s \in UsedBos \ ClientBos
        <5>1. PICK d \in UsedChans : Owns(d, s) /\ \A e \in UsedChans : Owns(e, s) => e = d
          BY <4>2 DEF InternalBosOwned
        <5>2. s \notin {z, m}
          BY <4>2, <3>1
        <5>3. QED
          BY <5>1, <5>2, <3>1, <3>3, <3>4 DEF Owns
      <4>3. QED
        BY <3>2, <4>1, <4>2
    <3>8. QED
      BY <3>6, <3>7 DEF InternalBosOwned
  <2>2. ASSUME NEW c \in ChanSlots, ChannelAllocFailsEarly(t, c) PROVE InternalBosOwned'
    <3>1. UNCHANGED <<UsedBos, ClientBos>> /\ UNCHANGED UsedChans
      BY <2>2, FailsEarlySets DEF Used
    <3>2. \A d \in UsedChans : channels'[d] = channels[d]
      BY <2>2 DEF ChannelAllocFailsEarly, FirstFree, UsedChans, TypeOK
    <3>3. QED
      BY <3>1, <3>2, <1>a DEF Same
  <2>3. ASSUME NEW c \in ChanSlots, NEW z \in Slots, ChannelAllocFailsLate(t, c, z)
        PROVE  InternalBosOwned'
    <3>1. UNCHANGED <<UsedBos, ClientBos>> /\ UNCHANGED UsedChans
      BY <2>3, FailsLateSets DEF Used
    <3>2. \A d \in UsedChans : channels'[d] = channels[d]
      BY <2>3 DEF ChannelAllocFailsLate, FirstFree, UsedChans, TypeOK
    <3>3. QED
      BY <3>1, <3>2, <1>a DEF Same
  <2>4. ASSUME NEW c \in ChanSlots, ChannelFree(t, c) PROVE InternalBosOwned'
    <3> DEFINE F == FreedBos(channels[c])
    <3>1. /\ UsedBos' = UsedBos \ F /\ ClientBos' = ClientBos \ F
          /\ UsedChans' = UsedChans \ {c}
          /\ \A d \in ChanSlots \ {c} : channels'[d] = channels[d]
      BY <2>4, ChannelFreeSets
    <3>2. c \in UsedChans /\ UsedChans \subseteq ChanSlots
      BY <2>4 DEF ChannelFree, UsedChans
    <3>3. F = {channels[c].zcull_bo, channels[c].cmdbuf_bo}
      <4>1. {channels[c].zcull_bo, channels[c].cmdbuf_bo} \subseteq UsedBos
        BY <3>2 DEF InternalBosOwned
      <4>2. \A s \in UsedBos : s # 0 /\ bos[s].used
        BY DeviceAssumption DEF UsedBos, Slots
      <4>3. QED
        BY <4>1, <4>2 DEF FreedBos
    <3> HIDE DEF F
    <3>4. \A s \in F : Owns(c, s) /\ \A d \in UsedChans : Owns(d, s) => d = c
      BY <3>2, <3>3 DEF InternalBosOwned, Owns
    <3>5. \A d \in UsedChans' : channels'[d] = channels[d] /\ d \in UsedChans /\ d # c
      BY <3>1, <3>2
    <3>6. \A d \in UsedChans' :
            /\ channels'[d].zcull_bo # channels'[d].cmdbuf_bo
            /\ {channels'[d].zcull_bo, channels'[d].cmdbuf_bo} \subseteq UsedBos' \ ClientBos'
      <4>1. \A d \in UsedChans' : channels[d].zcull_bo \notin F /\ channels[d].cmdbuf_bo \notin F
        BY <3>4, <3>5 DEF Owns
      <4>2. QED
        BY <4>1, <3>1, <3>5 DEF InternalBosOwned
    <3>7. ASSUME NEW s \in UsedBos' \ ClientBos'
          PROVE  \E d \in UsedChans' : Owns(d, s)' /\ \A e \in UsedChans' : Owns(e, s)' => e = d
      <4>1. s \in UsedBos \ ClientBos /\ s \notin F
        BY <3>1
      <4>2. PICK d \in UsedChans : Owns(d, s) /\ \A e \in UsedChans : Owns(e, s) => e = d
        BY <4>1 DEF InternalBosOwned
      <4>3. d # c
        BY <4>1, <4>2, <3>3 DEF Owns
      <4>4. QED
        BY <4>2, <4>3, <3>1, <3>5 DEF Owns
    <3>8. QED
      BY <3>6, <3>7 DEF InternalBosOwned
  <2>5. ASSUME NEW c \in ChanSlots, Exec(t, c) PROVE InternalBosOwned'
    <3>1. UNCHANGED <<UsedBos, ClientBos>> /\ UNCHANGED UsedChans
      BY <2>5, ExecSets DEF Used
    <3>2. \A d \in UsedChans : /\ channels'[d].zcull_bo = channels[d].zcull_bo
                               /\ channels'[d].cmdbuf_bo = channels[d].cmdbuf_bo
      BY <2>5 DEF Exec, UsedChans, TypeOK, Chan
    <3>3. QED
      BY <3>1, <3>2, <1>a DEF Same
  <2>6. QED
    BY <1>7, <2>1, <2>2, <2>3, <2>4, <2>5 DEF ChannelOp
<1>8. CASE UNCHANGED vars
  BY <1>8, <1>a, <1>b DEF vars, shimVars
<1>9. QED
  BY <1>1, <1>2, <1>3, <1>4, <1>5, <1>6, <1>7, <1>8 DEF Next

(* No sequence of allocations, failures, frees and closes leaks an internal *)
(* BO, frees one under an open channel or lets two channels share one.      *)
THEOREM InternalBosCorrect == Spec => []InternalBosOwned
<1>1. Init => InternalBosOwned
  BY DEF Init, InternalBosOwned, UsedBos, ClientBos, UsedChans, ZeroBo, ZeroChan
<1>2. QED
  BY <1>1, TypeCorrect, OwnersStep, PTL DEF Spec

-----------------------------------------------------------------------------
(* Engines.  The flag of an entry may be stale only while the entry is in   *)
(* use; the client that leaks channels at the last close breaks this.       *)

EnginesInv ==
  /\ WorkOnBoundEngines
  /\ \A c \in ChanSlots :
       /\ channels[c].engines_bound => c \in bound \cup queued
       /\ ~channels[c].used => ~channels[c].engines_bound

(* Every step keeps the engine objects. *)
LEMMA EnginesStep ==
  ASSUME ~ClientLeaks
  PROVE  TypeOK /\ EnginesInv /\ [Next]_vars => EnginesInv'
<1> SUFFICES ASSUME TypeOK, EnginesInv, [Next]_vars PROVE EnginesInv'
  OBVIOUS
<1> USE DEF EnginesInv, WorkOnBoundEngines
<1>a. ASSUME UNCHANGED channels, UNCHANGED chanKernel PROVE EnginesInv'
  BY <1>a DEF chanKernel
<1>1. CASE Open
  BY <1>1, <1>a DEF Open
<1>2. CASE Close
  <2>1. CASE NvDown /\ MayCloseDevice
    <3>1. \A c \in ChanSlots : ~channels[c].used
      BY <2>1 DEF MayCloseDevice, UsedChans
    <3>2. \A c \in ChanSlots : channels'[c].engines_bound = channels[c].engines_bound
      BY <2>1 DEF NvDown, TypeOK, Chan
    <3>3. \A c \in ChanSlots : ~channels'[c].engines_bound
      BY <3>1, <3>2
    <3>4. executed' \subseteq bound'
      BY <2>1 DEF NvDown
    <3>5. QED
      BY <3>3, <3>4
  <2>2. CASE UNCHANGED <<nv_up, arena, bos, channels, kernelVars, last>>
    BY <2>2, <1>a DEF kernelVars
  <2>3. QED
    BY <1>2, <2>1, <2>2 DEF Close
<1>3. ASSUME NEW s \in Slots, CloseBuffer(s) PROVE EnginesInv'
  BY <1>3, <1>a DEF CloseBuffer
<1>4. ASSUME NEW t \in Threads, Enter(t) \/ NoChange(t) PROVE EnginesInv'
  BY <1>4, <1>a DEF Enter, NoChange, kernelVars
<1>5. ASSUME NEW t \in Threads, NEW s \in Slots, NEW size \in 1 .. MaxSize, GemNew(t, s, size)
      PROVE  EnginesInv'
  BY <1>5, <1>a DEF GemNew
<1>6. ASSUME NEW t \in Threads, VmBindOp(t) PROVE EnginesInv'
  BY <1>6, <1>a DEF VmBindOp, VmBindBegin, VmBindMap, VmBindUnmap, VmBindReturn, kernelVars
<1>7. ASSUME NEW t \in Threads, ChannelOp(t) PROVE EnginesInv'
  <2>1. ASSUME NEW c \in ChanSlots, NEW z \in Slots, NEW m \in Slots, ChannelAlloc(t, c, z, m)
        PROVE  EnginesInv'
    <3>1. ~channels[c].used
      BY <2>1 DEF ChannelAlloc, FirstFree
    <3>2. /\ channels'[c].engines_bound = channels[c].engines_bound
          /\ \A d \in ChanSlots \ {c} : channels'[d] = channels[d]
      BY <2>1 DEF ChannelAlloc, TypeOK, Chan
    <3>3. ~channels'[c].engines_bound
      BY <3>1, <3>2
    <3>4. QED
      BY <2>1, <3>2, <3>3 DEF ChannelAlloc
  <2>2. ASSUME NEW c \in ChanSlots,
               ChannelAllocFailsEarly(t, c) \/ \E z \in Slots : ChannelAllocFailsLate(t, c, z)
        PROVE  EnginesInv'
    <3>1. channels' = [channels EXCEPT ![c] = ZeroChan] /\ UNCHANGED chanKernel
      BY <2>2 DEF ChannelAllocFailsEarly, ChannelAllocFailsLate
    <3>2. ~channels'[c].engines_bound /\ \A d \in ChanSlots \ {c} : channels'[d] = channels[d]
      BY <3>1 DEF TypeOK, ZeroChan
    <3>3. QED
      BY <3>1, <3>2 DEF chanKernel
  <2>3. ASSUME NEW c \in ChanSlots, ChannelFree(t, c) PROVE EnginesInv'
    <3>1. ~channels'[c].engines_bound /\ \A d \in ChanSlots \ {c} : channels'[d] = channels[d]
      BY <2>3 DEF ChannelFree, Cleared, ZeroChan, TypeOK
    <3>2. bound' = bound \ {c} /\ queued' = queued \ {c} /\ executed' = executed \ {c}
      BY <2>3 DEF ChannelFree
    <3>3. QED
      BY <3>1, <3>2
  <2>4. ASSUME NEW c \in ChanSlots, Exec(t, c) PROVE EnginesInv'
    <3> DEFINE ring == IF channels[c].engines_bound THEN queued ELSE queued \cup {c}
    <3>1. c \in bound \cup ring
      OBVIOUS
    <3>2. /\ channels[c].used
          /\ channels'[c].used = channels[c].used
          /\ \A d \in ChanSlots \ {c} : channels'[d] = channels[d]
      BY <2>4 DEF Exec, UsedChans, TypeOK, Chan
    <3>3. \/ bound' = bound \cup ({c} \cap ring) /\ queued' = ring \ {c} /\ executed' = executed \cup {c}
          \/ queued' = ring /\ UNCHANGED <<bound, executed>>
      BY <2>4 DEF Exec
    <3>4. queued \subseteq ring
      OBVIOUS
    <3> HIDE DEF ring
    <3>5. executed' \subseteq bound'
      BY <3>1, <3>3
    <3>6. c \in bound' \cup queued' /\ \A d \in ChanSlots : d \in bound \cup queued => d \in bound' \cup queued'
      BY <3>1, <3>3, <3>4
    <3>7. QED
      BY <3>2, <3>5, <3>6
  <2>5. QED
    BY <1>7, <2>1, <2>2, <2>3, <2>4 DEF ChannelOp
<1>8. CASE UNCHANGED vars
  BY <1>8, <1>a DEF vars, shimVars, kernelVars
<1>9. QED
  BY <1>1, <1>2, <1>3, <1>4, <1>5, <1>6, <1>7, <1>8 DEF Next

(* A client that frees its channels before the last close never has work    *)
(* run on a channel whose engine classes are not bound, even when kickoffs  *)
(* fail and are tried again.                                                *)
THEOREM EnginesCorrect ==
  ASSUME ~ClientLeaks
  PROVE  Spec => []WorkOnBoundEngines
<1>1. Init => EnginesInv
  BY DEF Init, EnginesInv, WorkOnBoundEngines, ZeroChan
<1>2. EnginesInv => WorkOnBoundEngines
  BY DEF EnginesInv
<1>3. TypeOK /\ EnginesInv /\ [Next]_vars => EnginesInv'
  BY EnginesStep
<1>4. QED
  BY <1>1, <1>2, <1>3, TypeCorrect, PTL DEF Spec

-----------------------------------------------------------------------------
(***************************************************************************)
(* The address space.  For a client that closes what it opened, a BO       *)
(* remembers where it was last bound, and a slot nothing once its BO is    *)
(* gone; what is mapped in the arena is of client BOs or of BOs that are   *)
(* gone, and what is mapped outside of it is of internal BOs, each at the  *)
(* address of its slot.                                                    *)
(***************************************************************************)

Internal == UsedBos \ ClientBos

TablesInv ==
  /\ \A s \in Slots : ~bos[s].used => bos[s] = ZeroBo /\ last[s] = 0
  /\ \A s \in ClientBos : bos[s].gpu_va = last[s]
  /\ \A s \in Internal : bos[s].gpu_va = AutoVa(s) /\ last[s] = 0

AsmapInv ==
  /\ \A p \in ArenaPages : asmap[p].obj \in ClientBos \cup {0, Orphan}
  /\ \A va \in Vas \ ArenaPages :
       \/ asmap[va] = NoMap
       \/ asmap[va].obj \in Internal /\ va = AutoVa(asmap[va].obj)

MapInv == TablesInv /\ AsmapInv

(* The slots are numbers, the arena and their own addresses lie apart. *)
LEMMA SlotFacts ==
  /\ \A s \in Slots : s \in Nat /\ s # 0 /\ s # Orphan
  /\ \A va \in Vas : va \in Nat /\ va # 0
  /\ \A p \in ArenaPages : p \in Vas /\ p # 0
  /\ \A s \in Slots : AutoVa(s) \in Vas /\ AutoVa(s) \notin ArenaPages /\ AutoVa(s) # 0
  /\ \A r, s \in Slots : AutoVa(r) = AutoVa(s) => r = s
BY DeviceAssumption DEF Slots, Vas, ArenaPages, AutoVa, Orphan

(* What is in use is a slot; where it was last bound is in the arena. *)
LEMMA SlotSets ==
  /\ UsedBos \subseteq Slots /\ ClientBos \subseteq UsedBos /\ Internal \subseteq Slots
  /\ TypeOK => \A s \in Slots : last[s] = 0 \/ last[s] \in ArenaPages
BY DEF UsedBos, ClientBos, Internal, TypeOK

(* Where an internal BO would be mapped, nothing is while its slot is free, *)
(* and nothing anywhere is of a free slot.                                  *)
LEMMA FreeSlotUnmapped ==
  ASSUME MapInv, NEW z \in Slots \ UsedBos
  PROVE  asmap[AutoVa(z)] = NoMap /\ \A va \in Vas : asmap[va].obj # z
<1>1. AutoVa(z) \in Vas \ ArenaPages
  BY SlotFacts
<1>2. asmap[AutoVa(z)] = NoMap
  BY <1>1, SlotFacts, SlotSets DEF MapInv, AsmapInv, Internal
<1>3. NoMap.obj = 0
  BY DEF NoMap
<1>4. \A va \in Vas : asmap[va].obj # z
  BY <1>3, SlotFacts, SlotSets DEF MapInv, AsmapInv, Internal
<1>5. QED
  BY <1>2, <1>4

(* What each call leaves of the mappings: GEM_CLOSE ends the mapping at the *)
(* last address and orphans the BO's others,                                *)
LEMMA CloseBufferMap ==
  ASSUME TypeOK, MapInv, NEW s \in Slots, CloseBuffer(s)
  PROVE  \A va \in Vas :
           asmap'[va] = IF last[s] = va THEN NoMap
                        ELSE IF asmap[va].obj = s THEN [asmap[va] EXCEPT !.obj = Orphan]
                        ELSE asmap[va]
<1> DEFINE as == IF last[s] = 0 THEN asmap ELSE Unmap(asmap, last[s])
<1>1. s \in ClientBos
  BY DEF CloseBuffer
<1>2. ReleasedVa(bos[s]) = last[s]
  BY <1>1 DEF ReleasedVa, ClientBos, MapInv, TablesInv
<1>3. asmap' = CloseMap(as, s)
  BY <1>2 DEF CloseBuffer
<1>4. \A va \in Vas : as[va] = IF last[s] = va THEN NoMap ELSE asmap[va]
  BY SlotFacts DEF Unmap, TypeOK
<1> HIDE DEF as
<1>5. NoMap.obj # s
  BY SlotFacts DEF NoMap
<1>6. QED
  BY <1>3, <1>4, <1>5 DEF CloseMap

(* CHANNEL_FREE ends mappings outside the arena only, of the BOs it frees, *)
LEMMA ChannelFreeMap ==
  ASSUME TypeOK, MapInv, InternalBosOwned, NEW t \in Threads, NEW c \in ChanSlots, ChannelFree(t, c)
  PROVE  /\ FreedBos(channels[c]) \subseteq Internal
         /\ \A p \in ArenaPages : asmap'[p] = asmap[p]
         /\ \A va \in Vas : asmap'[va] = asmap[va] \/ asmap'[va] = NoMap
         /\ \A va \in Vas \ ArenaPages : asmap[va].obj \in FreedBos(channels[c]) => asmap'[va] = NoMap
<1> DEFINE F == FreedBos(channels[c])
<1>1. F \subseteq Internal
  BY DEF ChannelFree, FreedBos, InternalBosOwned, UsedChans, Internal
<1>2. asmap' = [va \in Vas |-> IF \E s \in F : bos[s].gpu_va = va THEN NoMap ELSE asmap[va]]
  BY DEF ChannelFree
<1> HIDE DEF F
<1>3. \A s \in F : s \in Slots /\ bos[s].gpu_va = AutoVa(s)
  BY <1>1, SlotSets DEF MapInv, TablesInv
<1>4. \A p \in ArenaPages : asmap'[p] = asmap[p]
  BY <1>2, <1>3, SlotFacts
<1>5. \A va \in Vas \ ArenaPages : asmap[va].obj \in F => asmap'[va] = NoMap
  <2>1. 0 \notin F /\ NoMap.obj = 0
    BY <1>3, SlotFacts DEF NoMap
  <2>2. \A va \in Vas \ ArenaPages : asmap[va].obj \in F => va = AutoVa(asmap[va].obj)
    BY <2>1 DEF MapInv, AsmapInv
  <2>3. QED
    BY <2>2, <1>2, <1>3
<1>6. QED
  BY <1>1, <1>2, <1>4, <1>5 DEF F

(* CHANNEL_ALLOC that fails late changes none, *)
LEMMA FailsLateMap ==
  ASSUME TypeOK, MapInv, NEW t \in Threads, NEW c \in ChanSlots, NEW z \in Slots,
         ChannelAllocFailsLate(t, c, z)
  PROVE  asmap' = asmap
<1> DEFINE as == MapInternal(asmap, z)
<1>1. z \notin UsedBos
  BY FailsLateSets
<1>2. asmap[AutoVa(z)] = NoMap /\ \A va \in Vas : asmap[va].obj # z
  BY <1>1, FreeSlotUnmapped
<1>3. InternalBo(bos, z)[z].gpu_va = AutoVa(z)
  BY DEF InternalBo, TypeOK
<1>4. asmap = [va \in Vas |-> asmap[va]]
  BY DEF TypeOK
<1>5. Unmap(as, AutoVa(z)) = asmap
  BY <1>2, <1>4, SlotFacts DEF Unmap, MapInternal, Map
<1>6. CloseMap(asmap, z) = asmap
  BY <1>2, <1>4 DEF CloseMap
<1>7. asmap' = CloseMap(Unmap(as, InternalBo(bos, z)[z].gpu_va), z)
  BY DEF ChannelAllocFailsLate, UnmapInternal
<1>8. QED
  BY <1>3, <1>5, <1>6, <1>7

(* CHANNEL_ALLOC makes two outside the arena, *)
LEMMA ChannelAllocMap ==
  ASSUME TypeOK, NEW t \in Threads, NEW c \in ChanSlots, NEW z \in Slots, NEW m \in Slots,
         ChannelAlloc(t, c, z, m)
  PROVE  /\ asmap'[AutoVa(z)] = [obj |-> z, len |-> 1]
         /\ asmap'[AutoVa(m)] = [obj |-> m, len |-> 1]
         /\ \A va \in Vas \ {AutoVa(z), AutoVa(m)} : asmap'[va] = asmap[va]
<1>1. z # m
  BY ChannelAllocSets
<1>2. AutoVa(z) # AutoVa(m) /\ AutoVa(z) \in Vas /\ AutoVa(m) \in Vas
  BY <1>1, SlotFacts
<1>3. QED
  BY <1>2 DEF ChannelAlloc, MapInternal, Map, TypeOK

(* MapInv survives a step that keeps the entries in use and the mappings, *)
LEMMA SameMap ==
  ASSUME MapInv, UNCHANGED Used, UNCHANGED asmap, UNCHANGED last,
         \A r \in Slots : bos'[r] = bos[r] \/ (~bos[r].used /\ bos'[r] = ZeroBo)
  PROVE  MapInv'
<1>1. \A r \in UsedBos : bos'[r] = bos[r]
  BY DEF UsedBos
<1>2. TablesInv'
  BY <1>1, SlotSets DEF Used, MapInv, TablesInv, AutoVa, Internal
<1>3. AsmapInv'
  BY DEF Used, MapInv, AsmapInv, AutoVa, Internal
<1>4. QED
  BY <1>2, <1>3 DEF MapInv

(* and VM_BIND's map. *)
LEMMA VmBindMapMap ==
  ASSUME TypeOK, MapInv,
         NEW t \in Threads, NEW s \in Slots, NEW p \in ArenaPages, NEW len \in 1 .. MaxSize,
         VmBindMap(t, s, p, len)
  PROVE  MapInv'
<1>1. UNCHANGED UsedBos /\ UNCHANGED ClientBos /\ UNCHANGED Internal
  BY VmBindMapSets DEF Used, Internal
<1>2. s \in ClientBos /\ bos[s].used
  BY DEF VmBindMap, ClientBos, UsedBos
<1>3. /\ \A r \in Slots \ {s} : bos'[r] = bos[r] /\ last'[r] = last[r]
      /\ bos'[s].gpu_va = p /\ bos'[s].used /\ last'[s] = p
  BY <1>2 DEF VmBindMap, RecordVa, TypeOK, Bo
<1>4. asmap'[p] = [obj |-> s, len |-> len] /\ \A va \in Vas \ {p} : asmap'[va] = asmap[va]
  BY SlotFacts DEF VmBindMap, Map, TypeOK
<1>5. TablesInv'
  <2>1. \A r \in Slots : ~bos'[r].used => bos'[r] = ZeroBo /\ last'[r] = 0
    BY <1>3 DEF MapInv, TablesInv
  <2>2. \A r \in ClientBos' : bos'[r].gpu_va = last'[r]
    BY <1>1, <1>3, SlotSets DEF MapInv, TablesInv
  <2>3. \A r \in Internal' : bos'[r].gpu_va = AutoVa(r) /\ last'[r] = 0
    BY <1>1, <1>2, <1>3, SlotSets DEF MapInv, TablesInv, Internal
  <2>4. QED
    BY <2>1, <2>2, <2>3 DEF TablesInv, AutoVa
<1>6. AsmapInv'
  <2>1. \A q \in ArenaPages : asmap'[q].obj \in ClientBos' \cup {0, Orphan}
    BY <1>1, <1>2, <1>4, SlotFacts DEF MapInv, AsmapInv
  <2>2. \A va \in Vas \ ArenaPages : asmap'[va] = asmap[va]
    BY <1>4
  <2>3. QED
    BY <2>1, <2>2, <1>1 DEF MapInv, AsmapInv, AutoVa
<1>7. QED
  BY <1>5, <1>6 DEF MapInv

(* GEM_CLOSE and CHANNEL_FREE keep it too. *)
LEMMA CloseBufferKeeps ==
  ASSUME TypeOK, MapInv, NEW s \in Slots, CloseBuffer(s)
  PROVE  MapInv'
<1>1. UsedBos' = UsedBos \ {s} /\ ClientBos' = ClientBos \ {s} /\ s \in ClientBos
  BY CloseBufferSets DEF CloseBuffer
<1>2. Internal' = Internal
  BY <1>1 DEF Internal
<1>3. /\ bos'[s] = ZeroBo /\ last'[s] = 0
      /\ \A r \in Slots \ {s} : bos'[r] = bos[r] /\ last'[r] = last[r]
  BY DEF CloseBuffer, TypeOK
<1>4. TablesInv'
  <2>1. \A r \in Slots : ~bos'[r].used => bos'[r] = ZeroBo /\ last'[r] = 0
    BY <1>3 DEF MapInv, TablesInv
  <2>2. \A r \in ClientBos' : bos'[r].gpu_va = last'[r]
    BY <1>1, <1>3, SlotSets DEF MapInv, TablesInv
  <2>3. \A r \in Internal' : bos'[r].gpu_va = AutoVa(r) /\ last'[r] = 0
    BY <1>1, <1>2, <1>3, SlotSets DEF MapInv, TablesInv, Internal
  <2>4. QED
    BY <2>1, <2>2, <2>3 DEF TablesInv, AutoVa
<1>5. \A va \in Vas :
        \/ asmap'[va] = NoMap
        \/ asmap[va].obj = s /\ asmap'[va] = [asmap[va] EXCEPT !.obj = Orphan]
        \/ asmap[va].obj # s /\ asmap'[va] = asmap[va]
  BY CloseBufferMap
<1>6. \A va \in Vas : [asmap[va] EXCEPT !.obj = Orphan].obj = Orphan
  BY DEF TypeOK, Mapping
<1>7. AsmapInv'
  <2>1. NoMap.obj = 0
    BY DEF NoMap
  <2>2. \A p \in ArenaPages : asmap'[p].obj \in ClientBos' \cup {0, Orphan}
    BY <1>1, <1>5, <1>6, <2>1, SlotFacts DEF MapInv, AsmapInv
  <2>3. \A va \in Vas \ ArenaPages : asmap'[va] = NoMap \/ asmap'[va] = asmap[va]
    <3>1. \A va \in Vas \ ArenaPages : asmap[va].obj # s
      BY <1>1, <2>1, SlotFacts DEF MapInv, AsmapInv, Internal
    <3>2. QED
      BY <3>1, <1>5
  <2>4. QED
    BY <2>2, <2>3, <1>2 DEF MapInv, AsmapInv, AutoVa
<1>8. QED
  BY <1>4, <1>7 DEF MapInv

(* The same for CHANNEL_FREE. *)
LEMMA ChannelFreeKeeps ==
  ASSUME TypeOK, MapInv, InternalBosOwned, NEW t \in Threads, NEW c \in ChanSlots, ChannelFree(t, c)
  PROVE  MapInv'
<1> DEFINE F == FreedBos(channels[c])
<1>1. /\ UsedBos' = UsedBos \ F /\ ClientBos' = ClientBos \ F
      /\ \A r \in Slots \ F : bos'[r] = bos[r]
      /\ \A r \in F : bos'[r] = ZeroBo
  BY ChannelFreeSets
<1>2. /\ F \subseteq Internal
      /\ \A p \in ArenaPages : asmap'[p] = asmap[p]
      /\ \A va \in Vas : asmap'[va] = asmap[va] \/ asmap'[va] = NoMap
      /\ \A va \in Vas \ ArenaPages : asmap[va].obj \in F => asmap'[va] = NoMap
  BY ChannelFreeMap
<1>3. UNCHANGED last
  BY DEF ChannelFree, Handler
<1> HIDE DEF F
<1>4. ClientBos' = ClientBos /\ Internal' = Internal \ F
  BY <1>1, <1>2 DEF Internal
<1>5. TablesInv'
  <2>1. \A r \in F : last[r] = 0 /\ bos'[r] = ZeroBo
    BY <1>1, <1>2 DEF MapInv, TablesInv
  <2>2. \A r \in Slots : ~bos'[r].used => bos'[r] = ZeroBo /\ last'[r] = 0
    BY <1>1, <1>3, <2>1 DEF MapInv, TablesInv
  <2>3. \A r \in ClientBos' : bos'[r].gpu_va = last'[r]
    BY <1>1, <1>2, <1>3, <1>4, SlotSets DEF MapInv, TablesInv, Internal
  <2>4. \A r \in Internal' : bos'[r].gpu_va = AutoVa(r) /\ last'[r] = 0
    BY <1>1, <1>3, <1>4, SlotSets DEF MapInv, TablesInv
  <2>5. QED
    BY <2>2, <2>3, <2>4 DEF TablesInv, AutoVa
<1>6. AsmapInv'
  <2>1. \A p \in ArenaPages : asmap'[p].obj \in ClientBos' \cup {0, Orphan}
    BY <1>2, <1>4 DEF MapInv, AsmapInv
  <2>2. \A va \in Vas \ ArenaPages :
          \/ asmap'[va] = NoMap
          \/ asmap'[va].obj \in Internal' /\ va = AutoVa(asmap'[va].obj)
    BY <1>2, <1>4 DEF MapInv, AsmapInv
  <2>3. QED
    BY <2>1, <2>2 DEF AsmapInv, AutoVa
<1>7. QED
  BY <1>5, <1>6 DEF MapInv

(* Every step of a client that closes what it opened keeps it. *)
LEMMA MapStep ==
  ASSUME ~ClientLeaks
  PROVE  TypeOK /\ InternalBosOwned /\ MapInv /\ [Next]_vars => MapInv'
<1> SUFFICES ASSUME TypeOK, InternalBosOwned, MapInv, [Next]_vars PROVE MapInv'
  OBVIOUS
<1>a. ASSUME UNCHANGED bos, UNCHANGED asmap, UNCHANGED last PROVE MapInv'
  BY <1>a DEF MapInv, TablesInv, AsmapInv, UsedBos, ClientBos, Internal, AutoVa
<1>1. CASE Open
  BY <1>1, <1>a DEF Open
<1>2. CASE Close
  <2>1. CASE NvDown /\ MayCloseDevice
    <3>1. UsedBos = {}
      BY <2>1 DEF MayCloseDevice, InternalBosOwned
    <3>2. \A s \in Slots : bos[s] = ZeroBo
      BY <3>1 DEF UsedBos, MapInv, TablesInv
    <3>3. \A s \in Slots : bos'[s] = ZeroBo
      <4>1. [ZeroBo EXCEPT !.used = FALSE] = ZeroBo
        <5>1. \A b \in Bo : b.used = FALSE => [b EXCEPT !.used = FALSE] = b
          BY DEF Bo
        <5>2. ZeroBo.used = FALSE
          BY DEF ZeroBo
        <5>3. QED
          BY <5>1, <5>2, ZeroTypes
      <4>2. \A s \in Slots : bos'[s] = [bos[s] EXCEPT !.used = FALSE]
        BY <2>1 DEF NvDown
      <4>3. QED
        BY <3>2, <4>1, <4>2
    <3>4. UsedBos' = {} /\ ClientBos' = {} /\ Internal' = {}
      BY <2>1, NvDownSets DEF Internal
    <3>5. /\ \A va \in Vas : asmap'[va] = NoMap
          /\ \A s \in Slots : last'[s] = 0
      BY <2>1 DEF NvDown
    <3>6. TablesInv'
      BY <3>3, <3>4, <3>5 DEF TablesInv
    <3>7. AsmapInv'
      BY <3>4, <3>5, SlotFacts DEF AsmapInv, NoMap
    <3>8. QED
      BY <3>6, <3>7 DEF MapInv
  <2>2. CASE UNCHANGED <<nv_up, arena, bos, channels, kernelVars, last>>
    BY <2>2, <1>a DEF kernelVars
  <2>3. QED
    BY <1>2, <2>1, <2>2 DEF Close
<1>3. ASSUME NEW s \in Slots, CloseBuffer(s) PROVE MapInv'
  BY <1>3, CloseBufferKeeps
<1>4. ASSUME NEW t \in Threads, Enter(t) \/ NoChange(t) PROVE MapInv'
  BY <1>4, <1>a DEF Enter, NoChange, Handler, kernelVars
<1>5. ASSUME NEW t \in Threads, NEW s \in Slots, NEW size \in 1 .. MaxSize, GemNew(t, s, size)
      PROVE  MapInv'
  <2>1. s \notin UsedBos /\ UsedBos' = UsedBos \cup {s} /\ ClientBos' = ClientBos \cup {s}
    BY <1>5, GemNewSets
  <2>2. Internal' = Internal
    BY <2>1, SlotSets DEF Internal
  <2>3. bos[s] = ZeroBo /\ last[s] = 0
    BY <2>1 DEF UsedBos, MapInv, TablesInv
  <2>4. /\ \A r \in Slots \ {s} : bos'[r] = bos[r]
        /\ bos'[s].gpu_va = 0 /\ bos'[s].used
    BY <1>5, <2>3 DEF GemNew, AllocBo, TypeOK, ZeroBo
  <2>5. UNCHANGED asmap /\ UNCHANGED last
    BY <1>5 DEF GemNew, Handler
  <2>6. TablesInv'
    <3>1. \A r \in Slots : ~bos'[r].used => bos'[r] = ZeroBo /\ last'[r] = 0
      BY <2>4, <2>5 DEF MapInv, TablesInv
    <3>2. \A r \in ClientBos' : bos'[r].gpu_va = last'[r]
      BY <2>1, <2>3, <2>4, <2>5, SlotSets DEF MapInv, TablesInv
    <3>3. \A r \in Internal' : bos'[r].gpu_va = AutoVa(r) /\ last'[r] = 0
      BY <2>1, <2>2, <2>4, <2>5, SlotSets DEF MapInv, TablesInv, Internal
    <3>4. QED
      BY <3>1, <3>2, <3>3 DEF TablesInv, AutoVa
  <2>7. AsmapInv'
    BY <2>1, <2>2, <2>5 DEF MapInv, AsmapInv, AutoVa
  <2>8. QED
    BY <2>6, <2>7 DEF MapInv
<1>6. ASSUME NEW t \in Threads, VmBindOp(t) PROVE MapInv'
  <2>1. CASE VmBindBegin(t) \/ VmBindReturn(t)
    BY <2>1, <1>a DEF VmBindBegin, VmBindReturn, kernelVars
  <2>2. ASSUME NEW p \in ArenaPages, VmBindUnmap(t, p) PROVE MapInv'
    <3>1. UNCHANGED bos /\ UNCHANGED last
      BY <2>2 DEF VmBindUnmap
    <3>2. \A va \in Vas : asmap'[va] = asmap[va] \/ asmap'[va] = NoMap
      BY <2>2 DEF VmBindUnmap, Unmap, TypeOK
    <3>3. UNCHANGED UsedBos /\ UNCHANGED ClientBos /\ UNCHANGED Internal
      BY <3>1 DEF UsedBos, ClientBos, Internal
    <3>4. TablesInv'
      BY <3>1, <3>3 DEF MapInv, TablesInv, AutoVa
    <3>5. AsmapInv'
      BY <3>2, <3>3, SlotFacts DEF MapInv, AsmapInv, NoMap, AutoVa
    <3>6. QED
      BY <3>4, <3>5 DEF MapInv
  <2>3. QED
    BY <1>6, <2>1, <2>2, VmBindMapMap DEF VmBindOp
<1>7. ASSUME NEW t \in Threads, ChannelOp(t) PROVE MapInv'
  <2>1. ASSUME NEW c \in ChanSlots, NEW z \in Slots, NEW m \in Slots, ChannelAlloc(t, c, z, m)
        PROVE  MapInv'
    <3>1. /\ {z, m} \cap UsedBos = {}
          /\ UsedBos' = UsedBos \cup {z, m} /\ ClientBos' = ClientBos
          /\ \A r \in Slots \ {z, m} : bos'[r] = bos[r]
          /\ bos'[z].gpu_va = AutoVa(z) /\ bos'[m].gpu_va = AutoVa(m)
      BY <2>1, ChannelAllocSets
    <3>2. UNCHANGED last /\ last[z] = 0 /\ last[m] = 0
      BY <2>1, <3>1 DEF ChannelAlloc, Handler, UsedBos, MapInv, TablesInv
    <3>3. Internal' = Internal \cup {z, m}
      BY <3>1, SlotSets DEF Internal
    <3>4. TablesInv'
      <4>1. \A r \in Slots : ~bos'[r].used => bos'[r] = ZeroBo /\ last'[r] = 0
        BY <3>1, <3>2 DEF UsedBos, MapInv, TablesInv
      <4>2. \A r \in ClientBos' : bos'[r].gpu_va = last'[r]
        BY <3>1, <3>2, SlotSets DEF MapInv, TablesInv
      <4>3. \A r \in Internal' : bos'[r].gpu_va = AutoVa(r) /\ last'[r] = 0
        BY <3>1, <3>2, <3>3, SlotSets DEF MapInv, TablesInv, Internal
      <4>4. QED
        BY <4>1, <4>2, <4>3 DEF TablesInv, AutoVa
    <3>5. AsmapInv'
      <4>1. /\ asmap'[AutoVa(z)] = [obj |-> z, len |-> 1]
            /\ asmap'[AutoVa(m)] = [obj |-> m, len |-> 1]
            /\ \A va \in Vas \ {AutoVa(z), AutoVa(m)} : asmap'[va] = asmap[va]
        BY <2>1, ChannelAllocMap
      <4>2. \A p \in ArenaPages : asmap'[p].obj \in ClientBos' \cup {0, Orphan}
        BY <4>1, <3>1, SlotFacts DEF MapInv, AsmapInv
      <4>3. \A va \in Vas \ ArenaPages :
              \/ asmap'[va] = NoMap
              \/ asmap'[va].obj \in Internal' /\ va = AutoVa(asmap'[va].obj)
        BY <4>1, <3>3 DEF MapInv, AsmapInv
      <4>4. QED
        BY <4>2, <4>3 DEF AsmapInv, AutoVa
    <3>6. QED
      BY <3>4, <3>5 DEF MapInv
  <2>2. ASSUME NEW c \in ChanSlots, ChannelAllocFailsEarly(t, c) PROVE MapInv'
    <3>1. UNCHANGED asmap /\ UNCHANGED last
      BY <2>2 DEF ChannelAllocFailsEarly, Handler
    <3>2. QED
      BY <2>2, <3>1, FailsEarlySets, SameMap
  <2>3. ASSUME NEW c \in ChanSlots, NEW z \in Slots, ChannelAllocFailsLate(t, c, z) PROVE MapInv'
    <3>1. UNCHANGED last
      BY <2>3 DEF ChannelAllocFailsLate, Handler
    <3>2. QED
      BY <2>3, <3>1, FailsLateSets, FailsLateMap, SameMap
  <2>4. ASSUME NEW c \in ChanSlots, ChannelFree(t, c) PROVE MapInv'
    BY <2>4, ChannelFreeKeeps
  <2>5. ASSUME NEW c \in ChanSlots, Exec(t, c) PROVE MapInv'
    BY <2>5, <1>a DEF Exec, Handler
  <2>6. QED
    BY <1>7, <2>1, <2>2, <2>3, <2>4, <2>5 DEF ChannelOp
<1>8. CASE UNCHANGED vars
  BY <1>8, <1>a DEF vars, shimVars, kernelVars
<1>9. QED
  BY <1>1, <1>2, <1>3, <1>4, <1>5, <1>6, <1>7, <1>8 DEF Next

(* The table and the address space agree on what internal BOs and free      *)
(* slots have mapped, and each client BO knows where it was last bound, in  *)
(* every state of a client that closes what it opened.                      *)
THEOREM MapCorrect ==
  ASSUME ~ClientLeaks
  PROVE  Spec => []MapInv
<1>1. Init => MapInv
  BY SlotFacts DEF Init, MapInv, TablesInv, AsmapInv, UsedBos, ClientBos, Internal, ZeroBo, NoMap
<1>2. TypeOK /\ InternalBosOwned /\ MapInv /\ [Next]_vars => MapInv'
  BY MapStep
<1>3. QED
  BY <1>1, <1>2, TypeCorrect, InternalBosCorrect, PTL DEF Spec

-----------------------------------------------------------------------------
(* Refinement of GpuVm. *)

(* Two ways a step of the device appears in GpuVm: a stutter, *)
LEMMA VmSame ==
  ASSUME UNCHANGED UsedBos, UNCHANGED last, \A p \in ArenaPages : asmap'[p] = asmap[p]
  PROVE  UNCHANGED Vm!vmVars
BY DEF Vm!vmVars

(* and the end of buffers. *)
LEMMA VmDestroy ==
  ASSUME NEW F \in SUBSET Slots, F \subseteq UsedBos, UsedBos' = UsedBos \ F,
         last' = [s \in Slots |-> IF s \in F THEN 0 ELSE last[s]],
         \A p \in ArenaPages :
           asmap'[p] = IF \E s \in F : last[s] = p THEN NoMap
                       ELSE IF asmap[p].obj \in F THEN [asmap[p] EXCEPT !.obj = Orphan]
                       ELSE asmap[p]
  PROVE  Vm!Next
<1>1. \A p \in ArenaPages : asmap'[p] = Vm!After(F, p)
  BY DEF Vm!After, Vm!Unbound, NoMap
<1>2. [p \in ArenaPages |-> asmap'[p]] = [p \in ArenaPages |-> Vm!After(F, p)]
  BY <1>1
<1>3. Vm!Destroy(F)
  BY <1>2 DEF Vm!Destroy
<1>4. QED
  BY <1>3 DEF Vm!Next

(* Every step of the device is a step of GpuVm or a stutter. *)
LEMMA VmStep ==
  ASSUME ~ClientLeaks
  PROVE  TypeOK /\ InternalBosOwned /\ MapInv /\ [Next]_vars => [Vm!Next]_(Vm!vmVars)
<1> SUFFICES ASSUME TypeOK, InternalBosOwned, MapInv, [Next]_vars
             PROVE  Vm!Next \/ UNCHANGED Vm!vmVars
  OBVIOUS
<1>a. ASSUME UNCHANGED bos, UNCHANGED asmap, UNCHANGED last PROVE UNCHANGED Vm!vmVars
  BY <1>a, VmSame DEF UsedBos
<1>b. ASSUME NEW S \in SUBSET Slots, S \cap UsedBos = {}, UsedBos' = UsedBos \cup S,
             UNCHANGED last, \A p \in ArenaPages : asmap'[p] = asmap[p]
      PROVE  Vm!Next
  BY <1>b DEF Vm!Next, Vm!Create
<1>1. CASE Open
  BY <1>1, <1>a DEF Open
<1>2. CASE Close
  <2>1. CASE NvDown /\ MayCloseDevice
    <3>1. UsedBos = {} /\ UsedBos' = {}
      BY <2>1, NvDownSets DEF MayCloseDevice, InternalBosOwned
    <3>2. last = [s \in Slots |-> 0]
      BY <3>1 DEF UsedBos, MapInv, TablesInv, TypeOK
    <3>3. last' = last
      BY <2>1, <3>2 DEF NvDown
    <3>4. \A p \in ArenaPages : asmap'[p] = NoMap
      BY <2>1, SlotFacts DEF NvDown
    <3>5. Vm!Shutdown
      BY <3>1, <3>3, <3>4 DEF Vm!Shutdown, Vm!Unbound, NoMap
    <3>6. QED
      BY <3>5 DEF Vm!Next
  <2>2. CASE UNCHANGED <<nv_up, arena, bos, channels, kernelVars, last>>
    BY <2>2, <1>a DEF kernelVars
  <2>3. QED
    BY <1>2, <2>1, <2>2 DEF Close
<1>3. ASSUME NEW s \in Slots, CloseBuffer(s) PROVE Vm!Next
  <2>1. s \in UsedBos /\ UsedBos' = UsedBos \ {s}
    BY <1>3, CloseBufferSets, SlotSets DEF CloseBuffer
  <2>2. \A p \in ArenaPages :
          asmap'[p] = IF \E r \in {s} : last[r] = p THEN NoMap
                      ELSE IF asmap[p].obj \in {s} THEN [asmap[p] EXCEPT !.obj = Orphan]
                      ELSE asmap[p]
    BY <1>3, CloseBufferMap, SlotFacts
  <2>3. last' = [r \in Slots |-> IF r \in {s} THEN 0 ELSE last[r]]
    BY <1>3 DEF CloseBuffer, TypeOK
  <2>4. {s} \in SUBSET Slots /\ {s} \subseteq UsedBos
    BY <2>1
  <2>5. QED
    BY <2>1, <2>2, <2>3, <2>4, VmDestroy
<1>4. ASSUME NEW t \in Threads, Enter(t) \/ NoChange(t) PROVE UNCHANGED Vm!vmVars
  BY <1>4, <1>a DEF Enter, NoChange, Handler, kernelVars
<1>5. ASSUME NEW t \in Threads, NEW s \in Slots, NEW size \in 1 .. MaxSize, GemNew(t, s, size)
      PROVE  Vm!Next
  <2>1. s \notin UsedBos /\ UsedBos' = UsedBos \cup {s}
    BY <1>5, GemNewSets
  <2>2. UNCHANGED asmap /\ UNCHANGED last
    BY <1>5 DEF GemNew, Handler
  <2>3. {s} \in SUBSET Slots /\ {s} \cap UsedBos = {}
    BY <2>1
  <2>4. QED
    BY <2>1, <2>2, <2>3, <1>b
<1>6. ASSUME NEW t \in Threads, VmBindOp(t) PROVE Vm!Next \/ UNCHANGED Vm!vmVars
  <2>1. CASE VmBindBegin(t) \/ VmBindReturn(t)
    BY <2>1, <1>a DEF VmBindBegin, VmBindReturn, kernelVars
  <2>2. ASSUME NEW p \in ArenaPages, VmBindUnmap(t, p) PROVE Vm!Next
    <3>1. [q \in ArenaPages |-> asmap'[q]] = [[q \in ArenaPages |-> asmap[q]] EXCEPT ![p] = NoMap]
      BY <2>2, SlotFacts DEF VmBindUnmap, Unmap, TypeOK
    <3>2. UNCHANGED UsedBos /\ UNCHANGED last
      BY <2>2 DEF VmBindUnmap, UsedBos
    <3>3. Vm!Unbind(p)
      BY <3>1, <3>2 DEF Vm!Unbind, Vm!Unbound, NoMap
    <3>4. QED
      BY <3>3 DEF Vm!Next
  <2>3. ASSUME NEW s \in Slots, NEW p \in ArenaPages, NEW len \in 1 .. MaxSize, VmBindMap(t, s, p, len)
        PROVE  Vm!Next
    <3>1. UNCHANGED UsedBos /\ s \in UsedBos
      BY <2>3, VmBindMapSets, SlotSets DEF Used, VmBindMap
    <3>2. [q \in ArenaPages |-> asmap'[q]]
            = [[q \in ArenaPages |-> asmap[q]] EXCEPT ![p] = [obj |-> s, len |-> len]]
      BY <2>3, SlotFacts DEF VmBindMap, Map, TypeOK
    <3>3. /\ p .. (p + len - 1) \subseteq ArenaPages
          /\ \A q \in ArenaPages : (q .. (q + asmap[q].len - 1)) \cap (p .. (p + len - 1)) = {}
      BY <2>3 DEF VmBindMap, Fits, Extent
    <3>4. \A q \in ArenaPages : Vm!Covered(q) = q .. (q + asmap[q].len - 1)
      BY DEF Vm!Covered
    <3>5. last' = [last EXCEPT ![s] = p]
      BY <2>3 DEF VmBindMap
    <3>6. Vm!Bind(s, p, len)
      BY <3>1, <3>2, <3>3, <3>4, <3>5 DEF Vm!Bind
    <3>7. QED
      BY <3>6 DEF Vm!Next
  <2>4. QED
    BY <1>6, <2>1, <2>2, <2>3 DEF VmBindOp
<1>7. ASSUME NEW t \in Threads, ChannelOp(t) PROVE Vm!Next \/ UNCHANGED Vm!vmVars
  <2>1. ASSUME NEW c \in ChanSlots, NEW z \in Slots, NEW m \in Slots, ChannelAlloc(t, c, z, m)
        PROVE  Vm!Next
    <3>1. {z, m} \cap UsedBos = {} /\ UsedBos' = UsedBos \cup {z, m}
      BY <2>1, ChannelAllocSets
    <3>2. \A p \in ArenaPages : asmap'[p] = asmap[p]
      <4>1. \A va \in Vas \ {AutoVa(z), AutoVa(m)} : asmap'[va] = asmap[va]
        BY <2>1, ChannelAllocMap, ZenonT(60)
      <4>2. ArenaPages \subseteq Vas \ {AutoVa(z), AutoVa(m)}
        BY SlotFacts
      <4>3. QED
        BY <4>1, <4>2
    <3>3. {z, m} \in SUBSET Slots /\ UNCHANGED last
      BY <2>1 DEF ChannelAlloc, Handler
    <3>4. QED
      BY <3>1, <3>2, <3>3, <1>b
  <2>2. ASSUME NEW c \in ChanSlots,
               ChannelAllocFailsEarly(t, c) \/ \E z \in Slots : ChannelAllocFailsLate(t, c, z)
        PROVE  UNCHANGED Vm!vmVars
    <3>1. UNCHANGED UsedBos
      BY <2>2, FailsEarlySets, FailsLateSets DEF Used
    <3>2. asmap' = asmap
      BY <2>2, FailsLateMap DEF ChannelAllocFailsEarly
    <3>3. UNCHANGED last
      BY <2>2 DEF ChannelAllocFailsEarly, ChannelAllocFailsLate, Handler
    <3>4. QED
      BY <3>1, <3>2, <3>3, VmSame
  <2>3. ASSUME NEW c \in ChanSlots, ChannelFree(t, c) PROVE Vm!Next
    <3> DEFINE F == FreedBos(channels[c])
    <3>1. UsedBos' = UsedBos \ F
      BY <2>3, ChannelFreeSets
    <3>2. F \subseteq Internal /\ \A p \in ArenaPages : asmap'[p] = asmap[p]
      BY <2>3, ChannelFreeMap
    <3>3. UNCHANGED last
      BY <2>3 DEF ChannelFree, Handler
    <3> HIDE DEF F
    <3>4. F \in SUBSET Slots /\ F \subseteq UsedBos /\ F \cap ClientBos = {}
      BY <3>2, SlotSets DEF Internal
    <3>5. \A s \in F : last[s] = 0
      BY <3>2 DEF MapInv, TablesInv
    <3>6. last' = [s \in Slots |-> IF s \in F THEN 0 ELSE last[s]]
      BY <3>3, <3>4, <3>5 DEF TypeOK
    <3>7. \A p \in ArenaPages : asmap[p].obj \notin F
      BY <3>4, SlotFacts DEF MapInv, AsmapInv
    <3>8. \A p \in ArenaPages : ~\E s \in F : last[s] = p
      BY <3>5, SlotFacts
    <3>9. QED
      BY <3>1, <3>2, <3>4, <3>6, <3>7, <3>8, VmDestroy
  <2>4. ASSUME NEW c \in ChanSlots, Exec(t, c) PROVE UNCHANGED Vm!vmVars
    BY <2>4, <1>a DEF Exec, Handler
  <2>5. QED
    BY <1>7, <2>1, <2>2, <2>3, <2>4 DEF ChannelOp
<1>8. CASE UNCHANGED vars
  BY <1>8, <1>a DEF vars, shimVars, kernelVars
<1>9. QED
  BY <1>1, <1>2, <1>3, <1>4, <1>5, <1>6, <1>7, <1>8 DEF Next

(* The shim is the GPU virtual memory of GpuVm, for a client that binds     *)
(* parts, aliases and reused addresses as it likes, and closes what it      *)
(* opened: across slot reuse, internal BOs, failures and reopening, a       *)
(* binding changes only when VM_BIND or the end of a BO last bound there,   *)
(* or bound there, changes it.                                              *)
THEOREM VmRefinement ==
  ASSUME ~ClientLeaks
  PROVE  Spec => ImplementsGpuVm
<1>1. Init => Vm!Init
  <2> SUFFICES ASSUME Init PROVE Vm!Init
    OBVIOUS
  <2>1. UsedBos = {}
    BY DEF Init, UsedBos, ZeroBo
  <2>2. [p \in ArenaPages |-> asmap[p]] = [p \in ArenaPages |-> NoMap]
    BY SlotFacts DEF Init
  <2>3. last = [s \in Slots |-> 0]
    BY DEF Init
  <2>4. QED
    BY <2>1, <2>2, <2>3 DEF Vm!Init, Vm!Unbound, NoMap
<1>2. TypeOK /\ InternalBosOwned /\ MapInv /\ [Next]_vars => [Vm!Next]_(Vm!vmVars)
  BY VmStep
<1>3. QED
  BY <1>1, <1>2, TypeCorrect, InternalBosCorrect, MapCorrect, PTL DEF Spec, ImplementsGpuVm, Vm!Spec
==============================================================================
