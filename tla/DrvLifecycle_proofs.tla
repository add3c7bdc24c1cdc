------------------------- MODULE DrvLifecycle_proofs -------------------------
(***************************************************************************)
(* Proofs about DrvLifecycle, for every number of devices and failures.    *)
(***************************************************************************)
EXTENDS DrvLifecycle, TLAPS

USE NumDevicesAssumption, MaxFailsAssumption

(***************************************************************************)
(* Names.                                                                  *)
(***************************************************************************)
LEMMA Names ==
  /\ Class["mem"] = "class_mem" /\ Class["pl"] = "class_pl"
  /\ Class["addr"] = "class_addr" /\ Class["host"] = "class_host"
  /\ Region["mem"] = "region_mem" /\ Region["pl"] = "region_pl"
  /\ Region["addr"] = "region_addr" /\ Region["host"] = "region_host"
  /\ Device["mem"] = "device_mem" /\ Device["pl"] = "device_pl"
  /\ Device["addr"] = "device_addr" /\ Device["host"] = "device_host"
  /\ Cdev["mem"] = "cdev_mem" /\ Cdev["pl"] = "cdev_pl"
  /\ Cdev["addr"] = "cdev_addr" /\ Cdev["host"] = "cdev_host"
  BY DEF Class, Region, Device, Cdev

LEMMA OtherNames ==
  /\ Unclass["mem"] = "unclass_mem" /\ Unclass["pl"] = "unclass_pl"
  /\ Undev["addr"] = "undev_addr" /\ Undev["host"] = "undev_host"
  /\ Field["mem"] = "mem_class" /\ Field["pl"] = "pl_class"
  BY DEF Unclass, Undev, Field

LEMMA MappingNames ==
  /\ Mappings[1] = "ctl" /\ Mappings[2] = "config" /\ Mappings[3] = "desc"
  /\ Mappings[4] = "confmem"
  /\ \A k \in 1..4 : k = 1 \/ k = 2 \/ k = 3 \/ k = 4
  /\ {Mappings[k] : k \in 1..4} = {"ctl", "config", "desc", "confmem"}
  BY DEF Mappings

LEMMA KindNames ==
  /\ Kinds = {"mem", "pl", "addr", "host"}
  /\ PerNode = {"mem", "pl"} /\ Singles = {"addr", "host"}
  BY DEF Kinds, PerNode, Singles

\* The places, phase after phase.
Probing   == {"enable", "mapmem"}
MemRegs   == {"region_mem", "device_mem", "cdev_mem"}
PlProbing == {"kzalloc", "ctl", "config", "desc", "confmem", "addrmap"}
PlRegs    == {"region_pl", "device_pl", "cdev_pl"}
AddrRegs  == {"region_addr", "class_addr", "device_addr", "cdev_addr"}
HostRegs  == {"region_host", "class_host", "device_host", "cdev_host"}
MemOut    == {"disable", "undev_mem", "unmap_mem"}
PlOut     == {"unmap_pl", "undev_pl"}

LEMMA LoadingNames ==
  Loading = {"find", "class_mem", "class_pl", "hostdma", "loaded", "oops"} \cup Probing
              \cup MemRegs \cup PlProbing \cup PlRegs \cup AddrRegs \cup HostRegs
  <1>1. UNION {{Class[d], Region[d], Device[d], Cdev[d]} : d \in Kinds}
          = {"class_mem", "class_pl"} \cup MemRegs \cup PlRegs \cup AddrRegs \cup HostRegs
    BY Names, KindNames DEF MemRegs, PlRegs, AddrRegs, HostRegs
  <1> QED
    BY <1>1, MappingNames DEF Loading, Probing, PlProbing

LEMMA UnloadingNames ==
  Unloading = {"unclass_mem", "unclass_pl", "undev_host", "undev_addr", "unloaded"}
                \cup MemOut \cup PlOut
  BY DEF Unloading, MemOut, PlOut
LEMMA ToleratedNames ==
  Tolerated = {"device_mem", "device_pl", "device_addr", "device_host",
               "region_addr", "region_host", "hostdma"}
  <1>1. {Device[d] : d \in Kinds} = {"device_mem", "device_pl", "device_addr", "device_host"}
    BY Names, KindNames
  <1> QED
    BY <1>1 DEF Tolerated

(***************************************************************************)
(* Types.                                                                  *)
(***************************************************************************)
NodeKinds == {"node", "enabled", "mem", "cdma", "ctl", "config", "desc", "confmem",
              "region_mem", "device_mem", "cdev_mem", "region_pl", "device_pl", "cdev_pl"}
OneKinds == {"class_mem", "class_pl", "host_dma_t",
             "region_addr", "class_addr", "device_addr", "cdev_addr",
             "region_host", "class_host", "device_host", "cdev_host"}
Resource == (NodeKinds \X Node) \cup (OneKinds \X {0})

Names4  == {"ctl", "config", "desc", "confmem"}
Pointers == {"mem_class", "mem_reg", "cdma_dev", "pl_class"} \cup Names4

\* The types, and who owns what.
Typed ==
  /\ pc \in Loading \cup Unloading
  /\ at \in Node
  /\ held \subseteq Resource
  /\ fields \in [Node -> SUBSET Pointers]
  /\ classes \subseteq Kinds
  /\ failed \subseteq Loading \X Node
  /\ fault \in BOOLEAN

LEMMA TypedOK == Typed => TypeOK
  BY MappingNames DEF Typed, TypeOK, Resource, Pointers, Names4

\* What a registration asks for and where it goes.
LEMMA PerKind ==
  ASSUME NEW d \in Kinds, at \in Node
  PROVE  /\ {Class[d], Region[d], Device[d], Cdev[d], Continue(d)} \subseteq Loading
         /\ <<Class[d], 0>> \in Resource /\ <<Region[d], Owner(d)>> \in Resource
         /\ <<Device[d], Owner(d)>> \in Resource /\ <<Cdev[d], Owner(d)>> \in Resource
         /\ d \in PerNode => Field[d] \in Pointers
  <1>1. Continue(d) \in Loading
    BY KindNames, LoadingNames DEF Continue, PlProbing, AddrRegs
  <1>2. {Class[d], Region[d], Device[d], Cdev[d]} \subseteq Loading
    BY KindNames, Names, LoadingNames DEF MemRegs, PlRegs, AddrRegs, HostRegs
  <1>3. <<Class[d], 0>> \in Resource
    BY KindNames, Names DEF Resource, OneKinds
  <1>4. CASE d \in PerNode
    <2>1. Owner(d) \in Node /\ {Region[d], Device[d], Cdev[d]} \subseteq NodeKinds
      BY <1>4, KindNames, Names DEF Owner, NodeKinds
    <2>2. Field[d] \in Pointers
      BY <1>4, KindNames, OtherNames DEF Pointers
    <2> QED
      BY <1>1, <1>2, <1>3, <2>1, <2>2 DEF Resource
  <1>5. CASE d \notin PerNode
    <2>1. Owner(d) = 0 /\ {Region[d], Device[d], Cdev[d]} \subseteq OneKinds
      BY <1>5, KindNames, Names DEF Owner, OneKinds
    <2> QED
      BY <1>1, <1>2, <1>3, <1>5, <2>1 DEF Resource
  <1> QED
    BY <1>4, <1>5

\* Going on, here or at another node.
LEMMA Moves ==
  ASSUME Typed, NEW where \in Loading \cup Unloading, Goto(where) \/ Stay(where)
  PROVE  pc' \in Loading \cup Unloading /\ at' \in Node
  BY DEF Typed, Goto, Stay, Node

LEMMA Loops ==
  ASSUME Typed, NEW again \in Loading \cup Unloading, NEW after \in Loading \cup Unloading,
         NextNode(again, after)
  PROVE  pc' \in Loading \cup Unloading /\ at' \in Node
  BY DEF Typed, NextNode, Goto, Node

LEMMA Takes ==
  ASSUME Typed, NEW k, NEW o, <<k, o>> \in Resource, Take(k, o)
  PROVE  held' \subseteq Resource /\ failed' = failed /\ fault' = fault
  BY DEF Typed, Take

LEMMA Drops ==
  ASSUME Typed, NEW R, Drop(R)
  PROVE  held' \subseteq Resource /\ fault' \in BOOLEAN
  BY DEF Typed, Drop

LEMMA Refuses ==
  ASSUME Typed, pc \in Loading, Refused
  PROVE  failed' \subseteq Loading \X Node
  BY DEF Typed, Refused

LEMMA Fails ==
  ASSUME Typed, pc \in Loading, NEW where \in Loading, FailTo(where)
  PROVE  Typed'
  <1>1. /\ failed' \subseteq Loading \X Node /\ pc' \in Loading \cup Unloading /\ at' \in Node
        /\ UNCHANGED <<held, fields, classes, fault>>
    BY Refuses, Moves DEF FailTo
  <1> QED
    BY <1>1 DEF Typed

LEMMA Assigns ==
  ASSUME Typed, NEW n \in Node, NEW F \in SUBSET Pointers, Assign(n, F)
  PROVE  fields' \in [Node -> SUBSET Pointers]
  BY DEF Typed, Assign

\* The steps of loading keep the types.
LEMMA ProbeTyped ==
  ASSUME Typed, FindDevices \/ EnableDevice \/ MapMem \/ AllocCdma \/ SetAddressMap \/ ProbeHostDma
  PROVE  Typed'
  <1>1. /\ {"find", "enable", "mapmem", "kzalloc", "class_mem", "addrmap", "class_pl", "hostdma",
            "region_addr", "region_host", "loaded", "oops", "ctl"} \subseteq Loading
        /\ Mappings[1] = "ctl"
    BY LoadingNames, MappingNames DEF Probing, PlProbing, AddrRegs, HostRegs
  <1>2. at \in Node /\ <<"enabled", at>> \in Resource /\ <<"mem", at>> \in Resource
        /\ <<"cdma", at>> \in Resource /\ <<"host_dma_t", 0>> \in Resource
    BY DEF Typed, Resource, NodeKinds, OneKinds
  <1>3. CASE FindDevices
    <2>1. CASE FailTo("oops")
      BY <1>1, <1>3, <2>1, Fails DEF FindDevices
    <2>2. CASE /\ held' = held \cup {<<"node", n>> : n \in Node} /\ Goto("enable")
               /\ UNCHANGED <<fields, classes, failed, fault>>
      <3>1. held' \subseteq Resource
        BY <2>2 DEF Typed, Resource, NodeKinds
      <3>2. pc' \in Loading \cup Unloading /\ at' \in Node
        BY <1>1, <2>2, Moves
      <3> QED
        BY <2>2, <3>1, <3>2 DEF Typed
    <2> QED
      BY <1>3, <2>1, <2>2 DEF FindDevices
  <1>4. CASE EnableDevice
    <2>1. CASE FailTo("kzalloc")
      BY <1>1, <1>4, <2>1, Fails DEF EnableDevice
    <2>2. CASE Take("enabled", at) /\ Stay("mapmem") /\ UNCHANGED <<fields, classes>>
      <3>1. held' \subseteq Resource /\ failed' = failed /\ fault' = fault
        BY <1>2, <2>2, Takes
      <3>2. pc' \in Loading \cup Unloading /\ at' \in Node
        BY <1>1, <2>2, Moves
      <3> QED
        BY <2>2, <3>1, <3>2 DEF Typed
    <2> QED
      BY <1>4, <2>1, <2>2 DEF EnableDevice
  <1>5. CASE MapMem
    <2>1. CASE FailTo("kzalloc")
      BY <1>1, <1>5, <2>1, Fails DEF MapMem
    <2>2. CASE /\ Take("mem", at) /\ Assign(at, {"mem_reg"}) /\ NextNode("enable", "class_mem")
               /\ UNCHANGED classes
      <3>1. held' \subseteq Resource /\ failed' = failed /\ fault' = fault
        BY <1>2, <2>2, Takes
      <3>2. pc' \in Loading \cup Unloading /\ at' \in Node
        BY <1>1, <2>2, Loops
      <3>3. fields' \in [Node -> SUBSET Pointers]
        <4>1. {"mem_reg"} \in SUBSET Pointers
          BY DEF Pointers
        <4> QED
          BY <1>2, <2>2, <4>1, Assigns
      <3> QED
        BY <2>2, <3>1, <3>2, <3>3 DEF Typed
    <2> QED
      BY <1>5, <2>1, <2>2 DEF MapMem
  <1>6. CASE AllocCdma
    <2>1. CASE FailTo("oops")
      BY <1>1, <1>6, <2>1, Fails DEF AllocCdma
    <2>2. CASE /\ Take("cdma", at) /\ Assign(at, {"cdma_dev"}) /\ Stay(Mappings[1])
               /\ UNCHANGED classes
      <3>1. held' \subseteq Resource /\ failed' = failed /\ fault' = fault
        BY <1>2, <2>2, Takes
      <3>2. pc' \in Loading \cup Unloading /\ at' \in Node
        BY <1>1, <2>2, Moves
      <3>3. fields' \in [Node -> SUBSET Pointers]
        <4>1. {"cdma_dev"} \in SUBSET Pointers
          BY DEF Pointers
        <4> QED
          BY <1>2, <2>2, <4>1, Assigns
      <3> QED
        BY <2>2, <3>1, <3>2, <3>3 DEF Typed
    <2> QED
      BY <1>6, <2>1, <2>2 DEF AllocCdma
  <1>7. CASE SetAddressMap
    <2>1. CASE ProbeError
      <3>1. held' \subseteq Resource /\ fault' \in BOOLEAN /\ UNCHANGED <<fields, classes>>
        BY <2>1, Drops DEF ProbeError
      <3>2. pc' \in Loading \cup Unloading /\ at' \in Node /\ failed' \subseteq Loading \X Node
        BY <1>1, <1>7, <2>1, Moves, Refuses DEF ProbeError, SetAddressMap
      <3> QED
        BY <3>1, <3>2 DEF Typed
    <2>2. CASE NextNode("kzalloc", "class_pl") /\ UNCHANGED <<held, fields, classes, failed, fault>>
      <3>1. pc' \in Loading \cup Unloading /\ at' \in Node
        BY <1>1, <2>2, Loops
      <3> QED
        BY <2>2, <3>1 DEF Typed
    <2> QED
      BY <1>7, <2>1, <2>2 DEF SetAddressMap
  <1>8. CASE ProbeHostDma
    <2>1. CASE FailTo("oops")
      BY <1>1, <1>8, <2>1, Fails DEF ProbeHostDma
    <2>2. CASE Take("host_dma_t", 0) /\ Goto("region_host") /\ UNCHANGED <<fields, classes>>
      <3>1. held' \subseteq Resource /\ failed' = failed /\ fault' = fault
        BY <1>2, <2>2, Takes
      <3>2. pc' \in Loading \cup Unloading /\ at' \in Node
        BY <1>1, <2>2, Moves
      <3> QED
        BY <2>2, <3>1, <3>2 DEF Typed
    <2>3. CASE /\ Refused /\ held' = held \cup {<<"host_dma_t", 0>>} /\ Goto("loaded")
               /\ UNCHANGED <<fields, classes, fault>>
      <3>1. held' \subseteq Resource
        BY <1>2, <2>3 DEF Typed
      <3>2. pc' \in Loading \cup Unloading /\ at' \in Node /\ failed' \subseteq Loading \X Node
        BY <1>1, <1>8, <2>3, Moves, Refuses DEF ProbeHostDma
      <3> QED
        BY <2>3, <3>1, <3>2 DEF Typed
    <2> QED
      BY <1>8, <2>1, <2>2, <2>3 DEF ProbeHostDma
  <1> QED
    BY <1>3, <1>4, <1>5, <1>6, <1>7, <1>8

LEMMA MapTyped ==
  ASSUME Typed, MapRegisters
  PROVE  Typed'
  <1>1. PICK k \in 1..4 :
          /\ pc = Mappings[k]
          /\ \/ /\ Take(Mappings[k], at) /\ Assign(at, {Mappings[k]})
                /\ Stay(IF k < 4 THEN Mappings[k + 1] ELSE "addrmap") /\ UNCHANGED classes
             \/ ProbeError
    BY DEF MapRegisters
  <1>2. pc \in Loading /\ "region_addr" \in Loading
    BY <1>1, MappingNames, LoadingNames DEF PlProbing, AddrRegs
  <1>3. (IF k < 4 THEN Mappings[k + 1] ELSE "addrmap") \in Loading
    BY MappingNames, LoadingNames DEF PlProbing
  <1>4. <<Mappings[k], at>> \in Resource /\ {Mappings[k]} \in SUBSET Pointers
    BY MappingNames DEF Typed, Resource, NodeKinds, Pointers, Names4
  <1>5. CASE ProbeError
    <2>1. held' \subseteq Resource /\ fault' \in BOOLEAN /\ UNCHANGED <<fields, classes>>
      BY <1>5, Drops DEF ProbeError
    <2>2. pc' \in Loading \cup Unloading /\ at' \in Node /\ failed' \subseteq Loading \X Node
      BY <1>2, <1>5, Moves, Refuses DEF ProbeError
    <2> QED
      BY <2>1, <2>2 DEF Typed
  <1>6. CASE /\ Take(Mappings[k], at) /\ Assign(at, {Mappings[k]})
             /\ Stay(IF k < 4 THEN Mappings[k + 1] ELSE "addrmap") /\ UNCHANGED classes
    <2>1. held' \subseteq Resource /\ failed' = failed /\ fault' = fault
      BY <1>4, <1>6, Takes
    <2>2. pc' \in Loading \cup Unloading /\ at' \in Node
      BY <1>3, <1>6, Moves
    <2>3. fields' \in [Node -> SUBSET Pointers]
      BY <1>4, <1>6, Assigns DEF Typed
    <2> QED
      BY <1>6, <2>1, <2>2, <2>3 DEF Typed
  <1> QED
    BY <1>1, <1>5, <1>6

LEMMA RegisterTyped ==
  ASSUME Typed, NEW d \in Kinds,
         RegisterClass(d) \/ RegisterRegion(d) \/ RegisterDevice(d) \/ AddCdev(d)
  PROVE  Typed'
  <1>1. /\ at \in Node /\ "oops" \in Loading
        /\ Class[d] \in Loading /\ Region[d] \in Loading /\ Device[d] \in Loading
        /\ Cdev[d] \in Loading /\ Continue(d) \in Loading
        /\ <<Class[d], 0>> \in Resource /\ <<Region[d], Owner(d)>> \in Resource
        /\ <<Device[d], Owner(d)>> \in Resource /\ <<Cdev[d], Owner(d)>> \in Resource
    BY PerKind, LoadingNames DEF Typed
  <1>2. CASE RegisterClass(d)
    <2>1. CASE FailTo(IF d \in PerNode THEN Region[d] ELSE "oops")
      BY <1>1, <1>2, <2>1, Fails DEF RegisterClass
    <2>2. CASE /\ Take(Class[d], 0) /\ classes' = classes \cup {d}
               /\ Goto(IF d \in PerNode THEN Region[d] ELSE Device[d]) /\ UNCHANGED fields
      <3>1. held' \subseteq Resource /\ failed' = failed /\ fault' = fault
        BY <1>1, <2>2, Takes
      <3>2. pc' \in Loading \cup Unloading /\ at' \in Node
        BY <1>1, <2>2, Moves
      <3> QED
        BY <2>2, <3>1, <3>2 DEF Typed
    <2> QED
      BY <1>2, <2>1, <2>2 DEF RegisterClass
  <1>3. CASE RegisterRegion(d)
    <2>1. CASE FailTo(Continue(d))
      BY <1>1, <1>3, <2>1, Fails DEF RegisterRegion
    <2>2. CASE /\ Take(Region[d], Owner(d))
               /\ Stay(IF d \in Singles THEN Class[d]
                       ELSE IF d \in classes THEN Device[d] ELSE "oops")
               /\ UNCHANGED <<fields, classes>>
      <3>1. held' \subseteq Resource /\ failed' = failed /\ fault' = fault
        BY <1>1, <2>2, Takes
      <3>2. pc' \in Loading \cup Unloading /\ at' \in Node
        BY <1>1, <2>2, Moves
      <3> QED
        BY <2>2, <3>1, <3>2 DEF Typed
    <2> QED
      BY <1>3, <2>1, <2>2 DEF RegisterRegion
  <1>4. CASE RegisterDevice(d)
    <2>1. pc' \in Loading \cup Unloading /\ at' \in Node /\ UNCHANGED <<fields, classes>>
      BY <1>1, <1>4, Moves DEF RegisterDevice
    <2>2. held' \subseteq Resource /\ failed' \subseteq Loading \X Node /\ fault' = fault
      <3>1. CASE Take(Device[d], Owner(d))
        BY <1>1, <3>1, Takes DEF Typed
      <3>2. CASE Refused /\ UNCHANGED <<held, fault>>
        BY <1>1, <1>4, <3>2, Refuses DEF RegisterDevice, Typed
      <3> QED
        BY <1>4, <3>1, <3>2 DEF RegisterDevice
    <2> QED
      BY <2>1, <2>2 DEF Typed
  <1>5. CASE AddCdev(d)
    <2>1. CASE /\ Take(Cdev[d], Owner(d)) /\ UNCHANGED classes
               /\ IF d \in PerNode
                  THEN Assign(at, {Field[d]}) /\ NextNode(Region[d], Continue(d))
                  ELSE Goto(Continue(d)) /\ UNCHANGED fields
      <3>1. held' \subseteq Resource /\ failed' = failed /\ fault' = fault
        BY <1>1, <2>1, Takes
      <3>2. pc' \in Loading \cup Unloading /\ at' \in Node
        BY <1>1, <2>1, Moves, Loops
      <3>3. fields' \in [Node -> SUBSET Pointers]
        <4>1. CASE d \in PerNode
          BY <1>1, <2>1, <4>1, PerKind, Assigns
        <4>2. CASE d \notin PerNode
          BY <2>1, <4>2 DEF Typed
        <4> QED
          BY <4>1, <4>2
      <3> QED
        BY <2>1, <3>1, <3>2, <3>3 DEF Typed
    <2>2. CASE /\ Refused /\ Drop({<<Region[d], Owner(d)>>})
               /\ Goto(Continue(d)) /\ UNCHANGED <<fields, classes>>
      <3>1. held' \subseteq Resource /\ fault' \in BOOLEAN
        BY <2>2, Drops
      <3>2. pc' \in Loading \cup Unloading /\ at' \in Node /\ failed' \subseteq Loading \X Node
        BY <1>1, <1>5, <2>2, Moves, Refuses DEF AddCdev
      <3> QED
        BY <2>2, <3>1, <3>2 DEF Typed
    <2> QED
      BY <1>5, <2>1, <2>2 DEF AddCdev
  <1> QED
    BY <1>2, <1>3, <1>4, <1>5

LEMMA Releases ==
  ASSUME Typed, NEW n, NEW F, NEW R, ReleaseIf(n, F, R)
  PROVE  held' \subseteq Resource /\ fault' \in BOOLEAN
  <1>1. CASE Drop(R)
    BY <1>1, Drops
  <1>2. CASE UNCHANGED <<held, fault>>
    BY <1>2 DEF Typed
  <1>3. CASE fault' = TRUE /\ UNCHANGED held
    BY <1>3 DEF Typed
  <1> QED
    BY <1>1, <1>2, <1>3 DEF ReleaseIf

\* The steps of unloading keep the types.
LEMMA RemoveTyped ==
  ASSUME Typed, Remove
  PROVE  Typed'
  <1>1. {"disable", "undev_mem", "unmap_mem", "unclass_mem", "unmap_pl", "undev_pl", "unclass_pl",
         "undev_host", "undev_addr", "unloaded"} \subseteq Loading \cup Unloading
    BY DEF Unloading
  <1>2. ASSUME held' \subseteq Resource, fault' \in BOOLEAN,
               pc' \in Loading \cup Unloading, at' \in Node, UNCHANGED <<fields, classes, failed>>
        PROVE  Typed'
    BY <1>2 DEF Typed
  <1>3. ASSUME UNCHANGED <<held, fault>> PROVE held' \subseteq Resource /\ fault' \in BOOLEAN
    BY <1>3 DEF Typed
  <1>4. CASE Unload
    <2>1. pc' \in Loading \cup Unloading /\ at' \in Node
      BY <1>1, <1>4, Moves DEF Unload
    <2> QED
      BY <1>2, <1>3, <1>4, <2>1 DEF Unload
  <1>5. CASE DisableDevice
    <2>1. pc' \in Loading \cup Unloading /\ at' \in Node
      BY <1>1, <1>5, Moves DEF DisableDevice
    <2> QED
      BY <1>2, <1>5, <2>1, Drops DEF DisableDevice
  <1>6. CASE RemoveMemDevice
    <2>1. pc' \in Loading \cup Unloading /\ at' \in Node
      BY <1>1, <1>6, Moves DEF RemoveMemDevice
    <2> QED
      BY <1>2, <1>6, <2>1, Releases DEF RemoveMemDevice
  <1>7. CASE UnmapMem
    <2>1. pc' \in Loading \cup Unloading /\ at' \in Node
      BY <1>1, <1>7, Loops DEF UnmapMem
    <2> QED
      BY <1>2, <1>7, <2>1, Releases DEF UnmapMem
  <1>8. ASSUME NEW d, NEW after \in Loading \cup Unloading, RemoveClass(d, after) PROVE Typed'
    <2>1. pc' \in Loading \cup Unloading /\ at' \in Node
      BY <1>8, Moves DEF RemoveClass
    <2> QED
      BY <1>2, <1>3, <1>8, <2>1, Drops DEF RemoveClass
  <1>9. CASE UnmapRegisters
    <2>1. pc' \in Loading \cup Unloading /\ at' \in Node
      BY <1>1, <1>9, Moves DEF UnmapRegisters
    <2>2. held' \subseteq Resource /\ fault' \in BOOLEAN
      <3>1. CASE Drop(MappedOf(at))
        BY <3>1, Drops
      <3>2. CASE fault' = TRUE /\ UNCHANGED held
        BY <3>2 DEF Typed
      <3> QED
        BY <1>9, <3>1, <3>2 DEF UnmapRegisters
    <2> QED
      BY <1>2, <1>9, <2>1, <2>2 DEF UnmapRegisters
  <1>10. CASE RemovePlDevice
    <2>1. pc' \in Loading \cup Unloading /\ at' \in Node
      BY <1>1, <1>10, Loops DEF RemovePlDevice
    <2> QED
      BY <1>2, <1>10, <2>1, Releases DEF RemovePlDevice
  <1>11. ASSUME NEW d, NEW after \in Loading \cup Unloading, RemoveSingle(d, after) PROVE Typed'
    <2>1. pc' \in Loading \cup Unloading /\ at' \in Node
      BY <1>11, Moves DEF RemoveSingle
    <2> QED
      BY <1>2, <1>3, <1>11, <2>1, Drops DEF RemoveSingle
  <1> QED
    BY <1>1, <1>4, <1>5, <1>6, <1>7, <1>8, <1>9, <1>10, <1>11 DEF Remove

LEMMA InitTyped == Init => Typed
  <1> SUFFICES ASSUME Init PROVE Typed
    OBVIOUS
  <1>1. pc \in Loading /\ at \in Node
    BY LoadingNames DEF Init, Node
  <1>2. fields \in [Node -> SUBSET Pointers]
    BY DEF Init
  <1>3. held = {} /\ classes = {} /\ failed = {} /\ fault = FALSE
    BY DEF Init
  <1> QED
    BY <1>1, <1>2, <1>3 DEF Typed

LEMMA NextTyped == Typed /\ [Next]_vars => Typed'
  <1>1. ASSUME Typed, Load PROVE Typed'
    BY <1>1, ProbeTyped, MapTyped, RegisterTyped DEF Load
  <1>2. ASSUME Typed, UNCHANGED vars PROVE Typed'
    BY <1>2 DEF Typed, vars
  <1> QED
    BY <1>1, <1>2, RemoveTyped DEF Next

(***************************************************************************)
(* What is owned while the module is loaded, whatever fails.               *)
(***************************************************************************)
Early == {"find", "class_mem"} \cup Probing \cup MemRegs

\* The error paths find what they release: the region of the node, or of the
\* address or host device, from its registration to cdev_add; and every mapping
\* a pointer was assigned for, until the probing is left.
Own ==
  /\ pc \in Loading => ~fault
  /\ pc \in {"device_mem", "cdev_mem"} => <<"region_mem", at>> \in held
  /\ pc \in {"device_pl", "cdev_pl"} => <<"region_pl", at>> \in held
  /\ pc \in {"class_addr", "device_addr", "cdev_addr"} => <<"region_addr", 0>> \in held
  /\ pc \in {"class_host", "device_host", "cdev_host"} => <<"region_host", 0>> \in held

Pointed(n) ==
  pc \in Early \cup PlProbing => \A m \in Names4 : m \in fields[n] => <<m, n>> \in held

\* A memory device is registered when the memory of every node is mapped, and
\* removed before that of its node is unmapped.
MemReady(n) ==
  /\ <<"cdev_mem", n>> \in held => "mem_class" \in fields[n] /\ <<"mem", n>> \in held
  /\ pc \in {"class_mem"} \cup MemRegs => <<"mem", n>> \in held
  /\ pc \in Probing /\ n > at => <<"mem", n>> \in held
  /\ pc = "unmap_mem" /\ n = at => <<"cdev_mem", n>> \notin held

\* A PL-DMA device is registered when the registers of every node are mapped.
PlReady(n) == <<"cdma", n>> \in held /\ \A m \in Names4 : <<m, n>> \in held

PlMapped(n) ==
  /\ pc \in Early \cup PlProbing => <<"cdev_pl", n>> \notin held
  /\ pc \in PlProbing /\ n > at => PlReady(n)
  /\ n = at =>
       /\ pc \in PlProbing \ {"kzalloc"} => <<"cdma", n>> \in held
       /\ pc \in {"config", "desc", "confmem", "addrmap"} => <<"ctl", n>> \in held
       /\ pc \in {"desc", "confmem", "addrmap"} => <<"config", n>> \in held
       /\ pc \in {"confmem", "addrmap"} => <<"desc", n>> \in held
       /\ pc = "addrmap" => <<"confmem", n>> \in held
  /\ pc \in {"class_pl"} \cup PlRegs => PlReady(n)
  /\ pc \in Loading /\ <<"cdev_pl", n>> \in held => PlReady(n)

Owned == Own /\ \A n \in Node : Pointed(n) /\ MemReady(n) /\ PlMapped(n)

(***************************************************************************)
(* The books when nothing failed but what is Tolerated: what is held is    *)
(* known from the place.                                                   *)
(***************************************************************************)
Smooth == \A x \in failed : x[1] \in Tolerated

\* What comes after each phase, up to the module being loaded; "oops" is here
\* reached from "hostdma" alone.
AfterAddr  == HostRegs \cup {"hostdma", "loaded", "oops"}
AfterPl    == AddrRegs \cup AfterAddr
AfterMem   == PlProbing \cup {"class_pl"} \cup PlRegs \cup AfterPl
AfterProbe == {"class_mem"} \cup MemRegs \cup AfterMem

\* A loop that takes has done with node n, or is with it at one of the places T;
\* the place is in F; or a loop that releases has n before it, or is with it at
\* one of the places U.
Standing(S, T, F, U, V, n) ==
  \/ pc \in S /\ n > at
  \/ pc \in T /\ n = at
  \/ pc \in F
  \/ pc \in U /\ n = at
  \/ pc \in V /\ n < at

MemOf(n) ==
  /\ <<"enabled", n>> \in held <=>
       Standing(Probing, {"mapmem"}, AfterProbe, {"disable"}, MemOut, n)
  /\ <<"mem", n>> \in held <=> Standing(Probing, {}, AfterProbe, MemOut, MemOut, n)
  /\ <<"mem", n>> \in held => "mem_reg" \in fields[n]
  /\ <<"region_mem", n>> \in held <=>
       Standing(MemRegs, {"device_mem", "cdev_mem"}, AfterMem, {"disable", "undev_mem"}, MemOut, n)
  /\ <<"cdev_mem", n>> \in held <=>
       Standing(MemRegs, {}, AfterMem, {"disable", "undev_mem"}, MemOut, n)
  /\ <<"cdev_mem", n>> \in held => "mem_class" \in fields[n]
  /\ <<"device_mem", n>> \in held => <<"region_mem", n>> \in held

MemClass ==
  /\ <<"class_mem", 0>> \in held <=> pc \in MemRegs \cup AfterMem \cup MemOut \cup {"unclass_mem"}
  /\ pc \in MemRegs \cup AfterMem \cup Unloading => "mem" \in classes

\* From the last mapping of the last node to destroy_dma_list.
PlHeld == {"class_pl"} \cup PlRegs \cup AfterPl \cup MemOut \cup {"unclass_mem"}
PlDone == AfterPl \cup MemOut \cup {"unclass_mem"}

MapOf(n) ==
  /\ n = at /\ pc \in PlProbing \ {"kzalloc"} => "cdma_dev" \in fields[n]
  /\ <<"ctl", n>> \in held <=>
       Standing(PlProbing, {"config", "desc", "confmem", "addrmap"}, PlHeld, {"unmap_pl"}, PlOut, n)
  /\ <<"config", n>> \in held <=>
       Standing(PlProbing, {"desc", "confmem", "addrmap"}, PlHeld, {"unmap_pl"}, PlOut, n)
  /\ <<"desc", n>> \in held <=>
       Standing(PlProbing, {"confmem", "addrmap"}, PlHeld, {"unmap_pl"}, PlOut, n)
  /\ <<"confmem", n>> \in held <=>
       Standing(PlProbing, {"addrmap"}, PlHeld, {"unmap_pl"}, PlOut, n)
  /\ \A m \in Names4 : <<m, n>> \in held => m \in fields[n]
  /\ <<"confmem", n>> \in held => "cdma_dev" \in fields[n]

PlOf(n) ==
  /\ <<"region_pl", n>> \in held <=>
       Standing(PlRegs, {"device_pl", "cdev_pl"}, PlDone, PlOut, PlOut, n)
  /\ <<"cdev_pl", n>> \in held <=> Standing(PlRegs, {}, PlDone, PlOut, PlOut, n)
  /\ <<"cdev_pl", n>> \in held => "pl_class" \in fields[n]
  /\ <<"device_pl", n>> \in held => <<"region_pl", n>> \in held

PlClass ==
  /\ <<"class_pl", 0>> \in held <=> pc \in PlRegs \cup PlDone \cup PlOut \cup {"unclass_pl"}
  /\ pc \in PlRegs \cup AfterPl \cup Unloading => "pl" \in classes

AddrBooks ==
  /\ "addr" \in classes => pc \in {"device_addr", "cdev_addr"} \cup AfterAddr \cup Unloading
  /\ pc \in {"device_addr", "cdev_addr"} => "addr" \in classes
  /\ <<"class_addr", 0>> \in held <=> "addr" \in classes /\ pc # "unloaded"
  /\ <<"region_addr", 0>> \in held <=>
       pc = "class_addr" \/ ("addr" \in classes /\ pc # "unloaded")
  /\ <<"cdev_addr", 0>> \in held <=>
       "addr" \in classes /\ pc \notin {"device_addr", "cdev_addr", "unloaded"}
  /\ <<"device_addr", 0>> \in held => "addr" \in classes /\ pc # "unloaded"

HostBooks ==
  /\ "host" \in classes => pc \in {"device_host", "cdev_host", "loaded"} \cup Unloading
  /\ pc \in {"device_host", "cdev_host"} => "host" \in classes
  /\ <<"class_host", 0>> \in held <=> "host" \in classes /\ pc \notin {"undev_addr", "unloaded"}
  /\ <<"region_host", 0>> \in held <=>
       pc = "class_host" \/ ("host" \in classes /\ pc \notin {"undev_addr", "unloaded"})
  /\ <<"cdev_host", 0>> \in held <=>
       "host" \in classes /\ pc \notin {"device_host", "cdev_host", "undev_addr", "unloaded"}
  /\ <<"device_host", 0>> \in held => "host" \in classes /\ pc \notin {"undev_addr", "unloaded"}

Books ==
  /\ ~fault
  /\ \A n \in Node : MemOf(n) /\ MapOf(n) /\ PlOf(n)
  /\ MemClass /\ PlClass /\ AddrBooks /\ HostBooks

(***************************************************************************)
(* The steps of the registrations, by the names they use.                  *)
(***************************************************************************)
ClassStep(c, d, next, bad) ==
  /\ pc = c
  /\ \/ Take(c, 0) /\ classes' = classes \cup {d} /\ Goto(next) /\ UNCHANGED fields
     \/ FailTo(bad)

RegionStep(r, o, next, after) ==
  /\ pc = r
  /\ \/ Take(r, o) /\ Stay(next) /\ UNCHANGED <<fields, classes>>
     \/ FailTo(after)

DeviceStep(e, o, next) ==
  /\ pc = e
  /\ \/ Take(e, o) /\ Stay(next) /\ UNCHANGED <<fields, classes>>
     \/ Refused /\ Stay(next) /\ UNCHANGED <<held, fields, classes, fault>>

NodeCdevStep(c, f, r, after) ==
  /\ pc = c
  /\ \/ Take(c, at) /\ Assign(at, {f}) /\ NextNode(r, after) /\ UNCHANGED classes
     \/ Refused /\ Drop({<<r, at>>}) /\ Goto(after) /\ UNCHANGED <<fields, classes>>

OneCdevStep(c, r, after) ==
  /\ pc = c
  /\ \/ Take(c, 0) /\ Goto(after) /\ UNCHANGED <<fields, classes>>
     \/ Refused /\ Drop({<<r, 0>>}) /\ Goto(after) /\ UNCHANGED <<fields, classes>>

MapStep(m, next) ==
  /\ pc = m
  /\ \/ Take(m, at) /\ Assign(at, {m}) /\ Stay(next) /\ UNCHANGED classes
     \/ ProbeError

RegisterMem ==
  \/ ClassStep("class_mem", "mem", "region_mem", "region_mem")
  \/ RegionStep("region_mem", at, IF "mem" \in classes THEN "device_mem" ELSE "oops", "kzalloc")
  \/ DeviceStep("device_mem", at, "cdev_mem")
  \/ NodeCdevStep("cdev_mem", "mem_class", "region_mem", "kzalloc")

RegisterPl ==
  \/ ClassStep("class_pl", "pl", "region_pl", "region_pl")
  \/ RegionStep("region_pl", at, IF "pl" \in classes THEN "device_pl" ELSE "oops", "region_addr")
  \/ DeviceStep("device_pl", at, "cdev_pl")
  \/ NodeCdevStep("cdev_pl", "pl_class", "region_pl", "region_addr")

RegisterAddr ==
  \/ ClassStep("class_addr", "addr", "device_addr", "oops")
  \/ RegionStep("region_addr", 0, "class_addr", "hostdma")
  \/ DeviceStep("device_addr", 0, "cdev_addr")
  \/ OneCdevStep("cdev_addr", "region_addr", "hostdma")

RegisterHost ==
  \/ ClassStep("class_host", "host", "device_host", "oops")
  \/ RegionStep("region_host", 0, "class_host", "loaded")
  \/ DeviceStep("device_host", 0, "cdev_host")
  \/ OneCdevStep("cdev_host", "region_host", "loaded")

LEMMA Registers ==
  ASSUME NEW d \in Kinds, 
         RegisterClass(d) \/ RegisterRegion(d) \/ RegisterDevice(d) \/ AddCdev(d)
  PROVE  RegisterMem \/ RegisterPl \/ RegisterAddr \/ RegisterHost
  <1>1. CASE d = "mem"
    <2>1. /\ Owner("mem") = at /\ Continue("mem") = "kzalloc"
          /\ "mem" \in PerNode /\ "mem" \notin Singles
      BY KindNames DEF Owner, Continue
    <2>2. CASE RegisterClass("mem")
      BY <2>1, <2>2, Names DEF RegisterClass, RegisterMem, ClassStep
    <2>3. CASE RegisterRegion("mem")
      BY <2>1, <2>3, Names DEF RegisterRegion, RegisterMem, RegionStep
    <2>4. CASE RegisterDevice("mem")
      BY <2>1, <2>4, Names DEF RegisterDevice, RegisterMem, DeviceStep
    <2>5. CASE AddCdev("mem")
      BY <2>1, <2>5, Names, OtherNames DEF AddCdev, RegisterMem, NodeCdevStep
    <2> QED
      BY <1>1, <2>2, <2>3, <2>4, <2>5
  <1>2. CASE d = "pl"
    <2>1. /\ Owner("pl") = at /\ Continue("pl") = "region_addr"
          /\ "pl" \in PerNode /\ "pl" \notin Singles
      BY KindNames DEF Owner, Continue
    <2>2. CASE RegisterClass("pl")
      BY <2>1, <2>2, Names DEF RegisterClass, RegisterPl, ClassStep
    <2>3. CASE RegisterRegion("pl")
      BY <2>1, <2>3, Names DEF RegisterRegion, RegisterPl, RegionStep
    <2>4. CASE RegisterDevice("pl")
      BY <2>1, <2>4, Names DEF RegisterDevice, RegisterPl, DeviceStep
    <2>5. CASE AddCdev("pl")
      BY <2>1, <2>5, Names, OtherNames DEF AddCdev, RegisterPl, NodeCdevStep
    <2> QED
      BY <1>2, <2>2, <2>3, <2>4, <2>5
  <1>3. CASE d = "addr"
    <2>1. /\ Owner("addr") = 0 /\ Continue("addr") = "hostdma"
          /\ "addr" \notin PerNode /\ "addr" \in Singles
      BY KindNames DEF Owner, Continue
    <2>2. CASE RegisterClass("addr")
      BY <2>1, <2>2, Names DEF RegisterClass, RegisterAddr, ClassStep
    <2>3. CASE RegisterRegion("addr")
      BY <2>1, <2>3, Names DEF RegisterRegion, RegisterAddr, RegionStep
    <2>4. CASE RegisterDevice("addr")
      BY <2>1, <2>4, Names DEF RegisterDevice, RegisterAddr, DeviceStep
    <2>5. CASE AddCdev("addr")
      BY <2>1, <2>5, Names, OtherNames DEF AddCdev, RegisterAddr, OneCdevStep
    <2> QED
      BY <1>3, <2>2, <2>3, <2>4, <2>5
  <1>4. CASE d = "host"
    <2>1. /\ Owner("host") = 0 /\ Continue("host") = "loaded"
          /\ "host" \notin PerNode /\ "host" \in Singles
      BY KindNames DEF Owner, Continue
    <2>2. CASE RegisterClass("host")
      BY <2>1, <2>2, Names DEF RegisterClass, RegisterHost, ClassStep
    <2>3. CASE RegisterRegion("host")
      BY <2>1, <2>3, Names DEF RegisterRegion, RegisterHost, RegionStep
    <2>4. CASE RegisterDevice("host")
      BY <2>1, <2>4, Names DEF RegisterDevice, RegisterHost, DeviceStep
    <2>5. CASE AddCdev("host")
      BY <2>1, <2>5, Names, OtherNames DEF AddCdev, RegisterHost, OneCdevStep
    <2> QED
      BY <1>4, <2>2, <2>3, <2>4, <2>5
  <1> QED
    BY <1>1, <1>2, <1>3, <1>4, KindNames

Maps ==
  \/ MapStep("ctl", "config") \/ MapStep("config", "desc") \/ MapStep("desc", "confmem")
  \/ MapStep("confmem", "addrmap")

LEMMA MapForms == ASSUME MapRegisters PROVE Maps
  <1>1. PICK k \in 1..4 :
          /\ pc = Mappings[k]
          /\ \/ /\ Take(Mappings[k], at) /\ Assign(at, {Mappings[k]})
                /\ Stay(IF k < 4 THEN Mappings[k + 1] ELSE "addrmap") /\ UNCHANGED classes
             \/ ProbeError
    BY DEF MapRegisters
  <1>2. CASE k = 1
    BY <1>1, <1>2, MappingNames DEF Maps, MapStep
  <1>3. CASE k = 2
    BY <1>1, <1>3, MappingNames DEF Maps, MapStep
  <1>4. CASE k = 3
    BY <1>1, <1>4, MappingNames DEF Maps, MapStep
  <1>5. CASE k = 4
    BY <1>1, <1>5, MappingNames DEF Maps, MapStep
  <1> QED
    BY <1>2, <1>3, <1>4, <1>5, MappingNames

Probe == FindDevices \/ EnableDevice \/ MapMem \/ AllocCdma \/ SetAddressMap \/ ProbeHostDma

\* A failure after which the books are still looked at.
LEMMA Tolerates ==
  ASSUME Refused, Smooth'
  PROVE  pc \in {"device_mem", "device_pl", "device_addr", "device_host",
                 "region_addr", "region_host", "hostdma"}
  <1>1. <<pc, at>> \in failed'
    BY DEF Refused
  <1>2. Tolerated' = Tolerated
    BY DEF Tolerated, Device, Kinds, PerNode, Singles
  <1> QED
    BY <1>1, <1>2, ToleratedNames DEF Smooth

\* The mappings of a node, by name.
LEMMA MappedNames ==
  ASSUME NEW n \in Node
  PROVE  /\ \A k, o : <<k, o>> \in MappedOf(n) <=> k \in Names4 /\ k \in fields[n] /\ o = n
         /\ MappedOf(n) \subseteq held <=>
              \A m \in Names4 : m \in fields[n] => <<m, n>> \in held
  BY MappingNames DEF MappedOf, Names4

LEMMA DropsHeld ==
  ASSUME Typed, NEW R, Drop(R), R \subseteq held
  PROVE  fault' = fault /\ held' = held \ R
  BY DEF Typed, Drop

\* The error path of the probing, mapping by mapping.
LEMMA ProbeErrors ==
  ASSUME Typed, ProbeError
  PROVE  /\ Refused /\ pc' = "region_addr" /\ at' = NumDevices /\ UNCHANGED <<fields, classes>>
         /\ \A k, o : <<k, o>> \in held' <=>
              <<k, o>> \in held /\ ~(k \in Names4 /\ k \in fields[at] /\ o = at)
         /\ (\A m \in Names4 : m \in fields[at] => <<m, at>> \in held) => fault' = fault
  <1>1. at \in Node
    BY DEF Typed
  <1>2. Drop(MappedOf(at))
    BY DEF ProbeError
  <1>3. held' = held \ MappedOf(at)
    BY <1>2 DEF Drop
  <1>4. \A k, o : <<k, o>> \in held' <=> <<k, o>> \in held /\ <<k, o>> \notin MappedOf(at)
    BY <1>3
  <1>5. \A k, o : <<k, o>> \in held' <=>
          <<k, o>> \in held /\ ~(k \in Names4 /\ k \in fields[at] /\ o = at)
    BY <1>1, <1>4, MappedNames
  <1>6. MappedOf(at) \subseteq held => fault' = fault
    BY <1>2, DropsHeld
  <1>7. (\A m \in Names4 : m \in fields[at] => <<m, at>> \in held) => fault' = fault
    BY <1>1, <1>6, MappedNames
  <1> QED
    BY <1>5, <1>7 DEF ProbeError, Goto

\* And destroy_dma_list.
LEMMA Unmaps ==
  ASSUME Typed, UnmapRegisters
  PROVE  /\ pc = "unmap_pl" /\ pc' = "undev_pl" /\ at' = at
         /\ UNCHANGED <<fields, classes, failed>>
         /\ \A k, o : <<k, o>> \in held' =>
              <<k, o>> \in held
                /\ ("cdma_dev" \in fields[at] => ~(k \in Names4 /\ k \in fields[at] /\ o = at))
         /\ \A k, o : <<k, o>> \in held /\ ~(k \in Names4 /\ k \in fields[at] /\ o = at)
              => <<k, o>> \in held'
         /\ "cdma_dev" \in fields[at] /\ (\A m \in Names4 : m \in fields[at] => <<m, at>> \in held)
              => fault' = fault
  <1>1. at \in Node
    BY DEF Typed
  <1>2. CASE "cdma_dev" \in fields[at]
    <2>1. Drop(MappedOf(at))
      BY <1>2 DEF UnmapRegisters
    <2>2. held' = held \ MappedOf(at)
      BY <2>1 DEF Drop
    <2>3. \A k, o : <<k, o>> \in held' <=> <<k, o>> \in held /\ <<k, o>> \notin MappedOf(at)
      BY <2>2
    <2>4. \A k, o : <<k, o>> \in held' <=>
            <<k, o>> \in held /\ ~(k \in Names4 /\ k \in fields[at] /\ o = at)
      BY <1>1, <2>3, MappedNames
    <2>5. MappedOf(at) \subseteq held => fault' = fault
      BY <2>1, DropsHeld
    <2>6. (\A m \in Names4 : m \in fields[at] => <<m, at>> \in held) => fault' = fault
      BY <1>1, <2>5, MappedNames
    <2> QED
      BY <2>4, <2>6 DEF UnmapRegisters, Stay
  <1>3. CASE "cdma_dev" \notin fields[at]
    BY <1>3 DEF UnmapRegisters, Stay
  <1> QED
    BY <1>2, <1>3

\* Removing the device d of owner o.
LEMMA Removals ==
  ASSUME Typed, NEW d \in Kinds, NEW o, NEW R, R \subseteq {<<Class[d], 0>>},
         Drop(ToRemove(d, o) \cup R)
  PROVE  /\ \A x : x \in held' <=> x \in held /\ x \notin R /\ x # <<Device[d], o>>
                                   /\ x # <<Cdev[d], o>> /\ x # <<Region[d], o>>
         /\ <<Cdev[d], o>> \in held /\ <<Region[d], o>> \in held /\ R \subseteq held
              => fault' = fault
  <1>1. \A x : x \in ToRemove(d, o) <=>
          \/ x = <<Device[d], o>> /\ x \in held
          \/ x = <<Cdev[d], o>> /\ x # <<Device[d], o>>
          \/ x = <<Region[d], o>> /\ x # <<Device[d], o>>
    <2>1. <<Device[d], o>> # <<Cdev[d], o>> /\ <<Device[d], o>> # <<Region[d], o>>
      BY Names, KindNames
    <2> QED
      BY <2>1 DEF ToRemove, Registered
  <1>2. Device[d] # Cdev[d] /\ Device[d] # Region[d]
    BY Names, KindNames
  <1>3. <<Cdev[d], o>> \in held /\ <<Region[d], o>> \in held /\ R \subseteq held
          => fault' = fault
    <2> SUFFICES ASSUME <<Cdev[d], o>> \in held, <<Region[d], o>> \in held, R \subseteq held
                 PROVE  fault' = fault
      OBVIOUS
    <2>1. ToRemove(d, o) \cup R \subseteq held
      BY <1>1
    <2> QED
      BY <2>1, DropsHeld
  <1>4. \A x : x \in held' <=> x \in held /\ x \notin ToRemove(d, o) /\ x \notin R
    BY DEF Drop
  <1> QED
    BY <1>1, <1>2, <1>3, <1>4

None == {}

LEMMA MemRemovals ==
  ASSUME Typed, RemoveMemDevice
  PROVE  /\ pc = "undev_mem" /\ pc' = "unmap_mem" /\ at' = at
         /\ UNCHANGED <<fields, classes, failed>>
         /\ \A k, o : <<k, o>> \in held' => <<k, o>> \in held
         /\ \A k, o : <<k, o>> \in held
              /\ (o = at => k \notin {"device_mem", "cdev_mem", "region_mem"})
              => <<k, o>> \in held'
         /\ "mem_class" \in fields[at] =>
              /\ <<"device_mem", at>> \notin held' /\ <<"cdev_mem", at>> \notin held'
              /\ <<"region_mem", at>> \notin held'
              /\ <<"cdev_mem", at>> \in held /\ <<"region_mem", at>> \in held => fault' = fault
  <1>1. /\ pc = "undev_mem" /\ pc' = "unmap_mem" /\ at' = at
        /\ UNCHANGED <<fields, classes, failed>>
    BY DEF RemoveMemDevice, Stay
  <1>2. CASE "mem_class" \in fields[at] /\ Drop(ToRemove("mem", at) \cup None)
    <2>1. /\ \A x : x \in held' <=> x \in held /\ x \notin None /\ x # <<Device["mem"], at>>
                                    /\ x # <<Cdev["mem"], at>> /\ x # <<Region["mem"], at>>
          /\ <<Cdev["mem"], at>> \in held /\ <<Region["mem"], at>> \in held /\ None \subseteq held
               => fault' = fault
      <3>1. "mem" \in Kinds /\ None \subseteq {<<Class["mem"], 0>>}
        BY KindNames DEF None
      <3> QED
        BY <1>2, <3>1, Removals
    <2>2. \A k, o : <<k, o>> \in held' <=>
            <<k, o>> \in held /\ ~(o = at /\ k \in {"device_mem", "cdev_mem", "region_mem"})
      BY <2>1, Names DEF None
    <2> QED
      BY <1>1, <2>1, <2>2, Names DEF None
  <1>3. CASE "mem_class" \notin fields[at] /\ held' = held
    BY <1>1, <1>3
  <1>4. ToRemove("mem", at) \cup None = ToRemove("mem", at)
    BY DEF None
  <1> QED
    BY <1>2, <1>3, <1>4 DEF RemoveMemDevice, ReleaseIf

LEMMA PlRemovals ==
  ASSUME Typed, RemovePlDevice
  PROVE  /\ pc = "undev_pl" /\ NextNode("unmap_pl", "unclass_pl")
         /\ UNCHANGED <<fields, classes, failed>>
         /\ \A k, o : <<k, o>> \in held' => <<k, o>> \in held
         /\ \A k, o : <<k, o>> \in held
              /\ (o = at => k \notin {"device_pl", "cdev_pl", "region_pl"})
              => <<k, o>> \in held'
         /\ "pl_class" \in fields[at] =>
              /\ <<"device_pl", at>> \notin held' /\ <<"cdev_pl", at>> \notin held'
              /\ <<"region_pl", at>> \notin held'
              /\ <<"cdev_pl", at>> \in held /\ <<"region_pl", at>> \in held => fault' = fault
  <1>1. /\ pc = "undev_pl" /\ NextNode("unmap_pl", "unclass_pl")
        /\ UNCHANGED <<fields, classes, failed>>
    BY DEF RemovePlDevice
  <1>2. CASE "pl_class" \in fields[at] /\ Drop(ToRemove("pl", at) \cup None)
    <2>1. /\ \A x : x \in held' <=> x \in held /\ x \notin None /\ x # <<Device["pl"], at>>
                                    /\ x # <<Cdev["pl"], at>> /\ x # <<Region["pl"], at>>
          /\ <<Cdev["pl"], at>> \in held /\ <<Region["pl"], at>> \in held /\ None \subseteq held
               => fault' = fault
      <3>1. "pl" \in Kinds /\ None \subseteq {<<Class["pl"], 0>>}
        BY KindNames DEF None
      <3> QED
        BY <1>2, <3>1, Removals
    <2>2. \A k, o : <<k, o>> \in held' <=>
            <<k, o>> \in held /\ ~(o = at /\ k \in {"device_pl", "cdev_pl", "region_pl"})
      BY <2>1, Names DEF None
    <2> QED
      BY <1>1, <2>1, <2>2, Names DEF None
  <1>3. CASE "pl_class" \notin fields[at] /\ held' = held
    BY <1>1, <1>3
  <1>4. ToRemove("pl", at) \cup None = ToRemove("pl", at)
    BY DEF None
  <1> QED
    BY <1>2, <1>3, <1>4 DEF RemovePlDevice, ReleaseIf

\* The host and the address device go with their class.
LEMMA HostRemovals ==
  ASSUME Typed, RemoveSingle("host", "undev_addr")
  PROVE  /\ pc = "undev_host" /\ pc' = "undev_addr" /\ at' = NumDevices
         /\ UNCHANGED <<fields, classes, failed>>
         /\ "host" \notin classes => held' = held /\ fault' = fault
         /\ "host" \in classes =>
              /\ \A k, o : <<k, o>> \in held' <=>
                   <<k, o>> \in held
                     /\ ~(o = 0 /\ k \in {"class_host", "device_host", "cdev_host", "region_host"})
              /\ <<"cdev_host", 0>> \in held /\ <<"region_host", 0>> \in held
                   /\ <<"class_host", 0>> \in held => fault' = fault
  <1>1. /\ pc = "undev_host" /\ pc' = "undev_addr" /\ at' = NumDevices
        /\ UNCHANGED <<fields, classes, failed>>
        /\ "host" \notin classes => held' = held /\ fault' = fault
        /\ "host" \in classes => Drop(ToRemove("host", 0) \cup {<<Class["host"], 0>>})
    BY OtherNames DEF RemoveSingle, Goto
  <1>2. ASSUME "host" \in classes
        PROVE  /\ \A x : x \in held' <=>
                    x \in held /\ x \notin {<<Class["host"], 0>>} /\ x # <<Device["host"], 0>>
                      /\ x # <<Cdev["host"], 0>> /\ x # <<Region["host"], 0>>
               /\ <<Cdev["host"], 0>> \in held /\ <<Region["host"], 0>> \in held
                    /\ {<<Class["host"], 0>>} \subseteq held => fault' = fault
    <2>1. "host" \in Kinds
      BY KindNames
    <2> QED
      BY <1>1, <1>2, <2>1, Removals
  <1>3. ASSUME "host" \in classes
        PROVE  \A k, o : <<k, o>> \in held' <=>
                 <<k, o>> \in held
                   /\ ~(o = 0 /\ k \in {"class_host", "device_host", "cdev_host", "region_host"})
    BY <1>2, <1>3, Names
  <1>4. ASSUME "host" \in classes, <<"cdev_host", 0>> \in held, <<"region_host", 0>> \in held,
               <<"class_host", 0>> \in held
        PROVE  fault' = fault
    BY <1>2, <1>4, Names
  <1> QED
    BY <1>1, <1>3, <1>4

LEMMA AddrRemovals ==
  ASSUME Typed, RemoveSingle("addr", "unloaded")
  PROVE  /\ pc = "undev_addr" /\ pc' = "unloaded" /\ at' = NumDevices
         /\ UNCHANGED <<fields, classes, failed>>
         /\ "addr" \notin classes => held' = held /\ fault' = fault
         /\ "addr" \in classes =>
              /\ \A k, o : <<k, o>> \in held' <=>
                   <<k, o>> \in held
                     /\ ~(o = 0 /\ k \in {"class_addr", "device_addr", "cdev_addr", "region_addr"})
              /\ <<"cdev_addr", 0>> \in held /\ <<"region_addr", 0>> \in held
                   /\ <<"class_addr", 0>> \in held => fault' = fault
  <1>1. /\ pc = "undev_addr" /\ pc' = "unloaded" /\ at' = NumDevices
        /\ UNCHANGED <<fields, classes, failed>>
        /\ "addr" \notin classes => held' = held /\ fault' = fault
        /\ "addr" \in classes => Drop(ToRemove("addr", 0) \cup {<<Class["addr"], 0>>})
    BY OtherNames DEF RemoveSingle, Goto
  <1>2. ASSUME "addr" \in classes
        PROVE  /\ \A x : x \in held' <=>
                    x \in held /\ x \notin {<<Class["addr"], 0>>} /\ x # <<Device["addr"], 0>>
                      /\ x # <<Cdev["addr"], 0>> /\ x # <<Region["addr"], 0>>
               /\ <<Cdev["addr"], 0>> \in held /\ <<Region["addr"], 0>> \in held
                    /\ {<<Class["addr"], 0>>} \subseteq held => fault' = fault
    <2>1. "addr" \in Kinds
      BY KindNames
    <2> QED
      BY <1>1, <1>2, <2>1, Removals
  <1>3. ASSUME "addr" \in classes
        PROVE  \A k, o : <<k, o>> \in held' <=>
                 <<k, o>> \in held
                   /\ ~(o = 0 /\ k \in {"class_addr", "device_addr", "cdev_addr", "region_addr"})
    BY <1>2, <1>3, Names
  <1>4. ASSUME "addr" \in classes, <<"cdev_addr", 0>> \in held, <<"region_addr", 0>> \in held,
               <<"class_addr", 0>> \in held
        PROVE  fault' = fault
    BY <1>2, <1>4, Names
  <1> QED
    BY <1>1, <1>3, <1>4

LEMMA ClassRemovals ==
  ASSUME Typed, NEW d \in PerNode, NEW after, RemoveClass(d, after)
  PROVE  /\ pc = Unclass[d] /\ pc' = after /\ at' = NumDevices
         /\ UNCHANGED <<fields, classes, failed>>
         /\ d \in classes => held' = held \ {<<Class[d], 0>>}
         /\ d \in classes /\ <<Class[d], 0>> \in held => fault' = fault
         /\ d \notin classes => held' = held
  BY DropsHeld DEF RemoveClass, Goto, Drop

LEMMA MemClassRemoval ==
  ASSUME Typed, RemoveClass("mem", "unmap_pl")
  PROVE  /\ pc = "unclass_mem" /\ pc' = "unmap_pl" /\ at' = NumDevices
         /\ UNCHANGED <<fields, classes, failed>>
         /\ \A k, o : <<k, o>> \in held' <=>
              <<k, o>> \in held /\ ~("mem" \in classes /\ k = "class_mem" /\ o = 0)
         /\ ("mem" \in classes => <<"class_mem", 0>> \in held) => fault' = fault
  <1>1. "mem" \in PerNode /\ Unclass["mem"] = "unclass_mem" /\ Class["mem"] = "class_mem"
    BY KindNames, Names, OtherNames
  <1>2. "mem" \notin classes => fault' = fault
    BY DEF RemoveClass
  <1>3. IF "mem" \in classes THEN held' = held \ {<<"class_mem", 0>>} ELSE held' = held
    BY <1>1, ClassRemovals
  <1>4. \A k, o : <<k, o>> \in held' <=>
              <<k, o>> \in held /\ ~("mem" \in classes /\ k = "class_mem" /\ o = 0)
    BY <1>3
  <1> QED
    BY <1>1, <1>2, <1>4, ClassRemovals

LEMMA PlClassRemoval ==
  ASSUME Typed, RemoveClass("pl", "undev_host")
  PROVE  /\ pc = "unclass_pl" /\ pc' = "undev_host" /\ at' = NumDevices
         /\ UNCHANGED <<fields, classes, failed>>
         /\ \A k, o : <<k, o>> \in held' <=>
              <<k, o>> \in held /\ ~("pl" \in classes /\ k = "class_pl" /\ o = 0)
         /\ ("pl" \in classes => <<"class_pl", 0>> \in held) => fault' = fault
  <1>1. "pl" \in PerNode /\ Unclass["pl"] = "unclass_pl" /\ Class["pl"] = "class_pl"
    BY KindNames, Names, OtherNames
  <1>2. "pl" \notin classes => fault' = fault
    BY DEF RemoveClass
  <1>3. IF "pl" \in classes THEN held' = held \ {<<"class_pl", 0>>} ELSE held' = held
    BY <1>1, ClassRemovals
  <1>4. \A k, o : <<k, o>> \in held' <=>
              <<k, o>> \in held /\ ~("pl" \in classes /\ k = "class_pl" /\ o = 0)
    BY <1>3
  <1> QED
    BY <1>1, <1>2, <1>4, ClassRemovals

\* From here on the sets of places are expanded everywhere.
USE DEF Probing, MemRegs, PlProbing, PlRegs, AddrRegs, HostRegs, MemOut, PlOut, Early, Names4,
        AfterAddr, AfterPl, AfterMem, AfterProbe

\* Own, step by step: the error paths find what they release.
LEMMA OwnProbe ==
  ASSUME Typed, Own, Pointed(at), Probe
  PROVE  Own'
  <1>0. at \in Node /\ fields \in [Node -> SUBSET Pointers]
    BY DEF Typed
  <1>1. CASE FindDevices
    BY <1>0, <1>1, LoadingNames DEF Node, Own, FindDevices, Goto, FailTo
  <1>2. CASE EnableDevice
    BY <1>0, <1>2, LoadingNames DEF Node, Own, EnableDevice, Take, Stay, Goto, FailTo
  <1>3. CASE MapMem
    BY <1>0, <1>3, LoadingNames DEF Node, Own, MapMem, Take, Assign, NextNode, Goto, FailTo
  <1>4. CASE AllocCdma
    BY <1>0, <1>4, LoadingNames, MappingNames DEF Node, Own, AllocCdma, Take, Assign, Stay,
       Goto, FailTo
  <1>5. CASE SetAddressMap
    BY <1>0, <1>5, LoadingNames, ProbeErrors DEF Node, Own, Pointed, SetAddressMap, NextNode,
       Goto
  <1>6. CASE ProbeHostDma
    BY <1>0, <1>6, LoadingNames DEF Node, Own, ProbeHostDma, Take, Goto, FailTo
  <1> QED
    BY <1>1, <1>2, <1>3, <1>4, <1>5, <1>6 DEF Probe

LEMMA OwnMaps ==
  ASSUME Typed, Own, Pointed(at), Maps
  PROVE  Own'
  <1>0. at \in Node /\ fields \in [Node -> SUBSET Pointers]
    BY DEF Typed
  <1>1. CASE MapStep("ctl", "config")
    BY <1>0, <1>1, LoadingNames, ProbeErrors DEF Node, Own, Pointed, MapStep, Take, Assign,
       Stay, Goto
  <1>2. CASE MapStep("config", "desc")
    BY <1>0, <1>2, LoadingNames, ProbeErrors DEF Node, Own, Pointed, MapStep, Take, Assign,
       Stay, Goto
  <1>3. CASE MapStep("desc", "confmem")
    BY <1>0, <1>3, LoadingNames, ProbeErrors DEF Node, Own, Pointed, MapStep, Take, Assign,
       Stay, Goto
  <1>4. CASE MapStep("confmem", "addrmap")
    BY <1>0, <1>4, LoadingNames, ProbeErrors DEF Node, Own, Pointed, MapStep, Take, Assign,
       Stay, Goto
  <1> QED
    BY <1>1, <1>2, <1>3, <1>4 DEF Maps

LEMMA OwnRegisterMem ==
  ASSUME Typed, Own, Pointed(at), RegisterMem
  PROVE  Own'
  <1>0. at \in Node /\ fields \in [Node -> SUBSET Pointers]
    BY DEF Typed
  <1>1. CASE ClassStep("class_mem", "mem", "region_mem", "region_mem")
    BY <1>0, <1>1, LoadingNames DEF Node, Own, ClassStep, Take, Goto, FailTo
  <1>2. CASE RegionStep("region_mem", at,
                        IF "mem" \in classes THEN "device_mem" ELSE "oops", "kzalloc")
    BY <1>0, <1>2, LoadingNames DEF Node, Own, RegionStep, Take, Stay, Goto, FailTo
  <1>3. CASE DeviceStep("device_mem", at, "cdev_mem")
    BY <1>0, <1>3, LoadingNames DEF Node, Own, DeviceStep, Take, Stay
  <1>4. CASE NodeCdevStep("cdev_mem", "mem_class", "region_mem", "kzalloc")
    BY <1>0, <1>4, LoadingNames, DropsHeld DEF Node, Own, NodeCdevStep, Take, Goto, Assign,
       NextNode
  <1> QED
    BY <1>1, <1>2, <1>3, <1>4 DEF RegisterMem

LEMMA OwnRegisterPl ==
  ASSUME Typed, Own, Pointed(at), RegisterPl
  PROVE  Own'
  <1>0. at \in Node /\ fields \in [Node -> SUBSET Pointers]
    BY DEF Typed
  <1>1. CASE ClassStep("class_pl", "pl", "region_pl", "region_pl")
    BY <1>0, <1>1, LoadingNames DEF Node, Own, ClassStep, Take, Goto, FailTo
  <1>2. CASE RegionStep("region_pl", at,
                        IF "pl" \in classes THEN "device_pl" ELSE "oops", "region_addr")
    BY <1>0, <1>2, LoadingNames DEF Node, Own, RegionStep, Take, Stay, Goto, FailTo
  <1>3. CASE DeviceStep("device_pl", at, "cdev_pl")
    BY <1>0, <1>3, LoadingNames DEF Node, Own, DeviceStep, Take, Stay
  <1>4. CASE NodeCdevStep("cdev_pl", "pl_class", "region_pl", "region_addr")
    BY <1>0, <1>4, LoadingNames, DropsHeld DEF Node, Own, NodeCdevStep, Take, Goto, Assign,
       NextNode
  <1> QED
    BY <1>1, <1>2, <1>3, <1>4 DEF RegisterPl

LEMMA OwnRegisterAddr ==
  ASSUME Typed, Own, Pointed(at), RegisterAddr
  PROVE  Own'
  <1>0. at \in Node /\ fields \in [Node -> SUBSET Pointers]
    BY DEF Typed
  <1>1. CASE ClassStep("class_addr", "addr", "device_addr", "oops")
    BY <1>0, <1>1, LoadingNames DEF Node, Own, ClassStep, Take, Goto, FailTo
  <1>2. CASE RegionStep("region_addr", 0, "class_addr", "hostdma")
    BY <1>0, <1>2, LoadingNames DEF Node, Own, RegionStep, Take, Stay, Goto, FailTo
  <1>3. CASE DeviceStep("device_addr", 0, "cdev_addr")
    BY <1>0, <1>3, LoadingNames DEF Node, Own, DeviceStep, Take, Stay
  <1>4. CASE OneCdevStep("cdev_addr", "region_addr", "hostdma")
    BY <1>0, <1>4, LoadingNames, DropsHeld DEF Node, Own, OneCdevStep, Take, Goto
  <1> QED
    BY <1>1, <1>2, <1>3, <1>4 DEF RegisterAddr

LEMMA OwnRegisterHost ==
  ASSUME Typed, Own, Pointed(at), RegisterHost
  PROVE  Own'
  <1>0. at \in Node /\ fields \in [Node -> SUBSET Pointers]
    BY DEF Typed
  <1>1. CASE ClassStep("class_host", "host", "device_host", "oops")
    BY <1>0, <1>1, LoadingNames DEF Node, Own, ClassStep, Take, Goto, FailTo
  <1>2. CASE RegionStep("region_host", 0, "class_host", "loaded")
    BY <1>0, <1>2, LoadingNames DEF Node, Own, RegionStep, Take, Stay, Goto, FailTo
  <1>3. CASE DeviceStep("device_host", 0, "cdev_host")
    BY <1>0, <1>3, LoadingNames DEF Node, Own, DeviceStep, Take, Stay
  <1>4. CASE OneCdevStep("cdev_host", "region_host", "loaded")
    BY <1>0, <1>4, LoadingNames, DropsHeld DEF Node, Own, OneCdevStep, Take, Goto
  <1> QED
    BY <1>1, <1>2, <1>3, <1>4 DEF RegisterHost

LEMMA OwnUnloading ==
  ASSUME Typed, Own, Pointed(at), Remove
  PROVE  Own'
  <1>0. at \in Node /\ fields \in [Node -> SUBSET Pointers]
    BY DEF Typed
  <1>1. CASE Unload
    BY <1>0, <1>1, LoadingNames DEF Node, Own, Unload, Goto
  <1>2. CASE DisableDevice
    BY <1>0, <1>2, LoadingNames, DropsHeld DEF Node, Own, DisableDevice, Stay
  <1>3. CASE RemoveMemDevice
    BY <1>0, <1>3, LoadingNames, MemRemovals DEF Node, Own
  <1>4. CASE UnmapMem
    BY <1>0, <1>4, LoadingNames, DropsHeld DEF Node, Own, UnmapMem, NextNode, Goto, ReleaseIf
  <1>5. CASE RemoveClass("mem", "unmap_pl")
    BY <1>0, <1>5, LoadingNames, MemClassRemoval DEF Node, Own
  <1>6. CASE UnmapRegisters
    BY <1>0, <1>6, LoadingNames, Unmaps DEF Node, Own
  <1>7. CASE RemovePlDevice
    BY <1>0, <1>7, LoadingNames, PlRemovals DEF Node, Own, NextNode, Goto
  <1>8. CASE RemoveClass("pl", "undev_host")
    BY <1>0, <1>8, LoadingNames, PlClassRemoval DEF Node, Own
  <1>9. CASE RemoveSingle("host", "undev_addr")
    BY <1>0, <1>9, LoadingNames, HostRemovals DEF Node, Own
  <1>10. CASE RemoveSingle("addr", "unloaded")
    BY <1>0, <1>10, LoadingNames, AddrRemovals DEF Node, Own
  <1> QED
    BY <1>1, <1>2, <1>3, <1>4, <1>5, <1>6, <1>7, <1>8, <1>9, <1>10 DEF Remove

\* Pointed, step by step: a mapping with a pointer is held while the devices are probed.
LEMMA PointedProbe ==
  ASSUME Typed, NEW n \in Node, Pointed(n), Probe
  PROVE  Pointed(n)'
  <1>0. at \in Node /\ fields \in [Node -> SUBSET Pointers]
    BY DEF Typed
  <1>1. CASE FindDevices
    BY <1>0, <1>1 DEF Node, Pointed, FindDevices, Goto, FailTo
  <1>2. CASE EnableDevice
    BY <1>0, <1>2 DEF Node, Pointed, EnableDevice, Take, Stay, Goto, FailTo
  <1>3. CASE MapMem
    BY <1>0, <1>3 DEF Node, Pointed, MapMem, Take, Assign, NextNode, Goto, FailTo
  <1>4. CASE AllocCdma
    <2>1. pc = "kzalloc" /\ \A x : x \in held => x \in held'
      BY <1>4 DEF AllocCdma, Take, FailTo
    <2>2. \A m \in Names4 : m \in fields'[n] => m \in fields[n]
      BY <1>0, <1>4 DEF AllocCdma, Assign, FailTo
    <2> QED
      BY <2>1, <2>2 DEF Pointed
  <1>5. CASE SetAddressMap
    BY <1>0, <1>5, ProbeErrors DEF Node, Pointed, SetAddressMap, NextNode, Goto
  <1>6. CASE ProbeHostDma
    BY <1>0, <1>6 DEF Node, Pointed, ProbeHostDma, Take, Goto, FailTo
  <1> QED
    BY <1>1, <1>2, <1>3, <1>4, <1>5, <1>6 DEF Probe

LEMMA PointedMaps ==
  ASSUME Typed, NEW n \in Node, Pointed(n), Maps
  PROVE  Pointed(n)'
  <1>0. at \in Node /\ fields \in [Node -> SUBSET Pointers]
    BY DEF Typed
  <1>1. CASE MapStep("ctl", "config")
    BY <1>0, <1>1, ProbeErrors DEF Node, Pointed, MapStep, Take, Assign, Stay, Goto
  <1>2. CASE MapStep("config", "desc")
    BY <1>0, <1>2, ProbeErrors DEF Node, Pointed, MapStep, Take, Assign, Stay, Goto
  <1>3. CASE MapStep("desc", "confmem")
    BY <1>0, <1>3, ProbeErrors DEF Node, Pointed, MapStep, Take, Assign, Stay, Goto
  <1>4. CASE MapStep("confmem", "addrmap")
    BY <1>0, <1>4, ProbeErrors DEF Node, Pointed, MapStep, Take, Assign, Stay, Goto
  <1> QED
    BY <1>1, <1>2, <1>3, <1>4 DEF Maps

LEMMA PointedRegisterMem ==
  ASSUME Typed, NEW n \in Node, Pointed(n), RegisterMem
  PROVE  Pointed(n)'
  <1>0. at \in Node /\ fields \in [Node -> SUBSET Pointers]
    BY DEF Typed
  <1>1. CASE ClassStep("class_mem", "mem", "region_mem", "region_mem")
    BY <1>0, <1>1 DEF Node, Pointed, ClassStep, Take, Goto, FailTo
  <1>2. CASE RegionStep("region_mem", at,
                        IF "mem" \in classes THEN "device_mem" ELSE "oops", "kzalloc")
    BY <1>0, <1>2 DEF Node, Pointed, RegionStep, Take, Stay, Goto, FailTo
  <1>3. CASE DeviceStep("device_mem", at, "cdev_mem")
    BY <1>0, <1>3 DEF Node, Pointed, DeviceStep, Take, Stay
  <1>4. CASE NodeCdevStep("cdev_mem", "mem_class", "region_mem", "kzalloc")
    BY <1>0, <1>4 DEF Node, Pointed, NodeCdevStep, Take, Goto, Assign, NextNode, Drop
  <1> QED
    BY <1>1, <1>2, <1>3, <1>4 DEF RegisterMem

LEMMA PointedRegisterPl ==
  ASSUME Typed, NEW n \in Node, Pointed(n), RegisterPl
  PROVE  Pointed(n)'
  <1>0. at \in Node /\ fields \in [Node -> SUBSET Pointers]
    BY DEF Typed
  <1>1. CASE ClassStep("class_pl", "pl", "region_pl", "region_pl")
    BY <1>0, <1>1 DEF Node, Pointed, ClassStep, Take, Goto, FailTo
  <1>2. CASE RegionStep("region_pl", at,
                        IF "pl" \in classes THEN "device_pl" ELSE "oops", "region_addr")
    BY <1>0, <1>2 DEF Node, Pointed, RegionStep, Take, Stay, Goto, FailTo
  <1>3. CASE DeviceStep("device_pl", at, "cdev_pl")
    BY <1>0, <1>3 DEF Node, Pointed, DeviceStep, Take, Stay
  <1>4. CASE NodeCdevStep("cdev_pl", "pl_class", "region_pl", "region_addr")
    BY <1>0, <1>4 DEF Node, Pointed, NodeCdevStep, Take, Goto, Assign, NextNode, Drop
  <1> QED
    BY <1>1, <1>2, <1>3, <1>4 DEF RegisterPl

LEMMA PointedRegisterAddr ==
  ASSUME Typed, NEW n \in Node, Pointed(n), RegisterAddr
  PROVE  Pointed(n)'
  <1>0. at \in Node /\ fields \in [Node -> SUBSET Pointers]
    BY DEF Typed
  <1>1. CASE ClassStep("class_addr", "addr", "device_addr", "oops")
    BY <1>0, <1>1 DEF Node, Pointed, ClassStep, Take, Goto, FailTo
  <1>2. CASE RegionStep("region_addr", 0, "class_addr", "hostdma")
    BY <1>0, <1>2 DEF Node, Pointed, RegionStep, Take, Stay, Goto, FailTo
  <1>3. CASE DeviceStep("device_addr", 0, "cdev_addr")
    BY <1>0, <1>3 DEF Node, Pointed, DeviceStep, Take, Stay
  <1>4. CASE OneCdevStep("cdev_addr", "region_addr", "hostdma")
    BY <1>0, <1>4 DEF Node, Pointed, OneCdevStep, Take, Goto, Drop
  <1> QED
    BY <1>1, <1>2, <1>3, <1>4 DEF RegisterAddr

LEMMA PointedRegisterHost ==
  ASSUME Typed, NEW n \in Node, Pointed(n), RegisterHost
  PROVE  Pointed(n)'
  <1>0. at \in Node /\ fields \in [Node -> SUBSET Pointers]
    BY DEF Typed
  <1>1. CASE ClassStep("class_host", "host", "device_host", "oops")
    BY <1>0, <1>1 DEF Node, Pointed, ClassStep, Take, Goto, FailTo
  <1>2. CASE RegionStep("region_host", 0, "class_host", "loaded")
    BY <1>0, <1>2 DEF Node, Pointed, RegionStep, Take, Stay, Goto, FailTo
  <1>3. CASE DeviceStep("device_host", 0, "cdev_host")
    BY <1>0, <1>3 DEF Node, Pointed, DeviceStep, Take, Stay
  <1>4. CASE OneCdevStep("cdev_host", "region_host", "loaded")
    BY <1>0, <1>4 DEF Node, Pointed, OneCdevStep, Take, Goto, Drop
  <1> QED
    BY <1>1, <1>2, <1>3, <1>4 DEF RegisterHost

LEMMA PointedUnloading ==
  ASSUME Typed, NEW n \in Node, Pointed(n), Remove
  PROVE  Pointed(n)'
  <1>0. at \in Node /\ fields \in [Node -> SUBSET Pointers]
    BY DEF Typed
  <1>1. CASE Unload
    BY <1>0, <1>1 DEF Node, Pointed, Unload, Goto
  <1>2. CASE DisableDevice
    BY <1>0, <1>2 DEF Node, Pointed, DisableDevice, Stay, Drop
  <1>3. CASE RemoveMemDevice
    BY <1>0, <1>3, MemRemovals DEF Node, Pointed
  <1>4. CASE UnmapMem
    BY <1>0, <1>4 DEF Node, Pointed, UnmapMem, NextNode, Goto, ReleaseIf, Drop
  <1>5. CASE RemoveClass("mem", "unmap_pl")
    BY <1>0, <1>5, MemClassRemoval DEF Node, Pointed
  <1>6. CASE UnmapRegisters
    BY <1>0, <1>6, Unmaps DEF Node, Pointed
  <1>7. CASE RemovePlDevice
    BY <1>0, <1>7, PlRemovals DEF Node, Pointed, NextNode, Goto
  <1>8. CASE RemoveClass("pl", "undev_host")
    BY <1>0, <1>8, PlClassRemoval DEF Node, Pointed
  <1>9. CASE RemoveSingle("host", "undev_addr")
    BY <1>0, <1>9, HostRemovals DEF Node, Pointed
  <1>10. CASE RemoveSingle("addr", "unloaded")
    BY <1>0, <1>10, AddrRemovals DEF Node, Pointed
  <1> QED
    BY <1>1, <1>2, <1>3, <1>4, <1>5, <1>6, <1>7, <1>8, <1>9, <1>10 DEF Remove

\* MemReady, step by step: the memory of a memory device is mapped.
LEMMA MemReadyProbe ==
  ASSUME Typed, NEW n \in Node, MemReady(n), Probe
  PROVE  MemReady(n)'
  <1>0. at \in Node /\ fields \in [Node -> SUBSET Pointers]
    BY DEF Typed
  <1>1. CASE FindDevices
    BY <1>0, <1>1 DEF Node, MemReady, FindDevices, Goto, FailTo
  <1>2. CASE EnableDevice
    BY <1>0, <1>2 DEF Node, MemReady, EnableDevice, Take, Stay, Goto, FailTo
  <1>3. CASE MapMem
    BY <1>0, <1>3 DEF Node, MemReady, MapMem, Take, Assign, NextNode, Goto, FailTo
  <1>4. CASE AllocCdma
    BY <1>0, <1>4, MappingNames DEF Node, MemReady, AllocCdma, Take, Assign, Stay, Goto,
       FailTo
  <1>5. CASE SetAddressMap
    BY <1>0, <1>5, ProbeErrors DEF Node, MemReady, SetAddressMap, NextNode, Goto
  <1>6. CASE ProbeHostDma
    BY <1>0, <1>6 DEF Node, MemReady, ProbeHostDma, Take, Goto, FailTo
  <1> QED
    BY <1>1, <1>2, <1>3, <1>4, <1>5, <1>6 DEF Probe

LEMMA MemReadyMaps ==
  ASSUME Typed, NEW n \in Node, MemReady(n), Maps
  PROVE  MemReady(n)'
  <1>0. at \in Node /\ fields \in [Node -> SUBSET Pointers]
    BY DEF Typed
  <1>1. CASE MapStep("ctl", "config")
    BY <1>0, <1>1, ProbeErrors DEF Node, MemReady, MapStep, Take, Assign, Stay, Goto
  <1>2. CASE MapStep("config", "desc")
    BY <1>0, <1>2, ProbeErrors DEF Node, MemReady, MapStep, Take, Assign, Stay, Goto
  <1>3. CASE MapStep("desc", "confmem")
    BY <1>0, <1>3, ProbeErrors DEF Node, MemReady, MapStep, Take, Assign, Stay, Goto
  <1>4. CASE MapStep("confmem", "addrmap")
    BY <1>0, <1>4, ProbeErrors DEF Node, MemReady, MapStep, Take, Assign, Stay, Goto
  <1> QED
    BY <1>1, <1>2, <1>3, <1>4 DEF Maps

LEMMA MemReadyRegisterMem ==
  ASSUME Typed, NEW n \in Node, MemReady(n), RegisterMem
  PROVE  MemReady(n)'
  <1>0. at \in Node /\ fields \in [Node -> SUBSET Pointers]
    BY DEF Typed
  <1>1. CASE ClassStep("class_mem", "mem", "region_mem", "region_mem")
    BY <1>0, <1>1 DEF Node, MemReady, ClassStep, Take, Goto, FailTo
  <1>2. CASE RegionStep("region_mem", at,
                        IF "mem" \in classes THEN "device_mem" ELSE "oops", "kzalloc")
    BY <1>0, <1>2 DEF Node, MemReady, RegionStep, Take, Stay, Goto, FailTo
  <1>3. CASE DeviceStep("device_mem", at, "cdev_mem")
    BY <1>0, <1>3 DEF Node, MemReady, DeviceStep, Take, Stay
  <1>4. CASE NodeCdevStep("cdev_mem", "mem_class", "region_mem", "kzalloc")
    BY <1>0, <1>4 DEF Node, MemReady, NodeCdevStep, Take, Goto, Assign, NextNode, Drop
  <1> QED
    BY <1>1, <1>2, <1>3, <1>4 DEF RegisterMem

LEMMA MemReadyRegisterPl ==
  ASSUME Typed, NEW n \in Node, MemReady(n), RegisterPl
  PROVE  MemReady(n)'
  <1>0. at \in Node /\ fields \in [Node -> SUBSET Pointers]
    BY DEF Typed
  <1>1. CASE ClassStep("class_pl", "pl", "region_pl", "region_pl")
    BY <1>0, <1>1 DEF Node, MemReady, ClassStep, Take, Goto, FailTo
  <1>2. CASE RegionStep("region_pl", at,
                        IF "pl" \in classes THEN "device_pl" ELSE "oops", "region_addr")
    BY <1>0, <1>2 DEF Node, MemReady, RegionStep, Take, Stay, Goto, FailTo
  <1>3. CASE DeviceStep("device_pl", at, "cdev_pl")
    BY <1>0, <1>3 DEF Node, MemReady, DeviceStep, Take, Stay
  <1>4. CASE NodeCdevStep("cdev_pl", "pl_class", "region_pl", "region_addr")
    BY <1>0, <1>4 DEF Node, MemReady, NodeCdevStep, Take, Goto, Assign, NextNode, Drop
  <1> QED
    BY <1>1, <1>2, <1>3, <1>4 DEF RegisterPl

LEMMA MemReadyRegisterAddr ==
  ASSUME Typed, NEW n \in Node, MemReady(n), RegisterAddr
  PROVE  MemReady(n)'
  <1>0. at \in Node /\ fields \in [Node -> SUBSET Pointers]
    BY DEF Typed
  <1>1. CASE ClassStep("class_addr", "addr", "device_addr", "oops")
    BY <1>0, <1>1 DEF Node, MemReady, ClassStep, Take, Goto, FailTo
  <1>2. CASE RegionStep("region_addr", 0, "class_addr", "hostdma")
    BY <1>0, <1>2 DEF Node, MemReady, RegionStep, Take, Stay, Goto, FailTo
  <1>3. CASE DeviceStep("device_addr", 0, "cdev_addr")
    BY <1>0, <1>3 DEF Node, MemReady, DeviceStep, Take, Stay
  <1>4. CASE OneCdevStep("cdev_addr", "region_addr", "hostdma")
    BY <1>0, <1>4 DEF Node, MemReady, OneCdevStep, Take, Goto, Drop
  <1> QED
    BY <1>1, <1>2, <1>3, <1>4 DEF RegisterAddr

LEMMA MemReadyRegisterHost ==
  ASSUME Typed, NEW n \in Node, MemReady(n), RegisterHost
  PROVE  MemReady(n)'
  <1>0. at \in Node /\ fields \in [Node -> SUBSET Pointers]
    BY DEF Typed
  <1>1. CASE ClassStep("class_host", "host", "device_host", "oops")
    BY <1>0, <1>1 DEF Node, MemReady, ClassStep, Take, Goto, FailTo
  <1>2. CASE RegionStep("region_host", 0, "class_host", "loaded")
    BY <1>0, <1>2 DEF Node, MemReady, RegionStep, Take, Stay, Goto, FailTo
  <1>3. CASE DeviceStep("device_host", 0, "cdev_host")
    BY <1>0, <1>3 DEF Node, MemReady, DeviceStep, Take, Stay
  <1>4. CASE OneCdevStep("cdev_host", "region_host", "loaded")
    BY <1>0, <1>4 DEF Node, MemReady, OneCdevStep, Take, Goto, Drop
  <1> QED
    BY <1>1, <1>2, <1>3, <1>4 DEF RegisterHost

LEMMA MemReadyUnloading ==
  ASSUME Typed, NEW n \in Node, MemReady(n), Remove
  PROVE  MemReady(n)'
  <1>0. at \in Node /\ fields \in [Node -> SUBSET Pointers]
    BY DEF Typed
  <1>1. CASE Unload
    BY <1>0, <1>1 DEF Node, MemReady, Unload, Goto
  <1>2. CASE DisableDevice
    BY <1>0, <1>2 DEF Node, MemReady, DisableDevice, Stay, Drop
  <1>3. CASE RemoveMemDevice
    BY <1>0, <1>3, MemRemovals DEF Node, MemReady
  <1>4. CASE UnmapMem
    BY <1>0, <1>4 DEF Node, MemReady, UnmapMem, NextNode, Goto, ReleaseIf, Drop
  <1>5. CASE RemoveClass("mem", "unmap_pl")
    BY <1>0, <1>5, MemClassRemoval DEF Node, MemReady
  <1>6. CASE UnmapRegisters
    BY <1>0, <1>6, Unmaps DEF Node, MemReady
  <1>7. CASE RemovePlDevice
    BY <1>0, <1>7, PlRemovals DEF Node, MemReady, NextNode, Goto
  <1>8. CASE RemoveClass("pl", "undev_host")
    BY <1>0, <1>8, PlClassRemoval DEF Node, MemReady
  <1>9. CASE RemoveSingle("host", "undev_addr")
    BY <1>0, <1>9, HostRemovals DEF Node, MemReady
  <1>10. CASE RemoveSingle("addr", "unloaded")
    BY <1>0, <1>10, AddrRemovals DEF Node, MemReady
  <1> QED
    BY <1>1, <1>2, <1>3, <1>4, <1>5, <1>6, <1>7, <1>8, <1>9, <1>10 DEF Remove

\* PlMapped, step by step: the registers of a PL-DMA device are mapped.
LEMMA PlMappedProbe ==
  ASSUME Typed, NEW n \in Node, PlMapped(n), Probe
  PROVE  PlMapped(n)'
  <1>0. at \in Node /\ fields \in [Node -> SUBSET Pointers]
    BY DEF Typed
  <1>1. CASE FindDevices
    BY <1>0, <1>1, LoadingNames DEF Node, PlMapped, PlReady, FindDevices, Goto, FailTo
  <1>2. CASE EnableDevice
    BY <1>0, <1>2, LoadingNames DEF Node, PlMapped, PlReady, EnableDevice, Take, Stay, Goto,
       FailTo
  <1>3. CASE MapMem
    BY <1>0, <1>3, LoadingNames DEF Node, PlMapped, PlReady, MapMem, Take, Assign, NextNode,
       Goto, FailTo
  <1>4. CASE AllocCdma
    BY <1>0, <1>4, LoadingNames, MappingNames DEF Node, PlMapped, PlReady, AllocCdma, Take,
       Assign, Stay, Goto, FailTo
  <1>5. CASE SetAddressMap
    BY <1>0, <1>5, LoadingNames, ProbeErrors DEF Node, PlMapped, PlReady, SetAddressMap,
       NextNode, Goto
  <1>6. CASE ProbeHostDma
    BY <1>0, <1>6, LoadingNames DEF Node, PlMapped, PlReady, ProbeHostDma, Take, Goto, FailTo
  <1> QED
    BY <1>1, <1>2, <1>3, <1>4, <1>5, <1>6 DEF Probe

LEMMA PlMappedMaps ==
  ASSUME Typed, NEW n \in Node, PlMapped(n), Maps
  PROVE  PlMapped(n)'
  <1>0. at \in Node /\ fields \in [Node -> SUBSET Pointers]
    BY DEF Typed
  <1>1. CASE MapStep("ctl", "config")
    BY <1>0, <1>1, LoadingNames, ProbeErrors DEF Node, PlMapped, PlReady, MapStep, Take,
       Assign, Stay, Goto
  <1>2. CASE MapStep("config", "desc")
    BY <1>0, <1>2, LoadingNames, ProbeErrors DEF Node, PlMapped, PlReady, MapStep, Take,
       Assign, Stay, Goto
  <1>3. CASE MapStep("desc", "confmem")
    BY <1>0, <1>3, LoadingNames, ProbeErrors DEF Node, PlMapped, PlReady, MapStep, Take,
       Assign, Stay, Goto
  <1>4. CASE MapStep("confmem", "addrmap")
    BY <1>0, <1>4, LoadingNames, ProbeErrors DEF Node, PlMapped, PlReady, MapStep, Take,
       Assign, Stay, Goto
  <1> QED
    BY <1>1, <1>2, <1>3, <1>4 DEF Maps

LEMMA PlMappedRegisterMem ==
  ASSUME Typed, NEW n \in Node, PlMapped(n), RegisterMem
  PROVE  PlMapped(n)'
  <1>0. at \in Node /\ fields \in [Node -> SUBSET Pointers]
    BY DEF Typed
  <1>1. CASE ClassStep("class_mem", "mem", "region_mem", "region_mem")
    BY <1>0, <1>1, LoadingNames DEF Node, PlMapped, PlReady, ClassStep, Take, Goto, FailTo
  <1>2. CASE RegionStep("region_mem", at,
                        IF "mem" \in classes THEN "device_mem" ELSE "oops", "kzalloc")
    BY <1>0, <1>2, LoadingNames DEF Node, PlMapped, PlReady, RegionStep, Take, Stay, Goto,
       FailTo
  <1>3. CASE DeviceStep("device_mem", at, "cdev_mem")
    BY <1>0, <1>3, LoadingNames DEF Node, PlMapped, PlReady, DeviceStep, Take, Stay
  <1>4. CASE NodeCdevStep("cdev_mem", "mem_class", "region_mem", "kzalloc")
    BY <1>0, <1>4, LoadingNames DEF Node, PlMapped, PlReady, NodeCdevStep, Take, Goto,
       Assign, NextNode, Drop
  <1> QED
    BY <1>1, <1>2, <1>3, <1>4 DEF RegisterMem

LEMMA PlMappedRegisterPl ==
  ASSUME Typed, NEW n \in Node, PlMapped(n), RegisterPl
  PROVE  PlMapped(n)'
  <1>0. at \in Node /\ fields \in [Node -> SUBSET Pointers]
    BY DEF Typed
  <1>1. CASE ClassStep("class_pl", "pl", "region_pl", "region_pl")
    BY <1>0, <1>1, LoadingNames DEF Node, PlMapped, PlReady, ClassStep, Take, Goto, FailTo
  <1>2. CASE RegionStep("region_pl", at,
                        IF "pl" \in classes THEN "device_pl" ELSE "oops", "region_addr")
    BY <1>0, <1>2, LoadingNames DEF Node, PlMapped, PlReady, RegionStep, Take, Stay, Goto,
       FailTo
  <1>3. CASE DeviceStep("device_pl", at, "cdev_pl")
    BY <1>0, <1>3, LoadingNames DEF Node, PlMapped, PlReady, DeviceStep, Take, Stay
  <1>4. CASE NodeCdevStep("cdev_pl", "pl_class", "region_pl", "region_addr")
    BY <1>0, <1>4, LoadingNames DEF Node, PlMapped, PlReady, NodeCdevStep, Take, Goto,
       Assign, NextNode, Drop
  <1> QED
    BY <1>1, <1>2, <1>3, <1>4 DEF RegisterPl

LEMMA PlMappedRegisterAddr ==
  ASSUME Typed, NEW n \in Node, PlMapped(n), RegisterAddr
  PROVE  PlMapped(n)'
  <1>0. at \in Node /\ fields \in [Node -> SUBSET Pointers]
    BY DEF Typed
  <1>1. CASE ClassStep("class_addr", "addr", "device_addr", "oops")
    BY <1>0, <1>1, LoadingNames DEF Node, PlMapped, PlReady, ClassStep, Take, Goto, FailTo
  <1>2. CASE RegionStep("region_addr", 0, "class_addr", "hostdma")
    BY <1>0, <1>2, LoadingNames DEF Node, PlMapped, PlReady, RegionStep, Take, Stay, Goto,
       FailTo
  <1>3. CASE DeviceStep("device_addr", 0, "cdev_addr")
    BY <1>0, <1>3, LoadingNames DEF Node, PlMapped, PlReady, DeviceStep, Take, Stay
  <1>4. CASE OneCdevStep("cdev_addr", "region_addr", "hostdma")
    BY <1>0, <1>4, LoadingNames DEF Node, PlMapped, PlReady, OneCdevStep, Take, Goto, Drop
  <1> QED
    BY <1>1, <1>2, <1>3, <1>4 DEF RegisterAddr

LEMMA PlMappedRegisterHost ==
  ASSUME Typed, NEW n \in Node, PlMapped(n), RegisterHost
  PROVE  PlMapped(n)'
  <1>0. at \in Node /\ fields \in [Node -> SUBSET Pointers]
    BY DEF Typed
  <1>1. CASE ClassStep("class_host", "host", "device_host", "oops")
    BY <1>0, <1>1, LoadingNames DEF Node, PlMapped, PlReady, ClassStep, Take, Goto, FailTo
  <1>2. CASE RegionStep("region_host", 0, "class_host", "loaded")
    BY <1>0, <1>2, LoadingNames DEF Node, PlMapped, PlReady, RegionStep, Take, Stay, Goto,
       FailTo
  <1>3. CASE DeviceStep("device_host", 0, "cdev_host")
    BY <1>0, <1>3, LoadingNames DEF Node, PlMapped, PlReady, DeviceStep, Take, Stay
  <1>4. CASE OneCdevStep("cdev_host", "region_host", "loaded")
    BY <1>0, <1>4, LoadingNames DEF Node, PlMapped, PlReady, OneCdevStep, Take, Goto, Drop
  <1> QED
    BY <1>1, <1>2, <1>3, <1>4 DEF RegisterHost

LEMMA PlMappedUnloading ==
  ASSUME Typed, NEW n \in Node, PlMapped(n), Remove
  PROVE  PlMapped(n)'
  <1>0. at \in Node /\ fields \in [Node -> SUBSET Pointers]
    BY DEF Typed
  <1>1. CASE Unload
    BY <1>0, <1>1, LoadingNames DEF Node, PlMapped, PlReady, Unload, Goto
  <1>2. CASE DisableDevice
    BY <1>0, <1>2, LoadingNames DEF Node, PlMapped, PlReady, DisableDevice, Stay, Drop
  <1>3. CASE RemoveMemDevice
    BY <1>0, <1>3, LoadingNames, MemRemovals DEF Node, PlMapped, PlReady
  <1>4. CASE UnmapMem
    BY <1>0, <1>4, LoadingNames DEF Node, PlMapped, PlReady, UnmapMem, NextNode, Goto,
       ReleaseIf, Drop
  <1>5. CASE RemoveClass("mem", "unmap_pl")
    BY <1>0, <1>5, LoadingNames, MemClassRemoval DEF Node,
       PlMapped, PlReady
  <1>6. CASE UnmapRegisters
    BY <1>0, <1>6, LoadingNames, Unmaps DEF Node, PlMapped, PlReady
  <1>7. CASE RemovePlDevice
    BY <1>0, <1>7, LoadingNames, PlRemovals DEF Node, PlMapped, PlReady, NextNode, Goto
  <1>8. CASE RemoveClass("pl", "undev_host")
    BY <1>0, <1>8, LoadingNames, PlClassRemoval DEF Node,
       PlMapped, PlReady
  <1>9. CASE RemoveSingle("host", "undev_addr")
    BY <1>0, <1>9, LoadingNames, HostRemovals DEF Node, PlMapped, PlReady
  <1>10. CASE RemoveSingle("addr", "unloaded")
    BY <1>0, <1>10, LoadingNames, AddrRemovals DEF Node, PlMapped, PlReady
  <1> QED
    BY <1>1, <1>2, <1>3, <1>4, <1>5, <1>6, <1>7, <1>8, <1>9, <1>10 DEF Remove

\* MemOf, step by step: the books of a node's memory device.
LEMMA MemOfProbe ==
  ASSUME Typed, Smooth', NEW n \in Node, MemOf(n), MemClass, PlClass, Probe
  PROVE  MemOf(n)'
  <1>0. at \in Node /\ fields \in [Node -> SUBSET Pointers]
    BY DEF Typed
  <1>1. CASE FindDevices
    BY <1>0, <1>1, Tolerates DEF Node, MemOf, Standing, FindDevices, Goto, FailTo
  <1>2. CASE EnableDevice
    BY <1>0, <1>2, Tolerates DEF Node, MemOf, Standing, EnableDevice, Take, Stay, Goto,
       FailTo
  <1>3. CASE MapMem
    BY <1>0, <1>3, Tolerates DEF Node, MemOf, Standing, MapMem, Take, Assign, NextNode, Goto,
       FailTo
  <1>4. CASE AllocCdma
    <2>1. Mappings[1] = "ctl"
      BY MappingNames
    <2>2. ~FailTo("oops")
      BY <1>4, Tolerates DEF AllocCdma, FailTo
    <2> QED
      BY <1>0, <1>4, <2>1, <2>2 DEF Node, MemOf, Standing, AllocCdma, Take, Assign, Stay
  <1>5. CASE SetAddressMap
    BY <1>0, <1>5, Tolerates, ProbeErrors DEF Node, MemOf, Standing, SetAddressMap, NextNode,
       Goto
  <1>6. CASE ProbeHostDma
    BY <1>0, <1>6, Tolerates DEF Node, MemOf, Standing, ProbeHostDma, Take, Goto, FailTo
  <1> QED
    BY <1>1, <1>2, <1>3, <1>4, <1>5, <1>6 DEF Probe

LEMMA MemOfMaps ==
  ASSUME Typed, Smooth', NEW n \in Node, MemOf(n), MemClass, PlClass, Maps
  PROVE  MemOf(n)'
  <1>0. at \in Node /\ fields \in [Node -> SUBSET Pointers]
    BY DEF Typed
  <1>1. CASE MapStep("ctl", "config")
    BY <1>0, <1>1, Tolerates, ProbeErrors DEF Node, MemOf, Standing, MapStep, Take, Assign,
       Stay, Goto
  <1>2. CASE MapStep("config", "desc")
    BY <1>0, <1>2, Tolerates, ProbeErrors DEF Node, MemOf, Standing, MapStep, Take, Assign,
       Stay, Goto
  <1>3. CASE MapStep("desc", "confmem")
    BY <1>0, <1>3, Tolerates, ProbeErrors DEF Node, MemOf, Standing, MapStep, Take, Assign,
       Stay, Goto
  <1>4. CASE MapStep("confmem", "addrmap")
    BY <1>0, <1>4, Tolerates, ProbeErrors DEF Node, MemOf, Standing, MapStep, Take, Assign,
       Stay, Goto
  <1> QED
    BY <1>1, <1>2, <1>3, <1>4 DEF Maps

LEMMA MemOfRegisterMem ==
  ASSUME Typed, Smooth', NEW n \in Node, MemOf(n), MemClass, PlClass, RegisterMem
  PROVE  MemOf(n)'
  <1>0. at \in Node /\ fields \in [Node -> SUBSET Pointers]
    BY DEF Typed
  <1>1. CASE ClassStep("class_mem", "mem", "region_mem", "region_mem")
    BY <1>0, <1>1, Tolerates DEF Node, MemOf, MemClass, Standing, ClassStep, Take, Goto,
       FailTo
  <1>2. CASE RegionStep("region_mem", at,
                        IF "mem" \in classes THEN "device_mem" ELSE "oops", "kzalloc")
    BY <1>0, <1>2, Tolerates DEF Node, MemOf, MemClass, Standing, RegionStep, Take, Stay,
       Goto, FailTo
  <1>3. CASE DeviceStep("device_mem", at, "cdev_mem")
    BY <1>0, <1>3, Tolerates DEF Node, MemOf, Standing, DeviceStep, Take, Stay
  <1>4. CASE NodeCdevStep("cdev_mem", "mem_class", "region_mem", "kzalloc")
    BY <1>0, <1>4, Tolerates DEF Node, MemOf, MemClass, Standing, NodeCdevStep, Take, Goto,
       Assign, NextNode, Drop
  <1> QED
    BY <1>1, <1>2, <1>3, <1>4 DEF RegisterMem

LEMMA MemOfRegisterPl ==
  ASSUME Typed, Smooth', NEW n \in Node, MemOf(n), MemClass, PlClass, RegisterPl
  PROVE  MemOf(n)'
  <1>0. at \in Node /\ fields \in [Node -> SUBSET Pointers]
    BY DEF Typed
  <1>1. CASE ClassStep("class_pl", "pl", "region_pl", "region_pl")
    BY <1>0, <1>1, Tolerates DEF Node, MemOf, PlClass, Standing, ClassStep, Take, Goto,
       FailTo
  <1>2. CASE RegionStep("region_pl", at,
                        IF "pl" \in classes THEN "device_pl" ELSE "oops", "region_addr")
    BY <1>0, <1>2, Tolerates DEF Node, MemOf, PlClass, Standing, RegionStep, Take, Stay,
       Goto, FailTo
  <1>3. CASE DeviceStep("device_pl", at, "cdev_pl")
    BY <1>0, <1>3, Tolerates DEF Node, MemOf, Standing, DeviceStep, Take, Stay
  <1>4. CASE NodeCdevStep("cdev_pl", "pl_class", "region_pl", "region_addr")
    BY <1>0, <1>4, Tolerates DEF Node, MemOf, PlClass, Standing, NodeCdevStep, Take, Goto,
       Assign, NextNode, Drop
  <1> QED
    BY <1>1, <1>2, <1>3, <1>4 DEF RegisterPl

LEMMA MemOfRegisterAddr ==
  ASSUME Typed, Smooth', NEW n \in Node, MemOf(n), MemClass, PlClass, RegisterAddr
  PROVE  MemOf(n)'
  <1>0. at \in Node /\ fields \in [Node -> SUBSET Pointers]
    BY DEF Typed
  <1>1. CASE ClassStep("class_addr", "addr", "device_addr", "oops")
    BY <1>0, <1>1, Tolerates DEF Node, MemOf, Standing, ClassStep, Take, Goto, FailTo
  <1>2. CASE RegionStep("region_addr", 0, "class_addr", "hostdma")
    BY <1>0, <1>2, Tolerates DEF Node, MemOf, Standing, RegionStep, Take, Stay, Goto, FailTo
  <1>3. CASE DeviceStep("device_addr", 0, "cdev_addr")
    BY <1>0, <1>3, Tolerates DEF Node, MemOf, Standing, DeviceStep, Take, Stay
  <1>4. CASE OneCdevStep("cdev_addr", "region_addr", "hostdma")
    BY <1>0, <1>4, Tolerates DEF Node, MemOf, Standing, OneCdevStep, Take, Goto, Drop
  <1> QED
    BY <1>1, <1>2, <1>3, <1>4 DEF RegisterAddr

LEMMA MemOfRegisterHost ==
  ASSUME Typed, Smooth', NEW n \in Node, MemOf(n), MemClass, PlClass, RegisterHost
  PROVE  MemOf(n)'
  <1>0. at \in Node /\ fields \in [Node -> SUBSET Pointers]
    BY DEF Typed
  <1>1. CASE ClassStep("class_host", "host", "device_host", "oops")
    BY <1>0, <1>1, Tolerates DEF Node, MemOf, Standing, ClassStep, Take, Goto, FailTo
  <1>2. CASE RegionStep("region_host", 0, "class_host", "loaded")
    BY <1>0, <1>2, Tolerates DEF Node, MemOf, Standing, RegionStep, Take, Stay, Goto, FailTo
  <1>3. CASE DeviceStep("device_host", 0, "cdev_host")
    BY <1>0, <1>3, Tolerates DEF Node, MemOf, Standing, DeviceStep, Take, Stay
  <1>4. CASE OneCdevStep("cdev_host", "region_host", "loaded")
    BY <1>0, <1>4, Tolerates DEF Node, MemOf, Standing, OneCdevStep, Take, Goto, Drop
  <1> QED
    BY <1>1, <1>2, <1>3, <1>4 DEF RegisterHost

LEMMA MemOfUnloading ==
  ASSUME Typed, Smooth', NEW n \in Node, MemOf(n), MemClass, PlClass, Remove
  PROVE  MemOf(n)'
  <1>0. at \in Node /\ fields \in [Node -> SUBSET Pointers]
    BY DEF Typed
  <1>1. CASE Unload
    BY <1>0, <1>1 DEF Node, MemOf, Standing, Unload, Goto
  <1>2. CASE DisableDevice
    BY <1>0, <1>2 DEF Node, MemOf, Standing, DisableDevice, Stay, Drop
  <1>3. CASE RemoveMemDevice
    <2>1. pc = "undev_mem" /\ pc' = "unmap_mem" /\ at' = at /\ fields' = fields
      BY <1>3, MemRemovals
    <2>2. CASE n = at
      <3>1. "mem_class" \in fields[at]
        BY <2>1, <2>2 DEF MemOf, Standing
      <3> QED
        BY <1>0, <1>3, <2>1, <2>2, <3>1, MemRemovals DEF Node, MemOf, Standing
    <2>3. CASE n # at
      <3>1. \A k : <<k, n>> \in held' <=> <<k, n>> \in held
        BY <1>3, <2>3, MemRemovals
      <3> QED
        BY <1>0, <2>1, <2>3, <3>1 DEF Node, MemOf, Standing
    <2> QED
      BY <2>2, <2>3
  <1>4. CASE UnmapMem
    BY <1>0, <1>4 DEF Node, MemOf, Standing, UnmapMem, NextNode, Goto, ReleaseIf, Drop
  <1>5. CASE RemoveClass("mem", "unmap_pl")
    BY <1>0, <1>5, MemClassRemoval DEF Node, MemOf, Standing
  <1>6. CASE UnmapRegisters
    BY <1>0, <1>6, Unmaps DEF Node, MemOf, Standing
  <1>7. CASE RemovePlDevice
    BY <1>0, <1>7, PlRemovals DEF Node, MemOf, Standing, NextNode, Goto
  <1>8. CASE RemoveClass("pl", "undev_host")
    BY <1>0, <1>8, PlClassRemoval DEF Node, MemOf, Standing
  <1>9. CASE RemoveSingle("host", "undev_addr")
    BY <1>0, <1>9, HostRemovals DEF Node, MemOf, Standing
  <1>10. CASE RemoveSingle("addr", "unloaded")
    BY <1>0, <1>10, AddrRemovals DEF Node, MemOf, Standing
  <1> QED
    BY <1>1, <1>2, <1>3, <1>4, <1>5, <1>6, <1>7, <1>8, <1>9, <1>10 DEF Remove

\* MapOf, step by step: the books of a node's registers.
LEMMA MapOfProbe ==
  ASSUME Typed, Smooth', NEW n \in Node, MapOf(n), MemClass, PlClass, Probe
  PROVE  MapOf(n)'
  <1>0. at \in Node /\ fields \in [Node -> SUBSET Pointers]
    BY DEF Typed
  <1>1. CASE FindDevices
    BY <1>0, <1>1, Tolerates DEF Node, MapOf, Standing, PlHeld, FindDevices, Goto, FailTo
  <1>2. CASE EnableDevice
    BY <1>0, <1>2, Tolerates DEF Node, MapOf, Standing, PlHeld, EnableDevice, Take, Stay,
       Goto, FailTo
  <1>3. CASE MapMem
    BY <1>0, <1>3, Tolerates DEF Node, MapOf, Standing, PlHeld, MapMem, Take, Assign,
       NextNode, Goto, FailTo
  <1>4. CASE AllocCdma
    BY <1>0, <1>4, Tolerates, MappingNames DEF Node, MapOf, Standing, PlHeld, AllocCdma,
       Take, Assign, Stay, Goto, FailTo
  <1>5. CASE SetAddressMap
    BY <1>0, <1>5, Tolerates, ProbeErrors DEF Node, MapOf, Standing, PlHeld, SetAddressMap,
       NextNode, Goto
  <1>6. CASE ProbeHostDma
    BY <1>0, <1>6, Tolerates DEF Node, MapOf, Standing, PlHeld, ProbeHostDma, Take, Goto,
       FailTo
  <1> QED
    BY <1>1, <1>2, <1>3, <1>4, <1>5, <1>6 DEF Probe

LEMMA MapOfMaps ==
  ASSUME Typed, Smooth', NEW n \in Node, MapOf(n), MemClass, PlClass, Maps
  PROVE  MapOf(n)'
  <1>0. at \in Node /\ fields \in [Node -> SUBSET Pointers]
    BY DEF Typed
  <1>1. CASE MapStep("ctl", "config")
    BY <1>0, <1>1, Tolerates, ProbeErrors DEF Node, MapOf, Standing, PlHeld, MapStep, Take,
       Assign, Stay, Goto
  <1>2. CASE MapStep("config", "desc")
    BY <1>0, <1>2, Tolerates, ProbeErrors DEF Node, MapOf, Standing, PlHeld, MapStep, Take,
       Assign, Stay, Goto
  <1>3. CASE MapStep("desc", "confmem")
    BY <1>0, <1>3, Tolerates, ProbeErrors DEF Node, MapOf, Standing, PlHeld, MapStep, Take,
       Assign, Stay, Goto
  <1>4. CASE MapStep("confmem", "addrmap")
    BY <1>0, <1>4, Tolerates, ProbeErrors DEF Node, MapOf, Standing, PlHeld, MapStep, Take,
       Assign, Stay, Goto
  <1> QED
    BY <1>1, <1>2, <1>3, <1>4 DEF Maps

LEMMA MapOfRegisterMem ==
  ASSUME Typed, Smooth', NEW n \in Node, MapOf(n), MemClass, PlClass, RegisterMem
  PROVE  MapOf(n)'
  <1>0. at \in Node /\ fields \in [Node -> SUBSET Pointers]
    BY DEF Typed
  <1>1. CASE ClassStep("class_mem", "mem", "region_mem", "region_mem")
    BY <1>0, <1>1, Tolerates DEF Node, MapOf, MemClass, Standing, PlHeld, ClassStep, Take,
       Goto, FailTo
  <1>2. CASE RegionStep("region_mem", at,
                        IF "mem" \in classes THEN "device_mem" ELSE "oops", "kzalloc")
    BY <1>0, <1>2, Tolerates DEF Node, MapOf, MemClass, Standing, PlHeld, RegionStep, Take,
       Stay, Goto, FailTo
  <1>3. CASE DeviceStep("device_mem", at, "cdev_mem")
    BY <1>0, <1>3, Tolerates DEF Node, MapOf, Standing, PlHeld, DeviceStep, Take, Stay
  <1>4. CASE NodeCdevStep("cdev_mem", "mem_class", "region_mem", "kzalloc")
    BY <1>0, <1>4, Tolerates DEF Node, MapOf, MemClass, Standing, PlHeld, NodeCdevStep, Take,
       Goto, Assign, NextNode, Drop
  <1> QED
    BY <1>1, <1>2, <1>3, <1>4 DEF RegisterMem

LEMMA MapOfRegisterPl ==
  ASSUME Typed, Smooth', NEW n \in Node, MapOf(n), MemClass, PlClass, RegisterPl
  PROVE  MapOf(n)'
  <1>0. at \in Node /\ fields \in [Node -> SUBSET Pointers]
    BY DEF Typed
  <1>1. CASE ClassStep("class_pl", "pl", "region_pl", "region_pl")
    BY <1>0, <1>1, Tolerates DEF Node, MapOf, PlClass, Standing, PlHeld, ClassStep, Take,
       Goto, FailTo
  <1>2. CASE RegionStep("region_pl", at,
                        IF "pl" \in classes THEN "device_pl" ELSE "oops", "region_addr")
    BY <1>0, <1>2, Tolerates DEF Node, MapOf, PlClass, Standing, PlHeld, RegionStep, Take,
       Stay, Goto, FailTo
  <1>3. CASE DeviceStep("device_pl", at, "cdev_pl")
    BY <1>0, <1>3, Tolerates DEF Node, MapOf, Standing, PlHeld, DeviceStep, Take, Stay
  <1>4. CASE NodeCdevStep("cdev_pl", "pl_class", "region_pl", "region_addr")
    BY <1>0, <1>4, Tolerates DEF Node, MapOf, PlClass, Standing, PlHeld, NodeCdevStep, Take,
       Goto, Assign, NextNode, Drop
  <1> QED
    BY <1>1, <1>2, <1>3, <1>4 DEF RegisterPl

LEMMA MapOfRegisterAddr ==
  ASSUME Typed, Smooth', NEW n \in Node, MapOf(n), MemClass, PlClass, RegisterAddr
  PROVE  MapOf(n)'
  <1>0. at \in Node /\ fields \in [Node -> SUBSET Pointers]
    BY DEF Typed
  <1>1. CASE ClassStep("class_addr", "addr", "device_addr", "oops")
    BY <1>0, <1>1, Tolerates DEF Node, MapOf, Standing, PlHeld, ClassStep, Take, Goto, FailTo
  <1>2. CASE RegionStep("region_addr", 0, "class_addr", "hostdma")
    BY <1>0, <1>2, Tolerates DEF Node, MapOf, Standing, PlHeld, RegionStep, Take, Stay, Goto,
       FailTo
  <1>3. CASE DeviceStep("device_addr", 0, "cdev_addr")
    BY <1>0, <1>3, Tolerates DEF Node, MapOf, Standing, PlHeld, DeviceStep, Take, Stay
  <1>4. CASE OneCdevStep("cdev_addr", "region_addr", "hostdma")
    BY <1>0, <1>4, Tolerates DEF Node, MapOf, Standing, PlHeld, OneCdevStep, Take, Goto, Drop
  <1> QED
    BY <1>1, <1>2, <1>3, <1>4 DEF RegisterAddr

LEMMA MapOfRegisterHost ==
  ASSUME Typed, Smooth', NEW n \in Node, MapOf(n), MemClass, PlClass, RegisterHost
  PROVE  MapOf(n)'
  <1>0. at \in Node /\ fields \in [Node -> SUBSET Pointers]
    BY DEF Typed
  <1>1. CASE ClassStep("class_host", "host", "device_host", "oops")
    BY <1>0, <1>1, Tolerates DEF Node, MapOf, Standing, PlHeld, ClassStep, Take, Goto, FailTo
  <1>2. CASE RegionStep("region_host", 0, "class_host", "loaded")
    BY <1>0, <1>2, Tolerates DEF Node, MapOf, Standing, PlHeld, RegionStep, Take, Stay, Goto,
       FailTo
  <1>3. CASE DeviceStep("device_host", 0, "cdev_host")
    BY <1>0, <1>3, Tolerates DEF Node, MapOf, Standing, PlHeld, DeviceStep, Take, Stay
  <1>4. CASE OneCdevStep("cdev_host", "region_host", "loaded")
    BY <1>0, <1>4, Tolerates DEF Node, MapOf, Standing, PlHeld, OneCdevStep, Take, Goto, Drop
  <1> QED
    BY <1>1, <1>2, <1>3, <1>4 DEF RegisterHost

LEMMA MapOfUnloading ==
  ASSUME Typed, Smooth', NEW n \in Node, MapOf(n), MemClass, PlClass, Remove
  PROVE  MapOf(n)'
  <1>0. at \in Node /\ fields \in [Node -> SUBSET Pointers]
    BY DEF Typed
  <1>1. CASE Unload
    BY <1>0, <1>1 DEF Node, MapOf, Standing, PlHeld, Unload, Goto
  <1>2. CASE DisableDevice
    BY <1>0, <1>2 DEF Node, MapOf, Standing, PlHeld, DisableDevice, Stay, Drop
  <1>3. CASE RemoveMemDevice
    BY <1>0, <1>3, MemRemovals DEF Node, MapOf, Standing, PlHeld
  <1>4. CASE UnmapMem
    BY <1>0, <1>4 DEF Node, MapOf, Standing, PlHeld, UnmapMem, NextNode, Goto, ReleaseIf,
       Drop
  <1>5. CASE RemoveClass("mem", "unmap_pl")
    BY <1>0, <1>5, MemClassRemoval DEF Node, MapOf, Standing,
       PlHeld
  <1>6. CASE UnmapRegisters
    BY <1>0, <1>6, Unmaps DEF Node, MapOf, Standing, PlHeld
  <1>7. CASE RemovePlDevice
    BY <1>0, <1>7, PlRemovals DEF Node, MapOf, Standing, PlHeld, NextNode, Goto
  <1>8. CASE RemoveClass("pl", "undev_host")
    BY <1>0, <1>8, PlClassRemoval DEF Node, MapOf, Standing,
       PlHeld
  <1>9. CASE RemoveSingle("host", "undev_addr")
    BY <1>0, <1>9, HostRemovals DEF Node, MapOf, Standing, PlHeld
  <1>10. CASE RemoveSingle("addr", "unloaded")
    BY <1>0, <1>10, AddrRemovals DEF Node, MapOf, Standing, PlHeld
  <1> QED
    BY <1>1, <1>2, <1>3, <1>4, <1>5, <1>6, <1>7, <1>8, <1>9, <1>10 DEF Remove

\* PlOf, step by step: the books of a node's PL-DMA device.
LEMMA PlOfProbe ==
  ASSUME Typed, Smooth', NEW n \in Node, PlOf(n), MemClass, PlClass, Probe
  PROVE  PlOf(n)'
  <1>0. at \in Node /\ fields \in [Node -> SUBSET Pointers]
    BY DEF Typed
  <1>1. CASE FindDevices
    BY <1>0, <1>1, Tolerates DEF Node, PlOf, Standing, PlDone, FindDevices, Goto, FailTo
  <1>2. CASE EnableDevice
    BY <1>0, <1>2, Tolerates DEF Node, PlOf, Standing, PlDone, EnableDevice, Take, Stay,
       Goto, FailTo
  <1>3. CASE MapMem
    BY <1>0, <1>3, Tolerates DEF Node, PlOf, Standing, PlDone, MapMem, Take, Assign,
       NextNode, Goto, FailTo
  <1>4. CASE AllocCdma
    BY <1>0, <1>4, Tolerates, MappingNames DEF Node, PlOf, Standing, PlDone, AllocCdma, Take,
       Assign, Stay, Goto, FailTo
  <1>5. CASE SetAddressMap
    BY <1>0, <1>5, Tolerates, ProbeErrors DEF Node, PlOf, Standing, PlDone, SetAddressMap,
       NextNode, Goto
  <1>6. CASE ProbeHostDma
    BY <1>0, <1>6, Tolerates DEF Node, PlOf, Standing, PlDone, ProbeHostDma, Take, Goto,
       FailTo
  <1> QED
    BY <1>1, <1>2, <1>3, <1>4, <1>5, <1>6 DEF Probe

LEMMA PlOfMaps ==
  ASSUME Typed, Smooth', NEW n \in Node, PlOf(n), MemClass, PlClass, Maps
  PROVE  PlOf(n)'
  <1>0. at \in Node /\ fields \in [Node -> SUBSET Pointers]
    BY DEF Typed
  <1>1. CASE MapStep("ctl", "config")
    BY <1>0, <1>1, Tolerates, ProbeErrors DEF Node, PlOf, Standing, PlDone, MapStep, Take,
       Assign, Stay, Goto
  <1>2. CASE MapStep("config", "desc")
    BY <1>0, <1>2, Tolerates, ProbeErrors DEF Node, PlOf, Standing, PlDone, MapStep, Take,
       Assign, Stay, Goto
  <1>3. CASE MapStep("desc", "confmem")
    BY <1>0, <1>3, Tolerates, ProbeErrors DEF Node, PlOf, Standing, PlDone, MapStep, Take,
       Assign, Stay, Goto
  <1>4. CASE MapStep("confmem", "addrmap")
    BY <1>0, <1>4, Tolerates, ProbeErrors DEF Node, PlOf, Standing, PlDone, MapStep, Take,
       Assign, Stay, Goto
  <1> QED
    BY <1>1, <1>2, <1>3, <1>4 DEF Maps

LEMMA PlOfRegisterMem ==
  ASSUME Typed, Smooth', NEW n \in Node, PlOf(n), MemClass, PlClass, RegisterMem
  PROVE  PlOf(n)'
  <1>0. at \in Node /\ fields \in [Node -> SUBSET Pointers]
    BY DEF Typed
  <1>1. CASE ClassStep("class_mem", "mem", "region_mem", "region_mem")
    BY <1>0, <1>1, Tolerates DEF Node, PlOf, MemClass, Standing, PlDone, ClassStep, Take,
       Goto, FailTo
  <1>2. CASE RegionStep("region_mem", at,
                        IF "mem" \in classes THEN "device_mem" ELSE "oops", "kzalloc")
    BY <1>0, <1>2, Tolerates DEF Node, PlOf, MemClass, Standing, PlDone, RegionStep, Take,
       Stay, Goto, FailTo
  <1>3. CASE DeviceStep("device_mem", at, "cdev_mem")
    BY <1>0, <1>3, Tolerates DEF Node, PlOf, Standing, PlDone, DeviceStep, Take, Stay
  <1>4. CASE NodeCdevStep("cdev_mem", "mem_class", "region_mem", "kzalloc")
    BY <1>0, <1>4, Tolerates DEF Node, PlOf, MemClass, Standing, PlDone, NodeCdevStep, Take,
       Goto, Assign, NextNode, Drop
  <1> QED
    BY <1>1, <1>2, <1>3, <1>4 DEF RegisterMem

LEMMA PlOfRegisterPl ==
  ASSUME Typed, Smooth', NEW n \in Node, PlOf(n), MemClass, PlClass, RegisterPl
  PROVE  PlOf(n)'
  <1>0. at \in Node /\ fields \in [Node -> SUBSET Pointers]
    BY DEF Typed
  <1>1. CASE ClassStep("class_pl", "pl", "region_pl", "region_pl")
    BY <1>0, <1>1, Tolerates DEF Node, PlOf, PlClass, Standing, PlDone, ClassStep, Take,
       Goto, FailTo
  <1>2. CASE RegionStep("region_pl", at,
                        IF "pl" \in classes THEN "device_pl" ELSE "oops", "region_addr")
    BY <1>0, <1>2, Tolerates DEF Node, PlOf, PlClass, Standing, PlDone, RegionStep, Take,
       Stay, Goto, FailTo
  <1>3. CASE DeviceStep("device_pl", at, "cdev_pl")
    BY <1>0, <1>3, Tolerates DEF Node, PlOf, Standing, PlDone, DeviceStep, Take, Stay
  <1>4. CASE NodeCdevStep("cdev_pl", "pl_class", "region_pl", "region_addr")
    BY <1>0, <1>4, Tolerates DEF Node, PlOf, PlClass, Standing, PlDone, NodeCdevStep, Take,
       Goto, Assign, NextNode, Drop
  <1> QED
    BY <1>1, <1>2, <1>3, <1>4 DEF RegisterPl

LEMMA PlOfRegisterAddr ==
  ASSUME Typed, Smooth', NEW n \in Node, PlOf(n), MemClass, PlClass, RegisterAddr
  PROVE  PlOf(n)'
  <1>0. at \in Node /\ fields \in [Node -> SUBSET Pointers]
    BY DEF Typed
  <1>1. CASE ClassStep("class_addr", "addr", "device_addr", "oops")
    BY <1>0, <1>1, Tolerates DEF Node, PlOf, Standing, PlDone, ClassStep, Take, Goto, FailTo
  <1>2. CASE RegionStep("region_addr", 0, "class_addr", "hostdma")
    BY <1>0, <1>2, Tolerates DEF Node, PlOf, Standing, PlDone, RegionStep, Take, Stay, Goto,
       FailTo
  <1>3. CASE DeviceStep("device_addr", 0, "cdev_addr")
    BY <1>0, <1>3, Tolerates DEF Node, PlOf, Standing, PlDone, DeviceStep, Take, Stay
  <1>4. CASE OneCdevStep("cdev_addr", "region_addr", "hostdma")
    BY <1>0, <1>4, Tolerates DEF Node, PlOf, Standing, PlDone, OneCdevStep, Take, Goto, Drop
  <1> QED
    BY <1>1, <1>2, <1>3, <1>4 DEF RegisterAddr

LEMMA PlOfRegisterHost ==
  ASSUME Typed, Smooth', NEW n \in Node, PlOf(n), MemClass, PlClass, RegisterHost
  PROVE  PlOf(n)'
  <1>0. at \in Node /\ fields \in [Node -> SUBSET Pointers]
    BY DEF Typed
  <1>1. CASE ClassStep("class_host", "host", "device_host", "oops")
    BY <1>0, <1>1, Tolerates DEF Node, PlOf, Standing, PlDone, ClassStep, Take, Goto, FailTo
  <1>2. CASE RegionStep("region_host", 0, "class_host", "loaded")
    BY <1>0, <1>2, Tolerates DEF Node, PlOf, Standing, PlDone, RegionStep, Take, Stay, Goto,
       FailTo
  <1>3. CASE DeviceStep("device_host", 0, "cdev_host")
    BY <1>0, <1>3, Tolerates DEF Node, PlOf, Standing, PlDone, DeviceStep, Take, Stay
  <1>4. CASE OneCdevStep("cdev_host", "region_host", "loaded")
    BY <1>0, <1>4, Tolerates DEF Node, PlOf, Standing, PlDone, OneCdevStep, Take, Goto, Drop
  <1> QED
    BY <1>1, <1>2, <1>3, <1>4 DEF RegisterHost

LEMMA PlOfUnloading ==
  ASSUME Typed, Smooth', NEW n \in Node, PlOf(n), MemClass, PlClass, Remove
  PROVE  PlOf(n)'
  <1>0. at \in Node /\ fields \in [Node -> SUBSET Pointers]
    BY DEF Typed
  <1>1. CASE Unload
    BY <1>0, <1>1 DEF Node, PlOf, Standing, PlDone, Unload, Goto
  <1>2. CASE DisableDevice
    BY <1>0, <1>2 DEF Node, PlOf, Standing, PlDone, DisableDevice, Stay, Drop
  <1>3. CASE RemoveMemDevice
    BY <1>0, <1>3, MemRemovals DEF Node, PlOf, Standing, PlDone
  <1>4. CASE UnmapMem
    BY <1>0, <1>4 DEF Node, PlOf, Standing, PlDone, UnmapMem, NextNode, Goto, ReleaseIf, Drop
  <1>5. CASE RemoveClass("mem", "unmap_pl")
    BY <1>0, <1>5, MemClassRemoval DEF Node, PlOf, Standing,
       PlDone
  <1>6. CASE UnmapRegisters
    BY <1>0, <1>6, Unmaps DEF Node, PlOf, Standing, PlDone
  <1>7. CASE RemovePlDevice
    BY <1>0, <1>7, PlRemovals DEF Node, PlOf, Standing, PlDone, NextNode, Goto
  <1>8. CASE RemoveClass("pl", "undev_host")
    BY <1>0, <1>8, PlClassRemoval DEF Node, PlOf, Standing,
       PlDone
  <1>9. CASE RemoveSingle("host", "undev_addr")
    BY <1>0, <1>9, HostRemovals DEF Node, PlOf, Standing, PlDone
  <1>10. CASE RemoveSingle("addr", "unloaded")
    BY <1>0, <1>10, AddrRemovals DEF Node, PlOf, Standing, PlDone
  <1> QED
    BY <1>1, <1>2, <1>3, <1>4, <1>5, <1>6, <1>7, <1>8, <1>9, <1>10 DEF Remove

\* MemClass, step by step: the class of the memory devices.
LEMMA MemClassProbe ==
  ASSUME Typed, Smooth', MemClass, PlClass, Probe
  PROVE  MemClass'
  <1>0. at \in Node /\ fields \in [Node -> SUBSET Pointers]
    BY DEF Typed
  <1>1. CASE FindDevices
    BY <1>0, <1>1, Tolerates, LoadingNames, UnloadingNames DEF Node, MemClass, FindDevices,
       Goto, FailTo
  <1>2. CASE EnableDevice
    BY <1>0, <1>2, Tolerates, LoadingNames, UnloadingNames DEF Node, MemClass, EnableDevice,
       Take, Stay, Goto, FailTo
  <1>3. CASE MapMem
    BY <1>0, <1>3, Tolerates, LoadingNames, UnloadingNames DEF Node, MemClass, MapMem, Take,
       Assign, NextNode, Goto, FailTo
  <1>4. CASE AllocCdma
    BY <1>0, <1>4, Tolerates, LoadingNames, UnloadingNames, MappingNames DEF Node, MemClass,
       AllocCdma, Take, Assign, Stay, Goto, FailTo
  <1>5. CASE SetAddressMap
    BY <1>0, <1>5, Tolerates, LoadingNames, UnloadingNames, ProbeErrors DEF Node, MemClass,
       SetAddressMap, NextNode, Goto
  <1>6. CASE ProbeHostDma
    BY <1>0, <1>6, Tolerates, LoadingNames, UnloadingNames DEF Node, MemClass, ProbeHostDma,
       Take, Goto, FailTo
  <1> QED
    BY <1>1, <1>2, <1>3, <1>4, <1>5, <1>6 DEF Probe

LEMMA MemClassMaps ==
  ASSUME Typed, Smooth', MemClass, PlClass, Maps
  PROVE  MemClass'
  <1>0. at \in Node /\ fields \in [Node -> SUBSET Pointers]
    BY DEF Typed
  <1>1. CASE MapStep("ctl", "config")
    BY <1>0, <1>1, Tolerates, LoadingNames, UnloadingNames, ProbeErrors DEF Node, MemClass,
       MapStep, Take, Assign, Stay, Goto
  <1>2. CASE MapStep("config", "desc")
    BY <1>0, <1>2, Tolerates, LoadingNames, UnloadingNames, ProbeErrors DEF Node, MemClass,
       MapStep, Take, Assign, Stay, Goto
  <1>3. CASE MapStep("desc", "confmem")
    BY <1>0, <1>3, Tolerates, LoadingNames, UnloadingNames, ProbeErrors DEF Node, MemClass,
       MapStep, Take, Assign, Stay, Goto
  <1>4. CASE MapStep("confmem", "addrmap")
    BY <1>0, <1>4, Tolerates, LoadingNames, UnloadingNames, ProbeErrors DEF Node, MemClass,
       MapStep, Take, Assign, Stay, Goto
  <1> QED
    BY <1>1, <1>2, <1>3, <1>4 DEF Maps

LEMMA MemClassRegisterMem ==
  ASSUME Typed, Smooth', MemClass, PlClass, RegisterMem
  PROVE  MemClass'
  <1>0. at \in Node /\ fields \in [Node -> SUBSET Pointers]
    BY DEF Typed
  <1>1. CASE ClassStep("class_mem", "mem", "region_mem", "region_mem")
    BY <1>0, <1>1, Tolerates, LoadingNames, UnloadingNames DEF Node, MemClass, ClassStep,
       Take, Goto, FailTo
  <1>2. CASE RegionStep("region_mem", at,
                        IF "mem" \in classes THEN "device_mem" ELSE "oops", "kzalloc")
    BY <1>0, <1>2, Tolerates, LoadingNames, UnloadingNames DEF Node, MemClass, RegionStep,
       Take, Stay, Goto, FailTo
  <1>3. CASE DeviceStep("device_mem", at, "cdev_mem")
    BY <1>0, <1>3, Tolerates, LoadingNames, UnloadingNames DEF Node, MemClass, DeviceStep,
       Take, Stay
  <1>4. CASE NodeCdevStep("cdev_mem", "mem_class", "region_mem", "kzalloc")
    BY <1>0, <1>4, Tolerates, LoadingNames, UnloadingNames DEF Node, MemClass, NodeCdevStep,
       Take, Goto, Assign, NextNode, Drop
  <1> QED
    BY <1>1, <1>2, <1>3, <1>4 DEF RegisterMem

LEMMA MemClassRegisterPl ==
  ASSUME Typed, Smooth', MemClass, PlClass, RegisterPl
  PROVE  MemClass'
  <1>0. at \in Node /\ fields \in [Node -> SUBSET Pointers]
    BY DEF Typed
  <1>1. CASE ClassStep("class_pl", "pl", "region_pl", "region_pl")
    BY <1>0, <1>1, Tolerates, LoadingNames, UnloadingNames DEF Node, MemClass, PlClass,
       ClassStep, Take, Goto, FailTo
  <1>2. CASE RegionStep("region_pl", at,
                        IF "pl" \in classes THEN "device_pl" ELSE "oops", "region_addr")
    BY <1>0, <1>2, Tolerates, LoadingNames, UnloadingNames DEF Node, MemClass, PlClass,
       RegionStep, Take, Stay, Goto, FailTo
  <1>3. CASE DeviceStep("device_pl", at, "cdev_pl")
    BY <1>0, <1>3, Tolerates, LoadingNames, UnloadingNames DEF Node, MemClass, DeviceStep,
       Take, Stay
  <1>4. CASE NodeCdevStep("cdev_pl", "pl_class", "region_pl", "region_addr")
    BY <1>0, <1>4, Tolerates, LoadingNames, UnloadingNames DEF Node, MemClass, PlClass,
       NodeCdevStep, Take, Goto, Assign, NextNode, Drop
  <1> QED
    BY <1>1, <1>2, <1>3, <1>4 DEF RegisterPl

LEMMA MemClassRegisterAddr ==
  ASSUME Typed, Smooth', MemClass, PlClass, RegisterAddr
  PROVE  MemClass'
  <1>0. at \in Node /\ fields \in [Node -> SUBSET Pointers]
    BY DEF Typed
  <1>1. CASE ClassStep("class_addr", "addr", "device_addr", "oops")
    BY <1>0, <1>1, Tolerates, LoadingNames, UnloadingNames DEF Node, MemClass, ClassStep,
       Take, Goto, FailTo
  <1>2. CASE RegionStep("region_addr", 0, "class_addr", "hostdma")
    BY <1>0, <1>2, Tolerates, LoadingNames, UnloadingNames DEF Node, MemClass, RegionStep,
       Take, Stay, Goto, FailTo
  <1>3. CASE DeviceStep("device_addr", 0, "cdev_addr")
    BY <1>0, <1>3, Tolerates, LoadingNames, UnloadingNames DEF Node, MemClass, DeviceStep,
       Take, Stay
  <1>4. CASE OneCdevStep("cdev_addr", "region_addr", "hostdma")
    BY <1>0, <1>4, Tolerates, LoadingNames, UnloadingNames DEF Node, MemClass, OneCdevStep,
       Take, Goto, Drop
  <1> QED
    BY <1>1, <1>2, <1>3, <1>4 DEF RegisterAddr

LEMMA MemClassRegisterHost ==
  ASSUME Typed, Smooth', MemClass, PlClass, RegisterHost
  PROVE  MemClass'
  <1>0. at \in Node /\ fields \in [Node -> SUBSET Pointers]
    BY DEF Typed
  <1>1. CASE ClassStep("class_host", "host", "device_host", "oops")
    BY <1>0, <1>1, Tolerates, LoadingNames, UnloadingNames DEF Node, MemClass, ClassStep,
       Take, Goto, FailTo
  <1>2. CASE RegionStep("region_host", 0, "class_host", "loaded")
    BY <1>0, <1>2, Tolerates, LoadingNames, UnloadingNames DEF Node, MemClass, RegionStep,
       Take, Stay, Goto, FailTo
  <1>3. CASE DeviceStep("device_host", 0, "cdev_host")
    BY <1>0, <1>3, Tolerates, LoadingNames, UnloadingNames DEF Node, MemClass, DeviceStep,
       Take, Stay
  <1>4. CASE OneCdevStep("cdev_host", "region_host", "loaded")
    BY <1>0, <1>4, Tolerates, LoadingNames, UnloadingNames DEF Node, MemClass, OneCdevStep,
       Take, Goto, Drop
  <1> QED
    BY <1>1, <1>2, <1>3, <1>4 DEF RegisterHost

LEMMA MemClassUnloading ==
  ASSUME Typed, Smooth', MemClass, PlClass, Remove
  PROVE  MemClass'
  <1>0. at \in Node /\ fields \in [Node -> SUBSET Pointers]
    BY DEF Typed
  <1>1. CASE Unload
    BY <1>0, <1>1, LoadingNames, UnloadingNames DEF Node, MemClass, Unload, Goto
  <1>2. CASE DisableDevice
    BY <1>0, <1>2, LoadingNames, UnloadingNames DEF Node, MemClass, DisableDevice, Stay, Drop
  <1>3. CASE RemoveMemDevice
    BY <1>0, <1>3, LoadingNames, UnloadingNames, MemRemovals DEF Node, MemClass
  <1>4. CASE UnmapMem
    BY <1>0, <1>4, LoadingNames, UnloadingNames DEF Node, MemClass, UnmapMem, NextNode, Goto,
       ReleaseIf, Drop
  <1>5. CASE RemoveClass("mem", "unmap_pl")
    BY <1>0, <1>5, LoadingNames, UnloadingNames, MemClassRemoval
       DEF Node, MemClass
  <1>6. CASE UnmapRegisters
    BY <1>0, <1>6, LoadingNames, UnloadingNames, Unmaps DEF Node, MemClass
  <1>7. CASE RemovePlDevice
    BY <1>0, <1>7, LoadingNames, UnloadingNames, PlRemovals DEF Node, MemClass, NextNode,
       Goto
  <1>8. CASE RemoveClass("pl", "undev_host")
    BY <1>0, <1>8, LoadingNames, UnloadingNames, PlClassRemoval
       DEF Node, MemClass
  <1>9. CASE RemoveSingle("host", "undev_addr")
    BY <1>0, <1>9, LoadingNames, UnloadingNames, HostRemovals DEF Node, MemClass
  <1>10. CASE RemoveSingle("addr", "unloaded")
    BY <1>0, <1>10, LoadingNames, UnloadingNames, AddrRemovals DEF Node, MemClass
  <1> QED
    BY <1>1, <1>2, <1>3, <1>4, <1>5, <1>6, <1>7, <1>8, <1>9, <1>10 DEF Remove

\* PlClass, step by step: the class of the PL-DMA devices.
LEMMA PlClassProbe ==
  ASSUME Typed, Smooth', MemClass, PlClass, Probe
  PROVE  PlClass'
  <1>0. at \in Node /\ fields \in [Node -> SUBSET Pointers]
    BY DEF Typed
  <1>1. CASE FindDevices
    BY <1>0, <1>1, Tolerates, UnloadingNames DEF Node, PlClass, PlDone, FindDevices, Goto,
       FailTo
  <1>2. CASE EnableDevice
    BY <1>0, <1>2, Tolerates, UnloadingNames DEF Node, PlClass, PlDone, EnableDevice, Take,
       Stay, Goto, FailTo
  <1>3. CASE MapMem
    BY <1>0, <1>3, Tolerates, UnloadingNames DEF Node, PlClass, PlDone, MapMem, Take, Assign,
       NextNode, Goto, FailTo
  <1>4. CASE AllocCdma
    BY <1>0, <1>4, Tolerates, UnloadingNames, MappingNames DEF Node, PlClass, PlDone,
       AllocCdma, Take, Assign, Stay, Goto, FailTo
  <1>5. CASE SetAddressMap
    BY <1>0, <1>5, Tolerates, UnloadingNames, ProbeErrors DEF Node, PlClass, PlDone,
       SetAddressMap, NextNode, Goto
  <1>6. CASE ProbeHostDma
    BY <1>0, <1>6, Tolerates, UnloadingNames DEF Node, PlClass, PlDone, ProbeHostDma, Take,
       Goto, FailTo
  <1> QED
    BY <1>1, <1>2, <1>3, <1>4, <1>5, <1>6 DEF Probe

LEMMA PlClassMaps ==
  ASSUME Typed, Smooth', MemClass, PlClass, Maps
  PROVE  PlClass'
  <1>0. at \in Node /\ fields \in [Node -> SUBSET Pointers]
    BY DEF Typed
  <1>1. CASE MapStep("ctl", "config")
    BY <1>0, <1>1, Tolerates, UnloadingNames, ProbeErrors DEF Node, PlClass, PlDone, MapStep,
       Take, Assign, Stay, Goto
  <1>2. CASE MapStep("config", "desc")
    BY <1>0, <1>2, Tolerates, UnloadingNames, ProbeErrors DEF Node, PlClass, PlDone, MapStep,
       Take, Assign, Stay, Goto
  <1>3. CASE MapStep("desc", "confmem")
    BY <1>0, <1>3, Tolerates, UnloadingNames, ProbeErrors DEF Node, PlClass, PlDone, MapStep,
       Take, Assign, Stay, Goto
  <1>4. CASE MapStep("confmem", "addrmap")
    BY <1>0, <1>4, Tolerates, UnloadingNames, ProbeErrors DEF Node, PlClass, PlDone, MapStep,
       Take, Assign, Stay, Goto
  <1> QED
    BY <1>1, <1>2, <1>3, <1>4 DEF Maps

LEMMA PlClassRegisterMem ==
  ASSUME Typed, Smooth', MemClass, PlClass, RegisterMem
  PROVE  PlClass'
  <1>0. at \in Node /\ fields \in [Node -> SUBSET Pointers]
    BY DEF Typed
  <1>1. CASE ClassStep("class_mem", "mem", "region_mem", "region_mem")
    BY <1>0, <1>1, Tolerates, UnloadingNames DEF Node, MemClass, PlClass, PlDone, ClassStep,
       Take, Goto, FailTo
  <1>2. CASE RegionStep("region_mem", at,
                        IF "mem" \in classes THEN "device_mem" ELSE "oops", "kzalloc")
    BY <1>0, <1>2, Tolerates, UnloadingNames DEF Node, MemClass, PlClass, PlDone, RegionStep,
       Take, Stay, Goto, FailTo
  <1>3. CASE DeviceStep("device_mem", at, "cdev_mem")
    BY <1>0, <1>3, Tolerates, UnloadingNames DEF Node, PlClass, PlDone, DeviceStep, Take,
       Stay
  <1>4. CASE NodeCdevStep("cdev_mem", "mem_class", "region_mem", "kzalloc")
    BY <1>0, <1>4, Tolerates, UnloadingNames DEF Node, MemClass, PlClass, PlDone,
       NodeCdevStep, Take, Goto, Assign, NextNode, Drop
  <1> QED
    BY <1>1, <1>2, <1>3, <1>4 DEF RegisterMem

LEMMA PlClassRegisterPl ==
  ASSUME Typed, Smooth', MemClass, PlClass, RegisterPl
  PROVE  PlClass'
  <1>0. at \in Node /\ fields \in [Node -> SUBSET Pointers]
    BY DEF Typed
  <1>1. CASE ClassStep("class_pl", "pl", "region_pl", "region_pl")
    BY <1>0, <1>1, Tolerates, UnloadingNames DEF Node, PlClass, PlDone, ClassStep, Take,
       Goto, FailTo
  <1>2. CASE RegionStep("region_pl", at,
                        IF "pl" \in classes THEN "device_pl" ELSE "oops", "region_addr")
    BY <1>0, <1>2, Tolerates, UnloadingNames DEF Node, PlClass, PlDone, RegionStep, Take,
       Stay, Goto, FailTo
  <1>3. CASE DeviceStep("device_pl", at, "cdev_pl")
    BY <1>0, <1>3, Tolerates, UnloadingNames DEF Node, PlClass, PlDone, DeviceStep, Take,
       Stay
  <1>4. CASE NodeCdevStep("cdev_pl", "pl_class", "region_pl", "region_addr")
    BY <1>0, <1>4, Tolerates, UnloadingNames DEF Node, PlClass, PlDone, NodeCdevStep, Take,
       Goto, Assign, NextNode, Drop
  <1> QED
    BY <1>1, <1>2, <1>3, <1>4 DEF RegisterPl

LEMMA PlClassRegisterAddr ==
  ASSUME Typed, Smooth', MemClass, PlClass, RegisterAddr
  PROVE  PlClass'
  <1>0. at \in Node /\ fields \in [Node -> SUBSET Pointers]
    BY DEF Typed
  <1>1. CASE ClassStep("class_addr", "addr", "device_addr", "oops")
    BY <1>0, <1>1, Tolerates, UnloadingNames DEF Node, PlClass, PlDone, ClassStep, Take,
       Goto, FailTo
  <1>2. CASE RegionStep("region_addr", 0, "class_addr", "hostdma")
    BY <1>0, <1>2, Tolerates, UnloadingNames DEF Node, PlClass, PlDone, RegionStep, Take,
       Stay, Goto, FailTo
  <1>3. CASE DeviceStep("device_addr", 0, "cdev_addr")
    BY <1>0, <1>3, Tolerates, UnloadingNames DEF Node, PlClass, PlDone, DeviceStep, Take,
       Stay
  <1>4. CASE OneCdevStep("cdev_addr", "region_addr", "hostdma")
    BY <1>0, <1>4, Tolerates, UnloadingNames DEF Node, PlClass, PlDone, OneCdevStep, Take,
       Goto, Drop
  <1> QED
    BY <1>1, <1>2, <1>3, <1>4 DEF RegisterAddr

LEMMA PlClassRegisterHost ==
  ASSUME Typed, Smooth', MemClass, PlClass, RegisterHost
  PROVE  PlClass'
  <1>0. at \in Node /\ fields \in [Node -> SUBSET Pointers]
    BY DEF Typed
  <1>1. CASE ClassStep("class_host", "host", "device_host", "oops")
    BY <1>0, <1>1, Tolerates, UnloadingNames DEF Node, PlClass, PlDone, ClassStep, Take,
       Goto, FailTo
  <1>2. CASE RegionStep("region_host", 0, "class_host", "loaded")
    BY <1>0, <1>2, Tolerates, UnloadingNames DEF Node, PlClass, PlDone, RegionStep, Take,
       Stay, Goto, FailTo
  <1>3. CASE DeviceStep("device_host", 0, "cdev_host")
    BY <1>0, <1>3, Tolerates, UnloadingNames DEF Node, PlClass, PlDone, DeviceStep, Take,
       Stay
  <1>4. CASE OneCdevStep("cdev_host", "region_host", "loaded")
    BY <1>0, <1>4, Tolerates, UnloadingNames DEF Node, PlClass, PlDone, OneCdevStep, Take,
       Goto, Drop
  <1> QED
    BY <1>1, <1>2, <1>3, <1>4 DEF RegisterHost

LEMMA PlClassUnloading ==
  ASSUME Typed, Smooth', MemClass, PlClass, Remove
  PROVE  PlClass'
  <1>0. at \in Node /\ fields \in [Node -> SUBSET Pointers]
    BY DEF Typed
  <1>1. CASE Unload
    BY <1>0, <1>1, UnloadingNames DEF Node, PlClass, PlDone, Unload, Goto
  <1>2. CASE DisableDevice
    BY <1>0, <1>2, UnloadingNames DEF Node, PlClass, PlDone, DisableDevice, Stay, Drop
  <1>3. CASE RemoveMemDevice
    BY <1>0, <1>3, UnloadingNames, MemRemovals DEF Node, PlClass, PlDone
  <1>4. CASE UnmapMem
    BY <1>0, <1>4, UnloadingNames DEF Node, PlClass, PlDone, UnmapMem, NextNode, Goto,
       ReleaseIf, Drop
  <1>5. CASE RemoveClass("mem", "unmap_pl")
    BY <1>0, <1>5, UnloadingNames, MemClassRemoval DEF Node,
       PlClass, PlDone
  <1>6. CASE UnmapRegisters
    BY <1>0, <1>6, UnloadingNames, Unmaps DEF Node, PlClass, PlDone
  <1>7. CASE RemovePlDevice
    BY <1>0, <1>7, UnloadingNames, PlRemovals DEF Node, PlClass, PlDone, NextNode, Goto
  <1>8. CASE RemoveClass("pl", "undev_host")
    BY <1>0, <1>8, UnloadingNames, PlClassRemoval DEF Node,
       PlClass, PlDone
  <1>9. CASE RemoveSingle("host", "undev_addr")
    BY <1>0, <1>9, UnloadingNames, HostRemovals DEF Node, PlClass, PlDone
  <1>10. CASE RemoveSingle("addr", "unloaded")
    BY <1>0, <1>10, UnloadingNames, AddrRemovals DEF Node, PlClass, PlDone
  <1> QED
    BY <1>1, <1>2, <1>3, <1>4, <1>5, <1>6, <1>7, <1>8, <1>9, <1>10 DEF Remove

\* AddrBooks, step by step: the books of the address device.
LEMMA AddrBooksProbe ==
  ASSUME Typed, Smooth', AddrBooks, Probe
  PROVE  AddrBooks'
  <1>0. at \in Node /\ fields \in [Node -> SUBSET Pointers]
    BY DEF Typed
  <1>1. CASE FindDevices
    BY <1>0, <1>1, Tolerates, UnloadingNames DEF Node, AddrBooks, FindDevices, Goto, FailTo
  <1>2. CASE EnableDevice
    BY <1>0, <1>2, Tolerates, UnloadingNames DEF Node, AddrBooks, EnableDevice, Take, Stay,
       Goto, FailTo
  <1>3. CASE MapMem
    BY <1>0, <1>3, Tolerates, UnloadingNames DEF Node, AddrBooks, MapMem, Take, Assign,
       NextNode, Goto, FailTo
  <1>4. CASE AllocCdma
    BY <1>0, <1>4, Tolerates, UnloadingNames, MappingNames DEF Node, AddrBooks, AllocCdma,
       Take, Assign, Stay, Goto, FailTo
  <1>5. CASE SetAddressMap
    BY <1>0, <1>5, Tolerates, UnloadingNames, ProbeErrors DEF Node, AddrBooks, SetAddressMap,
       NextNode, Goto
  <1>6. CASE ProbeHostDma
    BY <1>0, <1>6, Tolerates, UnloadingNames DEF Node, AddrBooks, ProbeHostDma, Take, Goto,
       FailTo
  <1> QED
    BY <1>1, <1>2, <1>3, <1>4, <1>5, <1>6 DEF Probe

LEMMA AddrBooksMaps ==
  ASSUME Typed, Smooth', AddrBooks, Maps
  PROVE  AddrBooks'
  <1>0. at \in Node /\ fields \in [Node -> SUBSET Pointers]
    BY DEF Typed
  <1>1. CASE MapStep("ctl", "config")
    BY <1>0, <1>1, Tolerates, UnloadingNames, ProbeErrors DEF Node, AddrBooks, MapStep, Take,
       Assign, Stay, Goto
  <1>2. CASE MapStep("config", "desc")
    BY <1>0, <1>2, Tolerates, UnloadingNames, ProbeErrors DEF Node, AddrBooks, MapStep, Take,
       Assign, Stay, Goto
  <1>3. CASE MapStep("desc", "confmem")
    BY <1>0, <1>3, Tolerates, UnloadingNames, ProbeErrors DEF Node, AddrBooks, MapStep, Take,
       Assign, Stay, Goto
  <1>4. CASE MapStep("confmem", "addrmap")
    BY <1>0, <1>4, Tolerates, UnloadingNames, ProbeErrors DEF Node, AddrBooks, MapStep, Take,
       Assign, Stay, Goto
  <1> QED
    BY <1>1, <1>2, <1>3, <1>4 DEF Maps

LEMMA AddrBooksRegisterMem ==
  ASSUME Typed, Smooth', AddrBooks, RegisterMem
  PROVE  AddrBooks'
  <1>0. at \in Node /\ fields \in [Node -> SUBSET Pointers]
    BY DEF Typed
  <1>1. CASE ClassStep("class_mem", "mem", "region_mem", "region_mem")
    BY <1>0, <1>1, Tolerates, UnloadingNames DEF Node, AddrBooks, ClassStep, Take, Goto,
       FailTo
  <1>2. CASE RegionStep("region_mem", at,
                        IF "mem" \in classes THEN "device_mem" ELSE "oops", "kzalloc")
    BY <1>0, <1>2, Tolerates, UnloadingNames DEF Node, AddrBooks, RegionStep, Take, Stay,
       Goto, FailTo
  <1>3. CASE DeviceStep("device_mem", at, "cdev_mem")
    BY <1>0, <1>3, Tolerates, UnloadingNames DEF Node, AddrBooks, DeviceStep, Take, Stay
  <1>4. CASE NodeCdevStep("cdev_mem", "mem_class", "region_mem", "kzalloc")
    BY <1>0, <1>4, Tolerates, UnloadingNames DEF Node, AddrBooks, NodeCdevStep, Take, Goto,
       Assign, NextNode, Drop
  <1> QED
    BY <1>1, <1>2, <1>3, <1>4 DEF RegisterMem

LEMMA AddrBooksRegisterPl ==
  ASSUME Typed, Smooth', AddrBooks, RegisterPl
  PROVE  AddrBooks'
  <1>0. at \in Node /\ fields \in [Node -> SUBSET Pointers]
    BY DEF Typed
  <1>1. CASE ClassStep("class_pl", "pl", "region_pl", "region_pl")
    BY <1>0, <1>1, Tolerates, UnloadingNames DEF Node, AddrBooks, ClassStep, Take, Goto,
       FailTo
  <1>2. CASE RegionStep("region_pl", at,
                        IF "pl" \in classes THEN "device_pl" ELSE "oops", "region_addr")
    BY <1>0, <1>2, Tolerates, UnloadingNames DEF Node, AddrBooks, RegionStep, Take, Stay,
       Goto, FailTo
  <1>3. CASE DeviceStep("device_pl", at, "cdev_pl")
    BY <1>0, <1>3, Tolerates, UnloadingNames DEF Node, AddrBooks, DeviceStep, Take, Stay
  <1>4. CASE NodeCdevStep("cdev_pl", "pl_class", "region_pl", "region_addr")
    BY <1>0, <1>4, Tolerates, UnloadingNames DEF Node, AddrBooks, NodeCdevStep, Take, Goto,
       Assign, NextNode, Drop
  <1> QED
    BY <1>1, <1>2, <1>3, <1>4 DEF RegisterPl

LEMMA AddrBooksRegisterAddr ==
  ASSUME Typed, Smooth', AddrBooks, RegisterAddr
  PROVE  AddrBooks'
  <1>0. at \in Node /\ fields \in [Node -> SUBSET Pointers]
    BY DEF Typed
  <1>1. CASE ClassStep("class_addr", "addr", "device_addr", "oops")
    BY <1>0, <1>1, Tolerates, UnloadingNames DEF Node, AddrBooks, ClassStep, Take, Goto,
       FailTo
  <1>2. CASE RegionStep("region_addr", 0, "class_addr", "hostdma")
    BY <1>0, <1>2, Tolerates, UnloadingNames DEF Node, AddrBooks, RegionStep, Take, Stay,
       Goto, FailTo
  <1>3. CASE DeviceStep("device_addr", 0, "cdev_addr")
    BY <1>0, <1>3, Tolerates, UnloadingNames DEF Node, AddrBooks, DeviceStep, Take, Stay
  <1>4. CASE OneCdevStep("cdev_addr", "region_addr", "hostdma")
    BY <1>0, <1>4, Tolerates, UnloadingNames DEF Node, AddrBooks, OneCdevStep, Take, Goto,
       Drop
  <1> QED
    BY <1>1, <1>2, <1>3, <1>4 DEF RegisterAddr

LEMMA AddrBooksRegisterHost ==
  ASSUME Typed, Smooth', AddrBooks, RegisterHost
  PROVE  AddrBooks'
  <1>0. at \in Node /\ fields \in [Node -> SUBSET Pointers]
    BY DEF Typed
  <1>1. CASE ClassStep("class_host", "host", "device_host", "oops")
    BY <1>0, <1>1, Tolerates, UnloadingNames DEF Node, AddrBooks, ClassStep, Take, Goto,
       FailTo
  <1>2. CASE RegionStep("region_host", 0, "class_host", "loaded")
    BY <1>0, <1>2, Tolerates, UnloadingNames DEF Node, AddrBooks, RegionStep, Take, Stay,
       Goto, FailTo
  <1>3. CASE DeviceStep("device_host", 0, "cdev_host")
    BY <1>0, <1>3, Tolerates, UnloadingNames DEF Node, AddrBooks, DeviceStep, Take, Stay
  <1>4. CASE OneCdevStep("cdev_host", "region_host", "loaded")
    BY <1>0, <1>4, Tolerates, UnloadingNames DEF Node, AddrBooks, OneCdevStep, Take, Goto,
       Drop
  <1> QED
    BY <1>1, <1>2, <1>3, <1>4 DEF RegisterHost

LEMMA AddrBooksUnloading ==
  ASSUME Typed, Smooth', AddrBooks, Remove
  PROVE  AddrBooks'
  <1>0. at \in Node /\ fields \in [Node -> SUBSET Pointers]
    BY DEF Typed
  <1>1. CASE Unload
    BY <1>0, <1>1, UnloadingNames DEF Node, AddrBooks, Unload, Goto
  <1>2. CASE DisableDevice
    BY <1>0, <1>2, UnloadingNames DEF Node, AddrBooks, DisableDevice, Stay, Drop
  <1>3. CASE RemoveMemDevice
    BY <1>0, <1>3, UnloadingNames, MemRemovals DEF Node, AddrBooks
  <1>4. CASE UnmapMem
    BY <1>0, <1>4, UnloadingNames DEF Node, AddrBooks, UnmapMem, NextNode, Goto, ReleaseIf,
       Drop
  <1>5. CASE RemoveClass("mem", "unmap_pl")
    BY <1>0, <1>5, UnloadingNames, MemClassRemoval DEF Node,
       AddrBooks
  <1>6. CASE UnmapRegisters
    BY <1>0, <1>6, UnloadingNames, Unmaps DEF Node, AddrBooks
  <1>7. CASE RemovePlDevice
    BY <1>0, <1>7, UnloadingNames, PlRemovals DEF Node, AddrBooks, NextNode, Goto
  <1>8. CASE RemoveClass("pl", "undev_host")
    BY <1>0, <1>8, UnloadingNames, PlClassRemoval DEF Node,
       AddrBooks
  <1>9. CASE RemoveSingle("host", "undev_addr")
    BY <1>0, <1>9, UnloadingNames, HostRemovals DEF Node, AddrBooks
  <1>10. CASE RemoveSingle("addr", "unloaded")
    BY <1>0, <1>10, UnloadingNames, AddrRemovals DEF Node, AddrBooks
  <1> QED
    BY <1>1, <1>2, <1>3, <1>4, <1>5, <1>6, <1>7, <1>8, <1>9, <1>10 DEF Remove

\* HostBooks, step by step: the books of the host device.
LEMMA HostBooksProbe ==
  ASSUME Typed, Smooth', HostBooks, Probe
  PROVE  HostBooks'
  <1>0. at \in Node /\ fields \in [Node -> SUBSET Pointers]
    BY DEF Typed
  <1>1. CASE FindDevices
    BY <1>0, <1>1, Tolerates, UnloadingNames DEF Node, HostBooks, FindDevices, Goto, FailTo
  <1>2. CASE EnableDevice
    BY <1>0, <1>2, Tolerates, UnloadingNames DEF Node, HostBooks, EnableDevice, Take, Stay,
       Goto, FailTo
  <1>3. CASE MapMem
    BY <1>0, <1>3, Tolerates, UnloadingNames DEF Node, HostBooks, MapMem, Take, Assign,
       NextNode, Goto, FailTo
  <1>4. CASE AllocCdma
    BY <1>0, <1>4, Tolerates, UnloadingNames, MappingNames DEF Node, HostBooks, AllocCdma,
       Take, Assign, Stay, Goto, FailTo
  <1>5. CASE SetAddressMap
    BY <1>0, <1>5, Tolerates, UnloadingNames, ProbeErrors DEF Node, HostBooks, SetAddressMap,
       NextNode, Goto
  <1>6. CASE ProbeHostDma
    BY <1>0, <1>6, Tolerates, UnloadingNames DEF Node, HostBooks, ProbeHostDma, Take, Goto,
       FailTo
  <1> QED
    BY <1>1, <1>2, <1>3, <1>4, <1>5, <1>6 DEF Probe

LEMMA HostBooksMaps ==
  ASSUME Typed, Smooth', HostBooks, Maps
  PROVE  HostBooks'
  <1>0. at \in Node /\ fields \in [Node -> SUBSET Pointers]
    BY DEF Typed
  <1>1. CASE MapStep("ctl", "config")
    BY <1>0, <1>1, Tolerates, UnloadingNames, ProbeErrors DEF Node, HostBooks, MapStep, Take,
       Assign, Stay, Goto
  <1>2. CASE MapStep("config", "desc")
    BY <1>0, <1>2, Tolerates, UnloadingNames, ProbeErrors DEF Node, HostBooks, MapStep, Take,
       Assign, Stay, Goto
  <1>3. CASE MapStep("desc", "confmem")
    BY <1>0, <1>3, Tolerates, UnloadingNames, ProbeErrors DEF Node, HostBooks, MapStep, Take,
       Assign, Stay, Goto
  <1>4. CASE MapStep("confmem", "addrmap")
    BY <1>0, <1>4, Tolerates, UnloadingNames, ProbeErrors DEF Node, HostBooks, MapStep, Take,
       Assign, Stay, Goto
  <1> QED
    BY <1>1, <1>2, <1>3, <1>4 DEF Maps

LEMMA HostBooksRegisterMem ==
  ASSUME Typed, Smooth', HostBooks, RegisterMem
  PROVE  HostBooks'
  <1>0. at \in Node /\ fields \in [Node -> SUBSET Pointers]
    BY DEF Typed
  <1>1. CASE ClassStep("class_mem", "mem", "region_mem", "region_mem")
    BY <1>0, <1>1, Tolerates, UnloadingNames DEF Node, HostBooks, ClassStep, Take, Goto,
       FailTo
  <1>2. CASE RegionStep("region_mem", at,
                        IF "mem" \in classes THEN "device_mem" ELSE "oops", "kzalloc")
    BY <1>0, <1>2, Tolerates, UnloadingNames DEF Node, HostBooks, RegionStep, Take, Stay,
       Goto, FailTo
  <1>3. CASE DeviceStep("device_mem", at, "cdev_mem")
    BY <1>0, <1>3, Tolerates, UnloadingNames DEF Node, HostBooks, DeviceStep, Take, Stay
  <1>4. CASE NodeCdevStep("cdev_mem", "mem_class", "region_mem", "kzalloc")
    BY <1>0, <1>4, Tolerates, UnloadingNames DEF Node, HostBooks, NodeCdevStep, Take, Goto,
       Assign, NextNode, Drop
  <1> QED
    BY <1>1, <1>2, <1>3, <1>4 DEF RegisterMem

LEMMA HostBooksRegisterPl ==
  ASSUME Typed, Smooth', HostBooks, RegisterPl
  PROVE  HostBooks'
  <1>0. at \in Node /\ fields \in [Node -> SUBSET Pointers]
    BY DEF Typed
  <1>1. CASE ClassStep("class_pl", "pl", "region_pl", "region_pl")
    BY <1>0, <1>1, Tolerates, UnloadingNames DEF Node, HostBooks, ClassStep, Take, Goto,
       FailTo
  <1>2. CASE RegionStep("region_pl", at,
                        IF "pl" \in classes THEN "device_pl" ELSE "oops", "region_addr")
    BY <1>0, <1>2, Tolerates, UnloadingNames DEF Node, HostBooks, RegionStep, Take, Stay,
       Goto, FailTo
  <1>3. CASE DeviceStep("device_pl", at, "cdev_pl")
    BY <1>0, <1>3, Tolerates, UnloadingNames DEF Node, HostBooks, DeviceStep, Take, Stay
  <1>4. CASE NodeCdevStep("cdev_pl", "pl_class", "region_pl", "region_addr")
    BY <1>0, <1>4, Tolerates, UnloadingNames DEF Node, HostBooks, NodeCdevStep, Take, Goto,
       Assign, NextNode, Drop
  <1> QED
    BY <1>1, <1>2, <1>3, <1>4 DEF RegisterPl

LEMMA HostBooksRegisterAddr ==
  ASSUME Typed, Smooth', HostBooks, RegisterAddr
  PROVE  HostBooks'
  <1>0. at \in Node /\ fields \in [Node -> SUBSET Pointers]
    BY DEF Typed
  <1>1. CASE ClassStep("class_addr", "addr", "device_addr", "oops")
    BY <1>0, <1>1, Tolerates, UnloadingNames DEF Node, HostBooks, ClassStep, Take, Goto,
       FailTo
  <1>2. CASE RegionStep("region_addr", 0, "class_addr", "hostdma")
    BY <1>0, <1>2, Tolerates, UnloadingNames DEF Node, HostBooks, RegionStep, Take, Stay,
       Goto, FailTo
  <1>3. CASE DeviceStep("device_addr", 0, "cdev_addr")
    BY <1>0, <1>3, Tolerates, UnloadingNames DEF Node, HostBooks, DeviceStep, Take, Stay
  <1>4. CASE OneCdevStep("cdev_addr", "region_addr", "hostdma")
    BY <1>0, <1>4, Tolerates, UnloadingNames DEF Node, HostBooks, OneCdevStep, Take, Goto,
       Drop
  <1> QED
    BY <1>1, <1>2, <1>3, <1>4 DEF RegisterAddr

LEMMA HostBooksRegisterHost ==
  ASSUME Typed, Smooth', HostBooks, RegisterHost
  PROVE  HostBooks'
  <1>0. at \in Node /\ fields \in [Node -> SUBSET Pointers]
    BY DEF Typed
  <1>1. CASE ClassStep("class_host", "host", "device_host", "oops")
    BY <1>0, <1>1, Tolerates, UnloadingNames DEF Node, HostBooks, ClassStep, Take, Goto,
       FailTo
  <1>2. CASE RegionStep("region_host", 0, "class_host", "loaded")
    BY <1>0, <1>2, Tolerates, UnloadingNames DEF Node, HostBooks, RegionStep, Take, Stay,
       Goto, FailTo
  <1>3. CASE DeviceStep("device_host", 0, "cdev_host")
    BY <1>0, <1>3, Tolerates, UnloadingNames DEF Node, HostBooks, DeviceStep, Take, Stay
  <1>4. CASE OneCdevStep("cdev_host", "region_host", "loaded")
    BY <1>0, <1>4, Tolerates, UnloadingNames DEF Node, HostBooks, OneCdevStep, Take, Goto,
       Drop
  <1> QED
    BY <1>1, <1>2, <1>3, <1>4 DEF RegisterHost

LEMMA HostBooksUnloading ==
  ASSUME Typed, Smooth', HostBooks, Remove
  PROVE  HostBooks'
  <1>0. at \in Node /\ fields \in [Node -> SUBSET Pointers]
    BY DEF Typed
  <1>1. CASE Unload
    BY <1>0, <1>1, UnloadingNames DEF Node, HostBooks, Unload, Goto
  <1>2. CASE DisableDevice
    BY <1>0, <1>2, UnloadingNames DEF Node, HostBooks, DisableDevice, Stay, Drop
  <1>3. CASE RemoveMemDevice
    BY <1>0, <1>3, UnloadingNames, MemRemovals DEF Node, HostBooks
  <1>4. CASE UnmapMem
    BY <1>0, <1>4, UnloadingNames DEF Node, HostBooks, UnmapMem, NextNode, Goto, ReleaseIf,
       Drop
  <1>5. CASE RemoveClass("mem", "unmap_pl")
    BY <1>0, <1>5, UnloadingNames, MemClassRemoval DEF Node,
       HostBooks
  <1>6. CASE UnmapRegisters
    BY <1>0, <1>6, UnloadingNames, Unmaps DEF Node, HostBooks
  <1>7. CASE RemovePlDevice
    BY <1>0, <1>7, UnloadingNames, PlRemovals DEF Node, HostBooks, NextNode, Goto
  <1>8. CASE RemoveClass("pl", "undev_host")
    BY <1>0, <1>8, UnloadingNames, PlClassRemoval DEF Node,
       HostBooks
  <1>9. CASE RemoveSingle("host", "undev_addr")
    BY <1>0, <1>9, UnloadingNames, HostRemovals DEF Node, HostBooks
  <1>10. CASE RemoveSingle("addr", "unloaded")
    BY <1>0, <1>10, UnloadingNames, AddrRemovals DEF Node, HostBooks
  <1> QED
    BY <1>1, <1>2, <1>3, <1>4, <1>5, <1>6, <1>7, <1>8, <1>9, <1>10 DEF Remove

\* NoFault, step by step: nothing is released that is not held.
LEMMA NoFaultUnloading ==
  ASSUME Typed, ~fault, MemOf(at), MapOf(at), PlOf(at), MemClass, PlClass, AddrBooks, HostBooks, Remove
  PROVE  ~fault'
  <1>0. at \in Node /\ fields \in [Node -> SUBSET Pointers]
    BY DEF Typed
  <1>1. CASE Unload
    BY <1>0, <1>1, UnloadingNames DEF Node, MemClass, PlClass, AddrBooks, HostBooks, MemOf,
       MapOf, PlOf, Standing, PlHeld, PlDone, Unload, Goto
  <1>2. CASE DisableDevice
    BY <1>0, <1>2, UnloadingNames, DropsHeld DEF Node, MemClass, PlClass, AddrBooks,
       HostBooks, MemOf, MapOf, PlOf, Standing, PlHeld, PlDone, DisableDevice, Stay
  <1>3. CASE RemoveMemDevice
    BY <1>0, <1>3, UnloadingNames, MemRemovals DEF Node, MemClass, PlClass, AddrBooks,
       HostBooks, MemOf, MapOf, PlOf, Standing, PlHeld, PlDone
  <1>4. CASE UnmapMem
    BY <1>0, <1>4, UnloadingNames, DropsHeld DEF Node, MemClass, PlClass, AddrBooks,
       HostBooks, MemOf, MapOf, PlOf, Standing, PlHeld, PlDone, UnmapMem, NextNode, Goto,
       ReleaseIf
  <1>5. CASE RemoveClass("mem", "unmap_pl")
    BY <1>0, <1>5, UnloadingNames, MemClassRemoval DEF Node,
       MemClass, PlClass, AddrBooks, HostBooks, MemOf, MapOf, PlOf, Standing, PlHeld, PlDone
  <1>6. CASE UnmapRegisters
    BY <1>0, <1>6, UnloadingNames, Unmaps DEF Node, MemClass, PlClass, AddrBooks, HostBooks,
       MemOf, MapOf, PlOf, Standing, PlHeld, PlDone
  <1>7. CASE RemovePlDevice
    BY <1>0, <1>7, UnloadingNames, PlRemovals DEF Node, MemClass, PlClass, AddrBooks,
       HostBooks, MemOf, MapOf, PlOf, Standing, PlHeld, PlDone, NextNode, Goto
  <1>8. CASE RemoveClass("pl", "undev_host")
    BY <1>0, <1>8, UnloadingNames, PlClassRemoval DEF Node,
       MemClass, PlClass, AddrBooks, HostBooks, MemOf, MapOf, PlOf, Standing, PlHeld, PlDone
  <1>9. CASE RemoveSingle("host", "undev_addr")
    BY <1>0, <1>9, UnloadingNames, HostRemovals DEF Node, MemClass, PlClass, AddrBooks,
       HostBooks, MemOf, MapOf, PlOf, Standing, PlHeld, PlDone
  <1>10. CASE RemoveSingle("addr", "unloaded")
    BY <1>0, <1>10, UnloadingNames, AddrRemovals DEF Node, MemClass, PlClass, AddrBooks,
       HostBooks, MemOf, MapOf, PlOf, Standing, PlHeld, PlDone
  <1> QED
    BY <1>1, <1>2, <1>3, <1>4, <1>5, <1>6, <1>7, <1>8, <1>9, <1>10 DEF Remove


(***************************************************************************)
(* The whole invariant.                                                    *)
(***************************************************************************)
\* Every step is one of these.
LEMMA Steps ==
  ASSUME Next
  PROVE  Probe \/ Maps \/ RegisterMem \/ RegisterPl \/ RegisterAddr \/ RegisterHost \/ Remove
  BY MapForms, Registers DEF Next, Load, Probe

\* The steps of loading end in a place of loading.
LEMMA LoadStays ==
  ASSUME Typed, Probe \/ Maps \/ RegisterMem \/ RegisterPl \/ RegisterAddr \/ RegisterHost
  PROVE  pc' \in Loading
  <1>1. ASSUME ProbeError
        PROVE  pc' \in Loading
    BY <1>1, LoadingNames DEF ProbeError, Goto
  <1>2. CASE Probe
    BY <1>1, <1>2, LoadingNames, MappingNames DEF Probe, FindDevices, EnableDevice, MapMem,
       AllocCdma, SetAddressMap, ProbeHostDma, Goto, Stay, NextNode, FailTo
  <1>3. CASE Maps
    BY <1>1, <1>3, LoadingNames DEF Maps, MapStep, Stay
  <1>4. CASE RegisterMem
    BY <1>4, LoadingNames DEF RegisterMem, ClassStep, RegionStep, DeviceStep, NodeCdevStep,
       Goto, Stay, NextNode, FailTo
  <1>5. CASE RegisterPl
    BY <1>5, LoadingNames DEF RegisterPl, ClassStep, RegionStep, DeviceStep, NodeCdevStep,
       Goto, Stay, NextNode, FailTo
  <1>6. CASE RegisterAddr
    BY <1>6, LoadingNames DEF RegisterAddr, ClassStep, RegionStep, DeviceStep, OneCdevStep,
       Goto, Stay, FailTo
  <1>7. CASE RegisterHost
    BY <1>7, LoadingNames DEF RegisterHost, ClassStep, RegionStep, DeviceStep, OneCdevStep,
       Goto, Stay, FailTo
  <1> QED
    BY <1>2, <1>3, <1>4, <1>5, <1>6, <1>7

\* Failures are never forgotten.
LEMMA Grows ==
  ASSUME [Next]_vars
  PROVE  failed \subseteq failed'
  <1>1. Refused => failed \subseteq failed'
    BY DEF Refused
  <1>2. CASE Probe
    BY <1>1, <1>2 DEF Probe, FindDevices, EnableDevice, MapMem, AllocCdma, SetAddressMap,
       ProbeHostDma, Take, FailTo, ProbeError
  <1>3. CASE Maps
    BY <1>1, <1>3 DEF Maps, MapStep, Take, ProbeError
  <1>4. CASE RegisterMem
    BY <1>1, <1>4 DEF RegisterMem, ClassStep, RegionStep, DeviceStep, NodeCdevStep, Take,
       FailTo
  <1>5. CASE RegisterPl
    BY <1>1, <1>5 DEF RegisterPl, ClassStep, RegionStep, DeviceStep, NodeCdevStep, Take,
       FailTo
  <1>6. CASE RegisterAddr
    BY <1>1, <1>6 DEF RegisterAddr, ClassStep, RegionStep, DeviceStep, OneCdevStep, Take,
       FailTo
  <1>7. CASE RegisterHost
    BY <1>1, <1>7 DEF RegisterHost, ClassStep, RegionStep, DeviceStep, OneCdevStep, Take,
       FailTo
  <1>8. CASE Remove
    BY <1>8 DEF Remove, Unload, DisableDevice, RemoveMemDevice, UnmapMem, RemoveClass,
       UnmapRegisters, RemovePlDevice, RemoveSingle
  <1>9. CASE UNCHANGED vars
    BY <1>9 DEF vars
  <1> QED
    BY <1>2, <1>3, <1>4, <1>5, <1>6, <1>7, <1>8, <1>9, Steps

LEMMA SmoothBefore ==
  ASSUME [Next]_vars, Smooth'
  PROVE  Smooth
  <1>1. Tolerated' = Tolerated
    BY DEF Tolerated, Device, Kinds, PerNode, Singles
  <1> QED
    BY <1>1, Grows DEF Smooth

\* What is owned, whatever fails.
LEMMA OwnedKept ==
  ASSUME Typed, Owned, [Next]_vars
  PROVE  Owned'
  <1>1. at \in Node /\ Own /\ Pointed(at)
    BY DEF Typed, Owned
  <1>2. CASE UNCHANGED vars
    BY <1>2 DEF vars, Owned, Own, Pointed, MemReady, PlMapped, PlReady
  <1>3. ASSUME Next
        PROVE  Own'
    BY <1>1, <1>3, Steps, OwnProbe, OwnMaps, OwnRegisterMem, OwnRegisterPl, OwnRegisterAddr,
       OwnRegisterHost, OwnUnloading
  <1>4. ASSUME Next, NEW n \in Node
        PROVE  Pointed(n)' /\ MemReady(n)' /\ PlMapped(n)'
    <2>1. Pointed(n) /\ MemReady(n) /\ PlMapped(n)
      BY DEF Owned
    <2>2. Pointed(n)'
      BY <1>4, <2>1, Steps, PointedProbe, PointedMaps, PointedRegisterMem, PointedRegisterPl,
         PointedRegisterAddr, PointedRegisterHost, PointedUnloading
    <2>3. MemReady(n)'
      BY <1>4, <2>1, Steps, MemReadyProbe, MemReadyMaps, MemReadyRegisterMem,
         MemReadyRegisterPl, MemReadyRegisterAddr, MemReadyRegisterHost, MemReadyUnloading
    <2>4. PlMapped(n)'
      BY <1>4, <2>1, Steps, PlMappedProbe, PlMappedMaps, PlMappedRegisterMem,
         PlMappedRegisterPl, PlMappedRegisterAddr, PlMappedRegisterHost, PlMappedUnloading
    <2> QED
      BY <2>2, <2>3, <2>4
  <1>5. Node' = Node
    BY DEF Node
  <1> QED
    BY <1>2, <1>3, <1>4, <1>5 DEF Owned

\* The books, when nothing failed but what is Tolerated.
LEMMA BooksKept ==
  ASSUME Typed, Owned, Books, Next, Smooth'
  PROVE  Books'
  <1>1. at \in Node /\ MemClass /\ PlClass /\ AddrBooks /\ HostBooks /\ ~fault
    BY DEF Typed, Books
  <1>2. ASSUME NEW n \in Node
        PROVE  MemOf(n)'
    <2>1. MemOf(n)
      BY DEF Books
    <2> QED
      BY <1>1, <2>1, Steps, MemOfProbe, MemOfMaps, MemOfRegisterMem, MemOfRegisterPl,
         MemOfRegisterAddr, MemOfRegisterHost, MemOfUnloading
  <1>3. ASSUME NEW n \in Node
        PROVE  MapOf(n)'
    <2>1. MapOf(n)
      BY DEF Books
    <2> QED
      BY <1>1, <2>1, Steps, MapOfProbe, MapOfMaps, MapOfRegisterMem, MapOfRegisterPl,
         MapOfRegisterAddr, MapOfRegisterHost, MapOfUnloading
  <1>4. ASSUME NEW n \in Node
        PROVE  PlOf(n)'
    <2>1. PlOf(n)
      BY DEF Books
    <2> QED
      BY <1>1, <2>1, Steps, PlOfProbe, PlOfMaps, PlOfRegisterMem, PlOfRegisterPl,
         PlOfRegisterAddr, PlOfRegisterHost, PlOfUnloading
  <1>5. MemClass'
    BY <1>1, Steps, MemClassProbe, MemClassMaps, MemClassRegisterMem, MemClassRegisterPl,
       MemClassRegisterAddr, MemClassRegisterHost, MemClassUnloading
  <1>6. PlClass'
    BY <1>1, Steps, PlClassProbe, PlClassMaps, PlClassRegisterMem, PlClassRegisterPl,
       PlClassRegisterAddr, PlClassRegisterHost, PlClassUnloading
  <1>7. AddrBooks'
    BY <1>1, Steps, AddrBooksProbe, AddrBooksMaps, AddrBooksRegisterMem, AddrBooksRegisterPl,
       AddrBooksRegisterAddr, AddrBooksRegisterHost, AddrBooksUnloading
  <1>8. HostBooks'
    BY <1>1, Steps, HostBooksProbe, HostBooksMaps, HostBooksRegisterMem, HostBooksRegisterPl,
       HostBooksRegisterAddr, HostBooksRegisterHost, HostBooksUnloading
  <1>9. ~fault'
    <2>1. CASE Remove
      BY <1>1, <2>1, NoFaultUnloading DEF Books
    <2>2. CASE pc' \in Loading
      <3>1. Own'
        BY OwnedKept DEF Owned
      <3>2. Loading' = Loading
        BY LoadingNames DEF Loading, Mappings, Class, Region, Device, Cdev, Kinds, PerNode,
           Singles
      <3> QED
        BY <2>2, <3>1, <3>2 DEF Own
    <2> QED
      BY <2>1, <2>2, Steps, LoadStays
  <1>10. Node' = Node
    BY DEF Node
  <1> QED
    BY <1>2, <1>3, <1>4, <1>5, <1>6, <1>7, <1>8, <1>9, <1>10 DEF Books

IInv == Typed /\ Owned /\ (Smooth => Books)

LEMMA InitOwned == Init => Owned
  BY DEF Init, Owned, Own, Pointed, MemReady, PlMapped

LEMMA InitBooks == Init => Books
  <1> SUFFICES ASSUME Init PROVE Books
    OBVIOUS
  <1>1. pc = "find" /\ at = NumDevices /\ held = {} /\ classes = {} /\ ~fault
    BY DEF Init
  <1>2. ASSUME NEW n \in Node
        PROVE  MemOf(n) /\ MapOf(n) /\ PlOf(n)
    BY <1>1 DEF MemOf, MapOf, PlOf, Standing, PlHeld, PlDone
  <1>3. MemClass /\ PlClass /\ AddrBooks /\ HostBooks
    BY <1>1, UnloadingNames DEF MemClass, PlClass, PlDone, AddrBooks, HostBooks
  <1> QED
    BY <1>1, <1>2, <1>3 DEF Books

LEMMA BooksStutter ==
  ASSUME Books, UNCHANGED vars
  PROVE  Books'
  <1>1. Unloading' = Unloading /\ Node' = Node
    BY DEF Unloading, Node
  <1>2. ASSUME NEW n \in Node
        PROVE  MemOf(n)' /\ MapOf(n)' /\ PlOf(n)'
    <2>1. UNCHANGED <<pc, at, held, fields>>
      BY DEF vars
    <2>2. \A S, T, F, U, V : Standing(S, T, F, U, V, n)' <=> Standing(S, T, F, U, V, n)
      BY <2>1 DEF Standing
    <2>3. MemOf(n) /\ MapOf(n) /\ PlOf(n)
      BY DEF Books
    <2>4. MemOf(n)' /\ PlOf(n)'
      BY <2>1, <2>2, <2>3 DEF MemOf, PlOf, PlDone
    <2>5. MapOf(n)'
      BY <2>1, <2>2, <2>3 DEF MapOf, PlHeld, PlDone
    <2> QED
      BY <2>4, <2>5
  <1>3. MemClass' /\ PlClass' /\ AddrBooks' /\ HostBooks'
    BY <1>1 DEF vars, Books, MemClass, PlClass, AddrBooks, HostBooks
  <1> QED
    BY <1>1, <1>2, <1>3 DEF vars, Books

\* The inductive invariant: types, what is owned whatever fails, and the books.
THEOREM Invariant == Spec => []IInv
  <1>1. Init => IInv
    BY InitTyped, InitOwned, InitBooks DEF IInv
  <1>2. IInv /\ [Next]_vars => IInv'
    <2> SUFFICES ASSUME IInv, [Next]_vars PROVE IInv'
      OBVIOUS
    <2>1. Typed' /\ Owned'
      BY NextTyped, OwnedKept DEF IInv
    <2>2. ASSUME Smooth' PROVE Books'
      <3>1. Books
        BY <2>2, SmoothBefore DEF IInv
      <3>2. CASE Next
        BY <2>2, <3>1, <3>2, BooksKept DEF IInv
      <3>3. CASE UNCHANGED vars
        BY <3>1, <3>3, BooksStutter
      <3> QED
        BY <3>2, <3>3
    <2> QED
      BY <2>1, <2>2 DEF IInv
  <1> QED
    BY <1>1, <1>2, PTL DEF Spec

(***************************************************************************)
(* What the runs check.                                                    *)
(***************************************************************************)
\* A loop over the devices never runs past its list, on any of the error paths.
THEOREM AlwaysTypeOK == Spec => []TypeOK
  <1>1. IInv => TypeOK
    BY TypedOK DEF IInv
  <1> QED
    BY <1>1, Invariant, PTL

\* Until rmmod the error paths of the probe and registration functions give
\* back only what they have.
THEOREM LoadingReleasesItsOwn == Spec => []LoadReleasesItsOwn
  <1>1. IInv => LoadReleasesItsOwn
    BY DEF IInv, Owned, Own, LoadReleasesItsOwn
  <1> QED
    BY <1>1, Invariant, PTL

\* A device file that can be opened has the mappings its handlers use.
THEOREM AlwaysOpenableMeansMapped == Spec => []OpenableMeansMapped
  <1>1. IInv => OpenableMeansMapped
    <2> SUFFICES ASSUME IInv, NEW n \in Node
                 PROVE  /\ <<"cdev_mem", n>> \in held => <<"mem", n>> \in held
                        /\ pc \in Loading /\ <<"cdev_pl", n>> \in held =>
                             <<"cdma", n>> \in held /\ \A k \in 1..4 : <<Mappings[k], n>> \in held
      BY DEF OpenableMeansMapped
    <2>1. MemReady(n) /\ PlMapped(n)
      BY DEF IInv, Owned
    <2> QED
      BY <2>1, MappingNames DEF MemReady, PlMapped, PlReady
  <1> QED
    BY <1>1, Invariant, PTL

\* When nothing failed but what is Tolerated, pim_dma_exit_x86 releases what
\* is held and nothing else, and no device outlives its class.
THEOREM RemovalIsClean == Spec => []CleanRemoval
  <1>1. IInv => CleanRemoval
    <2> SUFFICES ASSUME IInv, Smooth
                 PROVE  /\ ~fault
                        /\ pc = "unloaded" =>
                             \A x \in held : x[1] \in {"node", "cdma", "host_dma_t"}
                        /\ \A d \in Kinds : (\E n \in Node \cup {0} : <<Device[d], n>> \in held)
                                              => <<Class[d], 0>> \in held
      BY DEF CleanRemoval, Smooth
    <2>1. held \subseteq Resource /\ Books /\ at \in Node
      BY DEF IInv, Typed
    <2>2. ASSUME pc = "unloaded", NEW x \in held
          PROVE  x[1] \in {"node", "cdma", "host_dma_t"}
      <3>1. CASE x \in NodeKinds \X Node
        <4>1. PICK k \in NodeKinds, n \in Node : x = <<k, n>>
          BY <3>1
        <4>2. MemOf(n) /\ MapOf(n) /\ PlOf(n)
          BY <2>1 DEF Books
        <4>3. k \notin {"enabled", "mem", "region_mem", "device_mem", "cdev_mem"}
          BY <2>2, <4>1, <4>2 DEF MemOf, Standing
        <4>4. k \notin {"ctl", "config", "desc", "confmem"}
          BY <2>2, <4>1, <4>2 DEF MapOf, Standing, PlHeld
        <4>5. k \notin {"region_pl", "device_pl", "cdev_pl"}
          BY <2>2, <4>1, <4>2 DEF PlOf, Standing, PlDone
        <4> QED
          BY <4>1, <4>3, <4>4, <4>5 DEF NodeKinds
      <3>2. CASE x \in OneKinds \X {0}
        <4>1. PICK k \in OneKinds : x = <<k, 0>>
          BY <3>2
        <4>2. k \notin {"class_mem", "class_pl"}
          BY <2>1, <2>2, <4>1 DEF Books, MemClass, PlClass, PlDone
        <4>3. k \notin {"region_addr", "class_addr", "device_addr", "cdev_addr"}
          BY <2>1, <2>2, <4>1 DEF Books, AddrBooks
        <4>4. k \notin {"region_host", "class_host", "device_host", "cdev_host"}
          BY <2>1, <2>2, <4>1 DEF Books, HostBooks
        <4> QED
          BY <4>1, <4>2, <4>3, <4>4 DEF OneKinds
      <3> QED
        BY <2>1, <3>1, <3>2 DEF Resource
    <2>3. ASSUME NEW d \in Kinds, NEW n \in Node \cup {0}, <<Device[d], n>> \in held
          PROVE  <<Class[d], 0>> \in held
      <3>1. <<Device[d], n>> \in Resource
        BY <2>1, <2>3
      <3>2. CASE d = "mem"
        <4>1. n \in Node
          BY <3>1, <3>2, Names DEF Resource, OneKinds
        <4>2. MemOf(n) /\ MemClass
          BY <2>1, <4>1 DEF Books
        <4> QED
          BY <2>3, <3>2, <4>2, Names DEF MemOf, MemClass, Standing
      <3>3. CASE d = "pl"
        <4>1. n \in Node
          BY <3>1, <3>3, Names DEF Resource, OneKinds
        <4>2. PlOf(n) /\ PlClass
          BY <2>1, <4>1 DEF Books
        <4> QED
          BY <2>3, <3>3, <4>2, Names DEF PlOf, PlClass, Standing, PlDone
      <3>4. CASE d = "addr"
        <4>1. n = 0
          BY <3>1, <3>4, Names DEF Resource, NodeKinds
        <4> QED
          BY <2>1, <2>3, <3>4, <4>1, Names DEF Books, AddrBooks
      <3>5. CASE d = "host"
        <4>1. n = 0
          BY <3>1, <3>5, Names DEF Resource, NodeKinds
        <4> QED
          BY <2>1, <2>3, <3>5, <4>1, Names DEF Books, HostBooks
      <3> QED
        BY <3>2, <3>3, <3>4, <3>5, KindNames
    <2> QED
      BY <2>1, <2>2, <2>3 DEF Books
  <1> QED
    BY <1>1, Invariant, PTL

==============================================================================
