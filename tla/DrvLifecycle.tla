----------------------------- MODULE DrvLifecycle -----------------------------
(***************************************************************************)
(* Loading and unloading the kernel module, x86 build: pim_drv_init_x86    *)
(* and pim_dma_exit_x86 of src/drv_src/pim_drv_main.c, with the probing,   *)
(* registration and removal functions they call, and the list of devices.  *)
(*                                                                         *)
(* Everything the driver asks the kernel for is a resource <<kind, owner>>;*)
(* the owner is a device of the list, or 0.  Every request may fail.  What *)
(* kmalloc leaves in a dev_node_t is garbage: a field never assigned reads *)
(* as NULL or as a wild pointer.                                           *)
(***************************************************************************)
EXTENDS Integers, FiniteSets, Sequences

CONSTANTS
  NumDevices,  \* devices pciem_find_device_recur finds
  MaxFails     \* bound: requests that fail while the module is loaded

ASSUME NumDevicesAssumption == NumDevices \in Nat \ {0}
ASSUME MaxFailsAssumption   == MaxFails \in Nat

Node == 1..NumDevices

VARIABLES
  pc,      \* the next step
  at,      \* the node the current loop has come to
  held,    \* the resources the kernel has given and not got back
  fields,  \* the pointers assigned in each node: "mem_class", "mem_reg",
           \* "cdma_dev", "pl_class" and the mappings of cdma_dev
  classes, \* the static class pointers that are set
  failed,  \* the requests that have failed: <<step, node>>
  fault    \* something was released that was not held, or a wild pointer used

vars == <<pc, at, held, fields, classes, failed, fault>>

(***************************************************************************)
(* Requests and releases.                                                  *)
(***************************************************************************)
Goto(where) == pc' = where /\ at' = NumDevices

\* Mutant: one node more than there are.
NextNode_OneMore(again, after) ==
  IF at > 0 THEN pc' = again /\ at' = at - 1 ELSE Goto(after)

\* The loop goes to the next node with step `again', or ends in step `after'.
NextNode(again, after) ==
  IF at > 1 THEN pc' = again /\ at' = at - 1 ELSE Goto(after)

Stay(where) == pc' = where /\ at' = at

Take(kind, o) == held' = held \cup {<<kind, o>>} /\ UNCHANGED <<failed, fault>>

Drop(R) == held' = held \ R /\ fault' = (fault \/ ~ R \subseteq held)

Refused == Cardinality(failed) < MaxFails /\ failed' = failed \cup {<<pc, at>>}

\* A request fails and the function returns: nothing to give back.
FailTo(where) == Refused /\ Goto(where) /\ UNCHANGED <<held, fields, classes, fault>>

Assign(n, F) == fields' = [fields EXCEPT ![n] = @ \cup F]

(***************************************************************************)
(* probe_pim_mem_x86: the list of devices, and the memory of each.         *)
(***************************************************************************)
\* dev_insert uses what kmalloc returns without a look at it.
FindDevices ==
  /\ pc = "find"
  /\ \/ held' = held \cup {<<"node", n>> : n \in Node} /\ Goto("enable")
          /\ UNCHANGED <<fields, classes, failed, fault>>
     \/ FailTo("oops")

EnableDevice ==
  /\ pc = "enable"
  /\ \/ Take("enabled", at) /\ Stay("mapmem") /\ UNCHANGED <<fields, classes>>
     \/ FailTo("kzalloc")

\* Mutant: a device whose memory cannot be mapped is passed over.
MapMem_PassOver ==
  /\ pc = "mapmem"
  /\ \/ Take("mem", at) /\ Assign(at, {"mem_reg"}) /\ NextNode("enable", "class_mem")
          /\ UNCHANGED classes
     \/ Refused /\ NextNode("enable", "class_mem") /\ UNCHANGED <<held, fields, classes, fault>>

MapMem ==
  /\ pc = "mapmem"
  /\ \/ Take("mem", at) /\ Assign(at, {"mem_reg"}) /\ NextNode("enable", "class_mem")
          /\ UNCHANGED classes
     \/ FailTo("kzalloc")

(***************************************************************************)
(* Registration: class, then per node region, device and cdev for "mem"    *)
(* and "pl"; region, class, device and cdev, once, for "addr" and "host".  *)
(***************************************************************************)
PerNode == {"mem", "pl"}
Singles == {"addr", "host"}
Kinds   == PerNode \cup Singles

\* The steps that register and remove a device, named for what they ask for.
Class   == [mem |-> "class_mem", pl |-> "class_pl", addr |-> "class_addr", host |-> "class_host"]
Region  == [mem |-> "region_mem", pl |-> "region_pl",
            addr |-> "region_addr", host |-> "region_host"]
Device  == [mem |-> "device_mem", pl |-> "device_pl",
            addr |-> "device_addr", host |-> "device_host"]
Cdev    == [mem |-> "cdev_mem", pl |-> "cdev_pl", addr |-> "cdev_addr", host |-> "cdev_host"]
Unclass == [mem |-> "unclass_mem", pl |-> "unclass_pl"]
Undev   == [addr |-> "undev_addr", host |-> "undev_host"]

\* The field of a node that a finished registration assigns.
Field == [mem |-> "mem_class", pl |-> "pl_class"]

Owner(d) == IF d \in PerNode THEN at ELSE 0

\* What comes after the registration of d, successful or not.
Continue(d) == CASE d = "mem" -> "kzalloc" [] d = "pl" -> "region_addr"
                 [] d = "addr" -> "hostdma" [] d = "host" -> "loaded"

\* class_create does not return NULL: a failure goes unnoticed until the class
\* is written to, for "mem" and "pl" after the next region is there.
RegisterClass(d) ==
  /\ pc = Class[d]
  /\ \/ /\ Take(Class[d], 0) /\ classes' = classes \cup {d}
        /\ Goto(IF d \in PerNode THEN Region[d] ELSE Device[d]) /\ UNCHANGED fields
     \/ FailTo(IF d \in PerNode THEN Region[d] ELSE "oops")

RegisterRegion(d) ==
  /\ pc = Region[d]
  /\ \/ /\ Take(Region[d], Owner(d))
        /\ Stay(IF d \in Singles THEN Class[d]
                ELSE IF d \in classes THEN Device[d] ELSE "oops")
        /\ UNCHANGED <<fields, classes>>
     \/ FailTo(Continue(d))

\* Nor does device_create return NULL: a failure goes unnoticed.
RegisterDevice(d) ==
  /\ pc = Device[d]
  /\ \/ Take(Device[d], Owner(d)) /\ Stay(Cdev[d]) /\ UNCHANGED <<fields, classes>>
     \/ Refused /\ Stay(Cdev[d]) /\ UNCHANGED <<held, fields, classes, fault>>

\* Mutant: the error path unregisters the regions of all nodes.
AddCdev_All(d) ==
  /\ pc = Cdev[d]
  /\ \/ /\ Take(Cdev[d], Owner(d)) /\ UNCHANGED classes
        /\ IF d \in PerNode
           THEN Assign(at, {Field[d]}) /\ NextNode(Region[d], Continue(d))
           ELSE Goto(Continue(d)) /\ UNCHANGED fields
     \/ /\ Refused /\ Drop({<<Region[d], o>> : o \in IF d \in PerNode THEN Node ELSE {0}})
        /\ Goto(Continue(d)) /\ UNCHANGED <<fields, classes>>

\* cdev_add: the last step, after which the device can be opened.  A failure
\* unregisters the region of this node; its device and the class remain.
AddCdev(d) ==
  /\ pc = Cdev[d]
  /\ \/ /\ Take(Cdev[d], Owner(d)) /\ UNCHANGED classes
        /\ IF d \in PerNode
           THEN Assign(at, {Field[d]}) /\ NextNode(Region[d], Continue(d))
           ELSE Goto(Continue(d)) /\ UNCHANGED fields
     \/ /\ Refused /\ Drop({<<Region[d], Owner(d)>>})
        /\ Goto(Continue(d)) /\ UNCHANGED <<fields, classes>>

(***************************************************************************)
(* probe_pl_dma_x86: cdma_dev and its mappings.                            *)
(***************************************************************************)
Mappings == <<"ctl", "config", "desc", "confmem">>

\* What the error path finds to unmap: NULL pointers are passed to iounmap too.
MappedOf(n) == {<<m, n>> : m \in {Mappings[k] : k \in 1..4} \cap fields[n]}

\* A failed allocation jumps to the error path, which follows the NULL pointer.
AllocCdma ==
  /\ pc = "kzalloc"
  /\ \/ Take("cdma", at) /\ Assign(at, {"cdma_dev"}) /\ Stay(Mappings[1]) /\ UNCHANGED classes
     \/ FailTo("oops")

\* The error path unmaps what this node has and keeps the pointers; what the
\* nodes before have stays.
ProbeError ==
  Refused /\ Goto("region_addr") /\ Drop(MappedOf(at)) /\ UNCHANGED <<fields, classes>>

MapRegisters ==
  \E k \in 1..4 :
    /\ pc = Mappings[k]
    /\ \/ /\ Take(Mappings[k], at) /\ Assign(at, {Mappings[k]})
          /\ Stay(IF k < 4 THEN Mappings[k + 1] ELSE "addrmap") /\ UNCHANGED classes
       \/ ProbeError

\* The address map is mapped, written and unmapped again.
SetAddressMap ==
  /\ pc = "addrmap"
  /\ \/ NextNode("kzalloc", "class_pl") /\ UNCHANGED <<held, fields, classes, failed, fault>>
     \/ ProbeError

\* probe_host_dma: host_dma_t, and a channel that is requested and released.
ProbeHostDma ==
  /\ pc = "hostdma"
  /\ \/ Take("host_dma_t", 0) /\ Goto("region_host") /\ UNCHANGED <<fields, classes>>
     \/ Refused /\ held' = held \cup {<<"host_dma_t", 0>>} /\ Goto("loaded")
          /\ UNCHANGED <<fields, classes, fault>>
     \/ FailTo("oops")

(***************************************************************************)
(* pim_dma_exit_x86.                                                       *)
(***************************************************************************)
Unload ==
  /\ pc = "loaded" /\ Goto("disable")
  /\ UNCHANGED <<held, fields, classes, failed, fault>>

\* Reads field F of a node and releases R if it is not NULL.
ReleaseIf(n, F, R) ==
  \/ F \in fields[n] /\ Drop(R)
  \/ F \notin fields[n] /\ UNCHANGED <<held, fault>>
  \/ F \notin fields[n] /\ fault' = TRUE /\ UNCHANGED held

Registered(d, o) == {<<Device[d], o>>, <<Cdev[d], o>>, <<Region[d], o>>}

\* device_destroy of a device that was never made does nothing.
ToRemove(d, o) == Registered(d, o) \ ({<<Device[d], o>>} \ held)

\* destroy_mem_list.
DisableDevice ==
  /\ pc = "disable" /\ Stay("undev_mem")
  /\ Drop({<<"enabled", at>>})
  /\ UNCHANGED <<fields, classes, failed>>

RemoveMemDevice ==
  /\ pc = "undev_mem" /\ Stay("unmap_mem")
  /\ ReleaseIf(at, "mem_class", ToRemove("mem", at))
  /\ UNCHANGED <<fields, classes, failed>>

UnmapMem ==
  /\ pc = "unmap_mem" /\ NextNode("disable", "unclass_mem")
  /\ ReleaseIf(at, "mem_reg", {<<"mem", at>>})
  /\ UNCHANGED <<fields, classes, failed>>

RemoveClass(d, after) ==
  /\ pc = Unclass[d] /\ Goto(after)
  /\ IF d \in classes THEN Drop({<<Class[d], 0>>}) ELSE UNCHANGED <<held, fault>>
  /\ UNCHANGED <<fields, classes, failed>>

\* Mutant: of the mappings of a node config_mem is left.
UnmapRegisters_KeepOne ==
  /\ pc = "unmap_pl" /\ Stay("undev_pl")
  /\ IF "cdma_dev" \in fields[at] THEN Drop(MappedOf(at) \ {<<"confmem", at>>})
                                 ELSE fault' = TRUE /\ UNCHANGED held
  /\ UNCHANGED <<fields, classes, failed>>

\* destroy_dma_list: the registers first, the device that uses them after.  The
\* pointer to the structure is followed without a look at it.
UnmapRegisters ==
  /\ pc = "unmap_pl" /\ Stay("undev_pl")
  /\ IF "cdma_dev" \in fields[at] THEN Drop(MappedOf(at))
                                 ELSE fault' = TRUE /\ UNCHANGED held
  /\ UNCHANGED <<fields, classes, failed>>

RemovePlDevice ==
  /\ pc = "undev_pl" /\ NextNode("unmap_pl", "unclass_pl")
  /\ ReleaseIf(at, "pl_class", ToRemove("pl", at))
  /\ UNCHANGED <<fields, classes, failed>>

\* The host and the address devices: if the class is there, so is the rest.
RemoveSingle(d, after) ==
  /\ pc = Undev[d] /\ Goto(after)
  /\ IF d \in classes THEN Drop(ToRemove(d, 0) \cup {<<Class[d], 0>>})
                      ELSE UNCHANGED <<held, fault>>
  /\ UNCHANGED <<fields, classes, failed>>

Init ==
  /\ pc = "find" /\ at = NumDevices
  /\ held = {} /\ fields = [n \in Node |-> {}] /\ classes = {}
  /\ failed = {} /\ fault = FALSE

Load ==
  \/ FindDevices \/ EnableDevice \/ MapMem \/ AllocCdma \/ MapRegisters \/ SetAddressMap
  \/ ProbeHostDma
  \/ \E d \in Kinds : RegisterClass(d) \/ RegisterRegion(d) \/ RegisterDevice(d) \/ AddCdev(d)

Remove ==
  \/ Unload \/ DisableDevice \/ RemoveMemDevice \/ UnmapMem \/ RemoveClass("mem", "unmap_pl")
  \/ UnmapRegisters \/ RemovePlDevice \/ RemoveClass("pl", "undev_host")
  \/ RemoveSingle("host", "undev_addr") \/ RemoveSingle("addr", "unloaded")

Next == Load \/ Remove

Spec == Init /\ [][Next]_vars

-----------------------------------------------------------------------------
(***************************************************************************)
(* Properties.                                                             *)
(***************************************************************************)
Loading == {"find", "enable", "mapmem", "kzalloc", "addrmap", "hostdma", "loaded", "oops"}
             \cup {Mappings[k] : k \in 1..4}
             \cup UNION {{Class[d], Region[d], Device[d], Cdev[d]} : d \in Kinds}

Unloading == {"disable", "undev_mem", "unmap_mem", "unclass_mem", "unmap_pl", "undev_pl",
              "unclass_pl", "undev_host", "undev_addr", "unloaded"}

\* Type invariant; a loop never runs past its list.
TypeOK ==
  /\ pc \in Loading \cup Unloading
  /\ at \in Node
  /\ \A x \in held : x[2] \in Node \cup {0}
  /\ fields \in [Node -> SUBSET ({"mem_class", "mem_reg", "cdma_dev", "pl_class"}
                                  \cup {Mappings[k] : k \in 1..4})]
  /\ classes \subseteq Kinds
  /\ failed \subseteq Loading \X Node
  /\ fault \in BOOLEAN

\* Until the module is unloaded nothing is released that is not held, whatever
\* has failed: the error paths of the probe and registration functions give
\* back only what they have.
LoadReleasesItsOwn == pc \in Loading => ~fault

\* A memory device that can be opened has its memory mapped, from cdev_add to
\* cdev_del; a PL-DMA device has all registers mapped as long as the module is
\* not being unloaded.  Their handlers use the mappings without a check.
OpenableMeansMapped ==
  \A n \in Node :
    /\ <<"cdev_mem", n>> \in held => <<"mem", n>> \in held
    /\ pc \in Loading /\ <<"cdev_pl", n>> \in held =>
         <<"cdma", n>> \in held /\ \A k \in 1..4 : <<Mappings[k], n>> \in held

\* The failures after which removal still finds what it looks at: a device that
\* could not be created, a region of the address or host device, no channel.
Tolerated == {Device[d] : d \in Kinds} \cup {"region_addr", "region_host", "hostdma"}

\* When nothing failed but what is Tolerated, removal releases what is held and
\* nothing else, all but the structures, which are never freed; and no device
\* outlives its class.
CleanRemoval ==
  (\A x \in failed : x[1] \in Tolerated) =>
    /\ ~fault
    /\ pc = "unloaded" => \A x \in held : x[1] \in {"node", "cdma", "host_dma_t"}
    /\ \A d \in Kinds : (\E n \in Node \cup {0} : <<Device[d], n>> \in held)
                         => <<Class[d], 0>> \in held

==============================================================================
