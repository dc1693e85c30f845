--------------------------- MODULE QvioLifecycle ---------------------------
(***************************************************************************)
(* The life of the qvio driver: loading, binding to a PCI or to a platform *)
(* device, error recovery, a file of the control device, unbinding and     *)
(* unloading.  Each function that acquires or releases is a script (module *)
(* Unwind).  The driver core runs them one at a time ("admin"); the ioctls *)
(* of an open file run beside them ("user").                               *)
(***************************************************************************)
EXTENDS QvioScripts

CONSTANTS MaxRefusals, \* bound: refusals since no function ran
          MaxSwitches, \* bound: offline and online without care
          MaxHeld      \* bound: the enable count

VARIABLES
  stack, held, known, refused, absent, refusals, failed, over, \* of Unwind
  loaded,   \* the module is loaded
  bound,    \* the driver is bound to the device
  state,    \* what was last asked of the device: online, offline, frozen
  switches, \* offline and online without care, counted for the bound
  file,     \* a file of the control device is open
  careful   \* nobody takes a device offline twice or online twice, removes it
            \* while it is offline or works on it from two sides

Tasks == {"admin", "user"}

U == INSTANCE Unwind WITH
  Checks <- {"config_bar", "dma_mask", "device_id", "vb2_queue"},
  Certain <- {"listed", "video"},
  Exclusive <- MsixIrqs \cup {"irq_msi"},
  Once <- {}, Counted <- {}, Inner <- {},
  Owner <- "xdev",
  Noted <- Noted,
  reliable <- ~careful \* to keep the runs with two threads small

-----------------------------------------------------------------------------
(* The machine.                                                            *)

\* What a machine may lack: one of the two kinds of device, the interrupt
\* kinds it does not use, the result ring of an engine that does not stream.
Machines ==
  {Platform \cup x : x \in
     {{"irq_line", "irq_msi"}, {"irq_line", "irq_msi", "cyclic_c2h"},
      MsixIrqs \cup {"irq_line"}, MsixIrqs \cup {"irq_msi", "msi"}}}
  \cup {Pci}
IsPci == "pltdrv" \in absent

vars == <<stack, held, known, refused, absent, refusals, failed, over, loaded,
          bound, state, switches, file, careful>>
userVars == <<loaded, bound, state, switches, file, absent, careful>>

Init ==
  /\ absent \in Machines /\ careful \in BOOLEAN
  /\ stack = [t \in Tasks |-> << >>]
  /\ held = [r \in Resources |-> 0]
  /\ known = {} /\ refused = {} /\ failed = {} /\ over = {} /\ refusals = 0
  /\ loaded = FALSE /\ bound = FALSE /\ state = "online" /\ file = FALSE
  /\ switches = 0

Quiet == U!Idle("admin") /\ (careful => U!Idle("user"))
Begin(t, p) ==
  /\ U!Begin(t, p)
  /\ UNCHANGED <<held, known, refused, failed, over, absent, careful>>

Insmod ==
  /\ Quiet /\ ~loaded
  /\ Begin("admin", "qvio_mod_init")
  /\ UNCHANGED <<loaded, bound, state, file, switches>>

\* The kernel holds a module while one of its files is open, and the driver
\* core unbinds the devices of a driver that goes.
Rmmod ==
  /\ Quiet /\ loaded /\ ~bound /\ ~file /\ U!Idle("user")
  /\ Begin("admin", "qvio_mod_exit")
  /\ loaded' = FALSE
  /\ UNCHANGED <<bound, state, file, switches>>

Bind ==
  /\ Quiet /\ loaded /\ ~bound
  /\ held["enabled"] < MaxHeld /\ over = {}
  /\ Begin("admin", IF IsPci THEN "pci_probe" ELSE "platform_probe")
  /\ state' = "online"
  /\ UNCHANGED <<loaded, bound, file, switches>>

\* A device that goes while a file is open leaves the file a pointer to freed
\* memory, and the model does not follow it there.
Unbind ==
  /\ Quiet /\ bound /\ ~file
  /\ careful => state = "online"
  /\ Begin("admin", IF IsPci THEN "pci_remove" ELSE "platform_remove")
  /\ UNCHANGED <<loaded, bound, state, file, switches>>

\* What each function leaves, and what it follows when all is in order.
After == [xdma_device_offline |-> "offline", pci_error_detected |-> "frozen",
          xdma_device_online |-> "online", pci_slot_reset |-> "online"]
Follows == [xdma_device_offline |-> "online", pci_error_detected |-> "online",
            xdma_device_online |-> "offline", pci_slot_reset |-> "frozen"]

\* The device goes offline or comes online: at the request of the PCI error
\* handling and of a reset (admin), or by an ioctl (user).
Switch(t, p) ==
  /\ IF t = "admin" THEN Quiet /\ bound ELSE file
  /\ careful => /\ U!Idle("admin") /\ U!Idle("user")
                /\ state = Follows[p]
  /\ careful \/ switches < MaxSwitches
  /\ switches' = IF careful THEN 0 ELSE switches + 1
  /\ Begin(t, p)
  /\ state' = After[p]
  /\ UNCHANGED <<loaded, bound, file>>

OpenFile ==
  /\ ~file /\ bound /\ held["node"] > 0 /\ U!Idle("admin")
  /\ file' = TRUE
  /\ UNCHANGED <<stack, held, known, refused, absent, refusals, failed,
                 over, loaded, bound, state, switches, careful>>

CloseFile ==
  /\ file /\ U!Idle("user")
  /\ file' = FALSE
  /\ UNCHANGED <<stack, held, known, refused, absent, refusals, failed,
                 over, loaded, bound, state, switches, careful>>

\* The driver core looks at what the outermost function returned.
RunAdmin ==
  /\ U!Run("admin")
  /\ LET leaves(p, result) == U!Leaves("admin", result)
                                 /\ U!Top("admin").proc \in p
         probes == {"pci_probe", "platform_probe"}
         removes == {"pci_remove", "platform_remove"} IN
       /\ loaded' = (loaded \/ leaves({"qvio_mod_init"}, "ok"))
       /\ bound' = ((bound \/ leaves(probes, "ok"))
                       /\ ~leaves(removes, "ok"))
  /\ UNCHANGED <<state, file, switches, absent, careful>>

RunUser == U!Run("user") /\ UNCHANGED userVars

Next ==
  \/ Insmod \/ Rmmod \/ Bind \/ Unbind
  \/ \E p \in DOMAIN After : IsPci /\ Switch("admin", p)
  \/ \E p \in {"xdma_device_offline", "xdma_device_online"} :
       IsPci /\ Switch("user", p)
  \/ OpenFile \/ CloseFile
  \/ RunAdmin \/ RunUser

Spec == Init /\ [][Next]_vars

-----------------------------------------------------------------------------
(* Properties.                                                             *)

TypeOK ==
  /\ \A t \in Tasks : \A i \in DOMAIN stack[t] :
       /\ stack[t][i].proc \in DOMAIN Code
       /\ stack[t][i].phase \in {"get", "put"}
       /\ LET f == stack[t][i] IN f.at \in 1 .. Len(Code[f.proc][f.phase]) + 1
  /\ held \in [Resources -> 0 .. MaxHeld + MaxSwitches]
  /\ switches \in 0 .. MaxSwitches
  /\ known \subseteq Resources /\ refused \subseteq Resources
  /\ over \subseteq Resources
  /\ loaded \in BOOLEAN /\ bound \in BOOLEAN
  /\ state \in {"online", "offline", "frozen"}
  /\ file \in BOOLEAN /\ careful \in BOOLEAN

\* What is released was held: with a careful administrator and none of the
\* refusals above, no path through the labels and no sequence of binding,
\* recovery and unbinding releases anything twice.
ReleasedOnce ==
  careful /\ failed \subseteq {"regions"}
  => over = {}

\* However carelessly, and from two threads at once, a device is taken offline
\* and online or unbound while offline, the harm is confined to interrupts and
\* the enable count: nothing else is released twice or left behind.
HarmContained ==
  "false_success" \notin failed =>
    /\ over \subseteq Irqs \cup {"enabled"}
    /\ ~loaded /\ U!Idle("admin") /\ U!Idle("user") =>
         \A r \in Resources \ (Irqs \cup {"enabled"}) : held[r] = 0

\* What a resource needs while it is held.
Needs ==
  [chrdev |-> {"class"}, cdev |-> {"chrdev", "self"}, node |-> {"cdev"},
   listed |-> {"xdev"}, bar0 |-> {"xdev"}, bar1 |-> {"xdev"},
   regions |-> {"xdev"}, desc_h2c |-> {"bar1"}, desc_c2h |-> {"bar1"},
   msi |-> {"xdev"},
   irq_h2c |-> {"desc_h2c", "msi", "bar1"},
   irq_c2h |-> {"desc_c2h", "msi", "bar1"},
   irq_usr0 |-> {"msi", "bar1"}, irq_usr1 |-> {"msi", "bar1"},
   irq_msi |-> {"xdev", "msi", "bar1"}, irq_line |-> {"xdev", "bar1"},
   video |-> {"self"}, v4l2_dev |-> {"video"},
   vnode |-> {"vdev", "v4l2_dev", "video"}, pltdev |-> {"pltdrv"},
   self |-> {"class"}]

\* Nothing outlives what it uses: no interrupt handler without its engine and
\* its registers, no device node without its device.
NothingOutlives ==
  "irq" \notin failed /\ careful =>
    \A r \in DOMAIN Needs : held[r] > 0 =>
      \A n \in Needs[r] : held[n] > 0 \/ n \in absent

\* When the module is gone so is everything it acquired, but for the enable
\* count of a device whose regions somebody else had, and the interrupts that
\* were requested before another one was refused.
NothingLeft ==
  ~loaded /\ U!Idle("admin") /\ U!Idle("user") /\ careful
    /\ "false_success" \notin failed =>
    \A r \in Resources : held[r] > 0 =>
      \/ r = "enabled" /\ "regions" \in failed
      \/ r \in Irqs /\ "irq" \in failed

\* A probe that returns leaves a complete device bound or nothing at all.
AllOrNothing ==
  U!Idle("admin") /\ "false_success" \notin failed =>
    \A r \in {"self", "cdev", "node", "video", "v4l2_dev", "vdev", "vnode"} :
      (held[r] > 0) <=> bound
=============================================================================
