-------------------------- MODULE QdmabufLifecycle --------------------------
(***************************************************************************)
(* The qdmabuf driver: loading and binding, a buffer that is allocated,    *)
(* exported, mapped by processes and attached by importers, and the        *)
(* references that decide when its memory goes.  The functions are scripts *)
(* (module Unwind).  Three tasks run them: the driver core ("admin"), a    *)
(* process that calls the ioctls or an importer ("app"), and one that maps *)
(* the buffer and closes its descriptor ("other").                         *)
(***************************************************************************)
EXTENDS QdmabufScripts

CONSTANTS MaxRefusals, \* bound: refusals since no function ran
          MaxVmas      \* bound: memory maps of the buffer

VARIABLES
  stack, held, known, refused, absent, refusals, failed, over, \* of Unwind
  kind,   \* the type of buffer that is allocated: vmalloc, dma_sg, dma_contig
  loaded, \* the module is loaded
  bound,  \* the driver is bound to the platform device
  vmas    \* the maps of the buffer

Tasks == {"admin", "app", "other"}

U == INSTANCE Unwind WITH
  Recorded <- Dirs, \* attach->dma_dir
  Once <- Dirs,
  Sticky <- {},
  Exclusive <- {},
  Checks <- {"page", "remap", "copy_in", "copy_out"},
  \* A device that cannot be allocated is used all the same (device.c:91).
  Certain <- {"refcount", "self"},
  Counted <- {"refcount", "dmabuf"},
  Inner <- {"refcount"},
  Owner <- "buf",
  Only <- << >>,
  KeptIf <- << >>,
  Noted <- Noted,
  reliable <- FALSE

-----------------------------------------------------------------------------
(* The machine.                                                            *)

\* The functions of each kind of buffer.
Of ==
  [vmalloc |->
     {"qdmabuf_dmabuf_alloc_vmalloc", "exp_vmalloc_buffer_put",
      "exp_vmalloc_dma_buf_release", "exp_vmalloc_mmap", "exp_vmalloc_attach",
      "exp_vmalloc_detach", "exp_vmalloc_map_from", "exp_vmalloc_map_to"},
   dma_sg |->
     {"qdmabuf_dmabuf_alloc_dma_sg", "exp_dma_sg_buffer_put",
      "exp_dma_sg_dma_buf_release", "exp_dma_sg_mmap", "exp_dma_sg_attach",
      "exp_dma_sg_detach", "exp_dma_sg_map_from", "exp_dma_sg_map_to"},
   dma_contig |->
     {"qdmabuf_dmabuf_alloc_dma_contig", "exp_dma_contig_buffer_put",
      "exp_dma_contig_dma_buf_release", "exp_dma_contig_mmap",
      "exp_dma_contig_attach", "exp_dma_contig_detach",
      "exp_dma_contig_map_from", "exp_dma_contig_map_to"}]

vars == <<stack, held, known, refused, absent, refusals, failed, over, kind, loaded,
          bound, vmas>>

\* An older kernel maps the pages of a dma_sg buffer with dma_map_sg_attrs, a
\* newer one with dma_map_sgtable.
Init ==
  /\ kind \in Kinds
  /\ \E kernel \in {{"mapping"}, {"mapping_old"}} :
       absent = kernel \cup UNION {Of[k] : k \in Kinds \ {kind}}
  /\ stack = [t \in Tasks |-> << >>]
  /\ held = [r \in Resources |-> 0]
  /\ known = {} /\ refused = {} /\ failed = {} /\ over = {} /\ refusals = 0
  /\ loaded = FALSE /\ bound = FALSE /\ vmas = 0

Quiet == \A t \in Tasks : U!Idle(t)
\* The kernel keeps a module whose files, dma-bufs among them, are in use.
Unused == Quiet /\ held["dmabuf"] = 0
Imported == held["attach"] > 0
Begin(t, p) ==
  /\ U!Begin(t, p) /\ (t # "admin" => U!Idle("admin"))
  /\ UNCHANGED <<known, refused, failed, over, kind, absent>>
\* dma_buf_get, or the file of a map: a descriptor is looked up and its
\* dma-buf referenced at once.
BeginWithRef(t, p) ==
  /\ held["fd"] > 0
  /\ held' = [held EXCEPT !["dmabuf"] = @ + 1]
  /\ Begin(t, p)

Insmod ==
  /\ Unused /\ ~loaded /\ Begin("admin", "qdmabuf_mod_init")
  /\ UNCHANGED <<held, loaded, bound, vmas>>
Rmmod ==
  /\ Unused /\ loaded /\ ~bound
  /\ Begin("admin", "qdmabuf_mod_exit")
  /\ loaded' = FALSE
  /\ UNCHANGED <<held, bound, vmas>>
Bind ==
  /\ Quiet /\ loaded /\ ~bound /\ Begin("admin", "probe")
  /\ UNCHANGED <<held, loaded, bound, vmas>>
\* A file of the control device is only open during an ioctl here.
Unbind ==
  /\ Quiet /\ bound /\ Begin("admin", "remove")
  /\ UNCHANGED <<held, loaded, bound, vmas>>

\* One buffer at a time.
Alloc ==
  /\ held["node"] > 0 /\ Unused /\ over = {}
  /\ \A r \in Memory : held[r] = 0
  /\ Begin("app", "qdmabuf_ioctl_alloc")
  /\ UNCHANGED <<held, loaded, bound, vmas>>
Info ==
  /\ held["node"] > 0 /\ ~Imported
  /\ BeginWithRef("app", "qdmabuf_ioctl_info")
  /\ UNCHANGED <<loaded, bound, vmas>>
Import ==
  /\ ~Imported /\ BeginWithRef("app", "import")
  /\ UNCHANGED <<loaded, bound, vmas>>
WhileImported ==
  /\ Imported /\ \E p \in {"map_from", "map_to", "unimport"} : Begin("app", p)
  /\ UNCHANGED <<held, loaded, bound, vmas>>

Close ==
  /\ held["fd"] > 0 /\ Begin("other", "dma_buf_put")
  /\ held' = [held EXCEPT !["fd"] = @ - 1]
  /\ UNCHANGED <<loaded, bound, vmas>>
Mmap ==
  /\ vmas < MaxVmas /\ BeginWithRef("other", "mmap")
  /\ UNCHANGED <<loaded, bound, vmas>>
Fork ==
  /\ vmas \in 1 .. MaxVmas - 1 /\ Begin("other", "fork")
  /\ held' = [held EXCEPT !["dmabuf"] = @ + 1]
  /\ UNCHANGED <<loaded, bound, vmas>>
Munmap ==
  /\ vmas > 0 /\ Begin("other", "munmap")
  /\ vmas' = vmas - 1
  /\ UNCHANGED <<held, loaded, bound>>

RunAdmin ==
  /\ U!Run("admin")
  /\ LET leaves(p, result) == U!Leaves("admin", result)
                                 /\ U!Top("admin").proc = p IN
       /\ loaded' = (loaded \/ leaves("qdmabuf_mod_init", "ok"))
       /\ bound' = ((bound \/ leaves("probe", "ok")) /\ ~leaves("remove", "ok"))
  /\ UNCHANGED <<vmas, absent, kind>>
RunApp == U!Run("app") /\ UNCHANGED <<loaded, bound, vmas, absent, kind>>
RunOther ==
  /\ U!Run("other")
  /\ vmas' = IF U!Leaves("other", "ok") /\ U!Top("other").proc \in {"mmap", "fork"}
               THEN vmas + 1 ELSE vmas
  /\ UNCHANGED <<loaded, bound, absent, kind>>

Next ==
  \/ Insmod \/ Rmmod \/ Bind \/ Unbind
  \/ Alloc \/ Info \/ Import \/ WhileImported
  \/ Close \/ Mmap \/ Fork \/ Munmap
  \/ RunAdmin \/ RunApp \/ RunOther

Spec == Init /\ [][Next]_vars

-----------------------------------------------------------------------------
(* Properties.                                                             *)

TypeOK ==
  /\ \A t \in Tasks : \A i \in DOMAIN stack[t] : stack[t][i].proc \in DOMAIN Code
  /\ held \in [Resources -> 0 .. MaxVmas + 3]
  /\ known \subseteq Dirs /\ refused = {} /\ over \subseteq Resources
  /\ kind \in Kinds /\ vmas \in 0 .. MaxVmas
  /\ loaded \in BOOLEAN /\ bound \in BOOLEAN

\* Unless a descriptor or a node was refused nothing is released twice,
\* however the ioctls, the importer and the maps are interleaved.
ReleasedOnce == failed \cap {"fd", "node"} = {} => over = {}

\* A buffer and its memory stay while a process has mapped it, an importer is
\* attached to it or a descriptor refers to it.
BufferWhileUsed ==
  vmas > 0 \/ held["attach"] > 0 \/ held["fd"] > 0 =>
    /\ held["buf"] > 0 /\ held["dmabuf"] > 0 /\ held["refcount"] > 0
    /\ kind # "dma_sg" => held["vaddr"] > 0
    /\ kind = "dma_sg" => held["page1"] > 0 /\ held["page2"] > 0
    /\ kind # "vmalloc" => held["dev_ref"] > 0

\* An attachment caches at most one mapping, and none outlives it.
OneMapping ==
  held["mapped_to"] + held["mapped_from"] <= held["attach_table"]

\* When nobody uses the buffer any more all of it is gone, but for the mapping
\* of a dma_sg buffer that could not be exported; and when the module is gone
\* so is everything else.
NothingLeft ==
  /\ Unused /\ vmas = 0 =>
       \A r \in Memory \cup Dirs \cup {"buf", "dev_ref", "refcount", "attach",
                                       "attach_table", "fd"} :
         held[r] > 0 => /\ r \in {"mapping", "mapping_old"}
                        /\ "dmabuf" \in failed
  /\ Unused /\ ~loaded /\ "node" \notin failed =>
       \A r \in {"class", "chrdev", "pltdrv", "pltdev_mem", "pltdev", "self",
                 "cdev", "node"} : held[r] = 0
=============================================================================
