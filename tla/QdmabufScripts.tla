--------------------------- MODULE QdmabufScripts ---------------------------
(***************************************************************************)
(* The functions of the qdmabuf driver that acquire or release something,  *)
(* as scripts, and what they acquire.                                      *)
(***************************************************************************)
EXTENDS Naturals, Sequences, FiniteSets, Scripts

Kinds == {"vmalloc", "dma_sg", "dma_contig"}
Dirs == {"mapped_to", "mapped_from"}
Memory == {"vaddr", "array", "page1", "page2", "table", "mapping",
           "mapping_old", "sgt_base", "sgtable"}
Resources ==
  {"class", "chrdev", "pltdrv", "pltdev_mem", "pltdev", "self", "cdev",
   "node", "buf", "dev_ref", "refcount", "dmabuf", "fd", "attach",
   "attach_table"} \cup Memory \cup Dirs
  \cup {"page", "remap", "copy_in", "copy_out"}

-----------------------------------------------------------------------------
(* The module, its control device and its platform device.                 *)

qdmabuf_cdev_register ==
  Script(<<On("class", "return"), On("chrdev", "class")>>, <<"class">>)
qdmabuf_cdev_unregister == Releases(<<"chrdev", "class">>)

qdmabuf_mod_init ==
  Script(<<On("qdmabuf_cdev_register", "return"),
           On("qdmabuf_device_register", "qdmabuf_cdev_unregister"),
           On("pltdev_mem", "qdmabuf_device_unregister"),
           On("pltdev", "pltdev_mem")>>,
         <<"pltdev_mem", "qdmabuf_device_unregister",
           "qdmabuf_cdev_unregister">>)
qdmabuf_mod_exit ==
  Releases(<<"pltdev", "pltdev_mem", "qdmabuf_device_unregister",
             "qdmabuf_cdev_unregister">>)

qdmabuf_device_register == Script(<<On("pltdrv", "return")>>, << >>)
qdmabuf_device_unregister == Releases(<<"pltdrv">>)

\* err is still 0 when device_create fails.
qdmabuf_cdev_start ==
  Script(<<On("cdev", "return"), Forgetful("node", "cdev")>>, <<"cdev">>)
qdmabuf_cdev_stop == Releases(<<"node", "cdev">>)

qdmabuf_device_new == Script(<<On("self", "return")>>, << >>)
qdmabuf_device_put == Releases(<<"self">>)

probe ==
  Script(<<On("qdmabuf_device_new", "return"),
           On("qdmabuf_cdev_start", "qdmabuf_device_put")>>,
         <<"qdmabuf_device_put">>)
remove == Releases(<<"qdmabuf_cdev_stop", "qdmabuf_device_put">>)

-----------------------------------------------------------------------------
(* Buffers: allocation, and what the last reference frees.                 *)

\* A descriptor that cannot be had puts the dma-buf, which frees the buffer,
\* and goes on to free it.
qdmabuf_dmabuf_alloc_vmalloc ==
  Script(<<On("buf", "return"), On("vaddr", "buf"), Regardless("refcount"),
           On("dmabuf", "vaddr"), On("fd", "dma_buf_put")>>,
         <<"dma_buf_put", "vaddr", "buf">>)

exp_dma_sg_alloc_compacted ==
  Script(<<On("page1", "return"), On("page2", "page1")>>, <<"page1">>)

\* On the older kernels err is still 0 when the mapping fails; on all of them
\* the mapping stays when the export fails.
qdmabuf_dmabuf_alloc_dma_sg ==
  Script(<<On("buf", "return"), On("dev_ref", "buf"), On("array", "dev_ref"),
           On("exp_dma_sg_alloc_compacted", "array"), On("table", "page2"),
           On("mapping", "table"), Forgetful("mapping_old", "table"),
           Regardless("refcount"),
           On("dmabuf", "table"), On("fd", "dma_buf_put")>>,
         <<"dma_buf_put", "table", "page2", "page1", "array", "dev_ref",
           "buf">>)

qdmabuf_dmabuf_alloc_dma_contig ==
  Script(<<On("buf", "return"), On("dev_ref", "buf"), Regardless("refcount"),
           On("vaddr", "dev_ref"), On("sgt_base", "vaddr"),
           On("sgtable", "sgt_base"), On("dmabuf", "sgtable"),
           On("fd", "dma_buf_put")>>,
         <<"dma_buf_put", "sgtable", "sgt_base", "vaddr", "dev_ref", "buf">>)

\* Everything after the reference count is for the last reference.
exp_vmalloc_buffer_put == Releases(<<"refcount", "vaddr", "buf">>)
exp_dma_sg_buffer_put ==
  Releases(<<"refcount", "mapping", "mapping_old", "table", "page2", "page1",
             "array", "dev_ref", "buf">>)
exp_dma_contig_buffer_put ==
  Releases(<<"refcount", "sgtable", "sgt_base", "vaddr", "dev_ref", "buf">>)

exp_vmalloc_dma_buf_release == Releases(<<"exp_vmalloc_buffer_put">>)
exp_dma_sg_dma_buf_release == Releases(<<"exp_dma_sg_buffer_put">>)
exp_dma_contig_dma_buf_release == Releases(<<"exp_dma_contig_buffer_put">>)

\* The kernel's dma-buf: the last reference calls the release of its kind.
dma_buf_put ==
  Releases(<<"dmabuf", "exp_vmalloc_dma_buf_release",
             "exp_dma_sg_dma_buf_release", "exp_dma_contig_dma_buf_release">>)

-----------------------------------------------------------------------------
(* Memory maps.                                                            *)

dmabuf_exp_vm_open_uncounted == Script(<< >>, << >>) \* a mutated form
dmabuf_exp_vm_open == Script(<<Regardless("refcount")>>, << >>)
dmabuf_exp_vm_close ==
  Releases(<<"exp_vmalloc_buffer_put", "exp_dma_sg_buffer_put",
             "exp_dma_contig_buffer_put">>)

exp_vmalloc_mmap ==
  Script(<<On("remap", "return"), On("dmabuf_exp_vm_open", "return")>>, << >>)
exp_dma_sg_mmap ==
  Script(<<On("remap", "return"), On("dmabuf_exp_vm_open", "return")>>, << >>)
exp_dma_contig_mmap ==
  Script(<<On("remap", "return"), On("dmabuf_exp_vm_open", "return")>>, << >>)

\* The kernel: a map keeps the dma-buf, and puts it if the driver refuses.
mmap ==
  Script(<<On("exp_vmalloc_mmap", "dma_buf_put"),
           On("exp_dma_sg_mmap", "dma_buf_put"),
           On("exp_dma_contig_mmap", "dma_buf_put")>>, <<"dma_buf_put">>)
fork == Script(<<On("dmabuf_exp_vm_open", "return")>>, << >>)
munmap == Releases(<<"dmabuf_exp_vm_close", "dma_buf_put">>)

-----------------------------------------------------------------------------
(* Attachments, and the mapping an attachment caches.                      *)

\* A page of the buffer that cannot be found is the last thing to go wrong.
exp_vmalloc_attach ==
  Script(<<On("attach", "return"), On("attach_table", "attach"),
           On("page", "attach_table")>>, <<"attach_table", "attach">>)
exp_dma_sg_attach ==
  Script(<<On("attach", "return"), On("attach_table", "attach")>>, <<"attach">>)
exp_dma_contig_attach ==
  Script(<<On("attach", "return"), On("attach_table", "attach")>>, <<"attach">>)

exp_vmalloc_detach ==
  Releases(<<"mapped_to", "mapped_from", "attach_table", "attach">>)
exp_dma_sg_detach ==
  Releases(<<"mapped_to", "mapped_from", "attach_table", "attach">>)
exp_dma_contig_detach ==
  Releases(<<"mapped_to", "mapped_from", "attach_table", "attach">>)

\* A mapping in the same direction is used again; one in the other direction
\* goes first, and stays gone if the new one fails.
exp_vmalloc_map_dma_buf(dir, other) ==
  Script(<<Drop(other), On(dir, "return")>>, << >>)
exp_dma_sg_map_dma_buf(dir, other) ==
  Script(<<Drop(other), On(dir, "return")>>, << >>)
exp_dma_contig_map_dma_buf(dir, other) ==
  Script(<<Drop(other), On(dir, "return")>>, << >>)

\* The kernel calls the operations of the buffer's kind.
Attach(label) ==
  <<On("exp_vmalloc_attach", label), On("exp_dma_sg_attach", label),
    On("exp_dma_contig_attach", label)>>
MapFrom(label) ==
  <<On("exp_vmalloc_map_from", label), On("exp_dma_sg_map_from", label),
    On("exp_dma_contig_map_from", label)>>
MapTo(label) ==
  <<On("exp_vmalloc_map_to", label), On("exp_dma_sg_map_to", label),
    On("exp_dma_contig_map_to", label)>>
Detach ==
  <<"exp_vmalloc_detach", "exp_dma_sg_detach", "exp_dma_contig_detach">>

\* An importer, and one whose attachment lasts.
import == Script(Attach("dma_buf_put"), <<"dma_buf_put">>)
map_from == Script(MapFrom("return"), << >>)
map_to == Script(MapTo("return"), << >>)
unimport == Releases(Detach \o <<"dma_buf_put">>)

-----------------------------------------------------------------------------
(* The ioctls.                                                             *)

\* When the answer cannot be copied out the descriptor stays.
qdmabuf_ioctl_alloc ==
  Script(<<On("copy_in", "return"),
           On("qdmabuf_dmabuf_alloc_vmalloc", "return"),
           On("qdmabuf_dmabuf_alloc_dma_sg", "return"),
           On("qdmabuf_dmabuf_alloc_dma_contig", "return"),
           On("copy_out", "return")>>, << >>)

\* It begins with dma_buf_get, see Info.
qdmabuf_ioctl_info ==
  Through(Script(Attach("dma_buf_put") \o MapFrom("exp_vmalloc_detach"),
                 Detach \o <<"dma_buf_put">>))

Code ==
  [qdmabuf_cdev_register |-> qdmabuf_cdev_register,
   qdmabuf_cdev_unregister |-> qdmabuf_cdev_unregister,
   qdmabuf_mod_init |-> qdmabuf_mod_init, qdmabuf_mod_exit |-> qdmabuf_mod_exit,
   qdmabuf_device_register |-> qdmabuf_device_register,
   qdmabuf_device_unregister |-> qdmabuf_device_unregister,
   qdmabuf_cdev_start |-> qdmabuf_cdev_start,
   qdmabuf_cdev_stop |-> qdmabuf_cdev_stop,
   qdmabuf_device_new |-> qdmabuf_device_new,
   qdmabuf_device_put |-> qdmabuf_device_put,
   probe |-> probe, remove |-> remove,
   qdmabuf_dmabuf_alloc_vmalloc |-> qdmabuf_dmabuf_alloc_vmalloc,
   exp_dma_sg_alloc_compacted |-> exp_dma_sg_alloc_compacted,
   qdmabuf_dmabuf_alloc_dma_sg |-> qdmabuf_dmabuf_alloc_dma_sg,
   qdmabuf_dmabuf_alloc_dma_contig |-> qdmabuf_dmabuf_alloc_dma_contig,
   exp_vmalloc_buffer_put |-> exp_vmalloc_buffer_put,
   exp_dma_sg_buffer_put |-> exp_dma_sg_buffer_put,
   exp_dma_contig_buffer_put |-> exp_dma_contig_buffer_put,
   exp_vmalloc_dma_buf_release |-> exp_vmalloc_dma_buf_release,
   exp_dma_sg_dma_buf_release |-> exp_dma_sg_dma_buf_release,
   exp_dma_contig_dma_buf_release |-> exp_dma_contig_dma_buf_release,
   dma_buf_put |-> dma_buf_put,
   dmabuf_exp_vm_open |-> dmabuf_exp_vm_open,
   dmabuf_exp_vm_close |-> dmabuf_exp_vm_close,
   exp_vmalloc_mmap |-> exp_vmalloc_mmap, exp_dma_sg_mmap |-> exp_dma_sg_mmap,
   exp_dma_contig_mmap |-> exp_dma_contig_mmap,
   mmap |-> mmap, fork |-> fork, munmap |-> munmap,
   exp_vmalloc_attach |-> exp_vmalloc_attach,
   exp_dma_sg_attach |-> exp_dma_sg_attach,
   exp_dma_contig_attach |-> exp_dma_contig_attach,
   exp_vmalloc_detach |-> exp_vmalloc_detach,
   exp_dma_sg_detach |-> exp_dma_sg_detach,
   exp_dma_contig_detach |-> exp_dma_contig_detach,
   exp_vmalloc_map_from |-> exp_vmalloc_map_dma_buf("mapped_from", "mapped_to"),
   exp_dma_sg_map_from |-> exp_dma_sg_map_dma_buf("mapped_from", "mapped_to"),
   exp_dma_contig_map_from |->
     exp_dma_contig_map_dma_buf("mapped_from", "mapped_to"),
   exp_vmalloc_map_to |-> exp_vmalloc_map_dma_buf("mapped_to", "mapped_from"),
   exp_dma_sg_map_to |-> exp_dma_sg_map_dma_buf("mapped_to", "mapped_from"),
   exp_dma_contig_map_to |->
     exp_dma_contig_map_dma_buf("mapped_to", "mapped_from"),
   import |-> import, map_from |-> map_from, map_to |-> map_to,
   unimport |-> unimport,
   qdmabuf_ioctl_alloc |-> qdmabuf_ioctl_alloc,
   qdmabuf_ioctl_info |-> qdmabuf_ioctl_info]

\* When the descriptor is refused the buffer is freed by the dma-buf's release
\* and once more below the labels; when the export is refused the mapping of
\* a dma_sg buffer stays; without its node a probe still returns success.
Noted ==
  [f \in {<<"qdmabuf_dmabuf_alloc_vmalloc", "fd">>,
          <<"qdmabuf_dmabuf_alloc_dma_sg", "fd">>,
          <<"qdmabuf_dmabuf_alloc_dma_contig", "fd">>,
          <<"qdmabuf_dmabuf_alloc_dma_sg", "dmabuf">>,
          <<"qdmabuf_cdev_start", "node">>} |-> f[2]]
=============================================================================
