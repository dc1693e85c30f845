---------------------------- MODULE QvioScripts ----------------------------
(***************************************************************************)
(* The functions of the qvio driver that acquire or release something, as  *)
(* scripts, and what they acquire.                                         *)
(***************************************************************************)
EXTENDS Naturals, Sequences, Scripts

MsixIrqs == {"irq_h2c", "irq_c2h", "irq_usr0", "irq_usr1"}
Irqs == MsixIrqs \cup {"irq_msi", "irq_line"}
Pci == Irqs \cup {"xdev", "listed", "enabled", "regions", "bar0", "bar1",
                  "config_bar", "dma_mask", "desc_h2c", "desc_c2h",
                  "cyclic_c2h", "msi", "device_id"}
Platform == {"pltdrv", "pltdev_mem", "pltdev"}
Common == {"class", "chrdev", "pcidrv", "self", "cdev", "node", "video",
           "v4l2_dev", "vb2_queue", "vdev", "vnode"}
Resources == Common \cup Pci \cup Platform
Recorded == {"regions", "bar0", "bar1", "desc_h2c", "desc_c2h", "cyclic_c2h",
             "irq_h2c", "irq_c2h", "irq_msi", "irq_line", "msi"}
Sticky == {"irq_h2c", "irq_c2h", "irq_msi", "irq_line"}
Only == [irq_h2c |-> "desc_h2c", irq_c2h |-> "desc_c2h"]
KeptIf == [enabled |-> "regions"]

-----------------------------------------------------------------------------
(* The module and the control device.                                      *)

qvio_cdev_register ==
  Script(<<On("class", "return"), On("chrdev", "class")>>, <<"class">>)
qvio_cdev_unregister == Releases(<<"chrdev", "class">>)

\* Without the platform driver, as module.c is built by default, Platform is
\* absent.
qvio_mod_init_one_label == \* a mutated form: the platform driver stays
  Script(<<On("qvio_cdev_register", "return"),
           On("qvio_device_platform_register", "qvio_cdev_unregister"),
           On("pcidrv", "qvio_cdev_unregister")>>,
         <<"qvio_device_platform_unregister", "qvio_cdev_unregister">>)
qvio_mod_init ==
  Script(<<On("qvio_cdev_register", "return"),
           On("qvio_device_platform_register", "qvio_cdev_unregister"),
           On("pcidrv", "qvio_device_platform_unregister")>>,
         <<"qvio_device_platform_unregister", "qvio_cdev_unregister">>)
qvio_mod_exit ==
  Releases(<<"pcidrv", "qvio_device_platform_unregister",
             "qvio_cdev_unregister">>)

qvio_device_platform_register ==
  Script(<<On("pltdrv", "return"), On("pltdev_mem", "pltdrv"),
           On("pltdev", "pltdev_mem")>>, <<"pltdev_mem", "pltdrv">>)
qvio_device_platform_unregister ==
  Releases(<<"pltdev", "pltdev_mem", "pltdrv">>)

\* err is still 0 when device_create fails.
qvio_cdev_start ==
  Script(<<On("cdev", "return"), Forgetful("node", "cdev")>>, <<"cdev">>)
qvio_cdev_stop == Releases(<<"node", "cdev">>)

-----------------------------------------------------------------------------
(* The video device.                                                       *)

\* err is still 0 when video_device_alloc fails.
qvio_video_start_next_label == \* a mutated form: the video device stays
  Script(<<On("v4l2_dev", "return"), On("vb2_queue", "v4l2_dev"),
           Forgetful("vdev", "v4l2_dev"), On("vnode", "v4l2_dev")>>,
         <<"vdev", "v4l2_dev">>)
qvio_video_start ==
  Script(<<On("v4l2_dev", "return"), On("vb2_queue", "v4l2_dev"),
           Forgetful("vdev", "v4l2_dev"), On("vnode", "vdev")>>,
         <<"vdev", "v4l2_dev">>)
qvio_video_new == Script(<<On("video", "return")>>, << >>)
qvio_video_put == Releases(<<"video">>)
qvio_video_stop == Releases(<<"vnode", "vdev", "v4l2_dev">>)

-----------------------------------------------------------------------------
(* libxdma: BARs, engines, interrupts, the device.                         *)

map_single_bar(bar) == Script(<<On(bar, "return")>>, << >>)
is_config_bar == Script(<<On("config_bar", "return")>>, << >>)
map_bars ==
  Script(<<On("map_single_bar_0", "unmap_bars"),
           On("map_single_bar_1", "unmap_bars"),
           On("is_config_bar", "unmap_bars")>>, <<"unmap_bars">>)
unmap_bars == Releases(<<"bar0", "bar1">>)

\* An engine that cannot be had is left out; the probe goes on with the others.
engine_alloc_resource_h2c ==
  Script(<<On("desc_h2c", "engine_free_resource_h2c")>>,
         <<"engine_free_resource_h2c">>)
engine_alloc_resource_c2h ==
  Script(<<On("desc_c2h", "engine_free_resource_c2h"),
           On("cyclic_c2h", "engine_free_resource_c2h")>>,
         <<"engine_free_resource_c2h">>)
engine_free_resource_h2c == Releases(<<"desc_h2c">>)
engine_free_resource_c2h == Releases(<<"desc_c2h", "cyclic_c2h">>)
engine_init(alloc) == Script(<<On(alloc, "return")>>, << >>)
engine_destroy(free) == Releases(<<free>>)
probe_for_engine(init) == Script(<<On(init, "return")>>, << >>)
probe_engines ==
  Script(<<Regardless("probe_for_engine_h2c"),
           Regardless("probe_for_engine_c2h")>>, << >>)
remove_engines == Releases(<<"engine_destroy_h2c", "engine_destroy_c2h">>)

\* The channel interrupts that were requested are not freed on failure.
irq_msix_channel_setup ==
  Script(<<On("irq_h2c", "return"), On("irq_c2h", "return")>>, << >>)
irq_msix_user_setup ==
  Script(<<On("irq_usr0", "return"), On("irq_usr1", "irq_usr0")>>,
         <<"irq_usr0">>)
irq_msi_setup == Script(<<On("irq_msi", "return")>>, << >>)
irq_legacy_setup == Script(<<On("irq_line", "return")>>, << >>)
irq_setup ==
  Script(<<On("irq_msix_channel_setup", "return"),
           On("irq_msix_user_setup", "return"), On("irq_msi_setup", "return"),
           On("irq_legacy_setup", "return")>>, << >>)
irq_msix_channel_teardown == Releases(<<"irq_h2c", "irq_c2h">>)
irq_msix_user_teardown == Releases(<<"irq_usr0", "irq_usr1">>)
irq_teardown ==
  Releases(<<"irq_msix_channel_teardown", "irq_msix_user_teardown",
             "irq_msi", "irq_line">>)

alloc_dev_instance == Script(<<On("xdev", "return")>>, << >>)
xdev_list_add == Script(<<On("listed", "return")>>, << >>)
xdev_list_remove == Releases(<<"listed">>)
request_regions == Script(<<On("regions", "return")>>, << >>)
set_dma_mask == Script(<<On("dma_mask", "return")>>, << >>)
enable_msi_msix == Script(<<On("msi", "return")>>, << >>)
disable_msi_msix == Releases(<<"msi">>)

OpenSteps ==
  <<On("alloc_dev_instance", "return"), On("xdev_list_add", "xdev"),
    On("enabled", "xdev_list_remove"), On("request_regions", "enabled"),
    On("map_bars", "regions"), On("set_dma_mask", "unmap_bars"),
    On("probe_engines", "unmap_bars"),
    On("enable_msi_msix", "remove_engines"),
    On("irq_setup", "disable_msi_msix")>>
xdma_device_open_next_label == \* a mutated form: a label too early
  Script([OpenSteps EXCEPT ![3] = On("enabled", "enabled")],
         <<"disable_msi_msix", "remove_engines", "unmap_bars", "regions",
           "enabled", "xdev_list_remove", "xdev">>)
xdma_device_open ==
  Script(OpenSteps,
         <<"disable_msi_msix", "remove_engines", "unmap_bars", "regions",
           "enabled", "xdev_list_remove", "xdev">>)

\* A function that takes a handle looks for it on the list of devices first.
CheckHandle(script) == When("listed", script)

xdma_device_close_irqs_late == \* a mutated form: the engines go first
  CheckHandle(
    Releases(<<"remove_engines", "irq_teardown", "disable_msi_msix",
               "unmap_bars", "regions", "enabled", "xdev_list_remove",
               "xdev">>))
xdma_device_close ==
  CheckHandle(
    Releases(<<"irq_teardown", "disable_msi_msix", "remove_engines",
               "unmap_bars", "regions", "enabled", "xdev_list_remove",
               "xdev">>))
xdma_device_offline == CheckHandle(Releases(<<"irq_teardown">>))
xdma_device_online ==
  CheckHandle(Script(<<Regardless("irq_setup")>>, << >>))

-----------------------------------------------------------------------------
(* The drivers.                                                            *)

qvio_device_new == Script(<<On("self", "return")>>, << >>)
qvio_device_put == Releases(<<"self">>)

\* For an unknown device err is what snprintf returned, a positive number,
\* which the driver core takes for success.
pci_probe ==
  Script(<<On("qvio_device_new", "return"),
           On("xdma_device_open", "qvio_device_put"),
           On("qvio_cdev_start", "xdma_device_close"),
           On("qvio_video_new", "qvio_cdev_stop"),
           Forgetful("device_id", "qvio_video_put"),
           On("qvio_video_start", "qvio_video_put")>>,
         <<"qvio_video_put", "qvio_cdev_stop", "xdma_device_close",
           "qvio_device_put">>)
pci_remove ==
  Releases(<<"qvio_video_stop", "qvio_video_put", "qvio_cdev_stop",
             "xdma_device_close", "qvio_device_put">>)

pci_error_detected == Releases(<<"xdma_device_offline", "enabled">>)
pci_slot_reset ==
  Script(<<On("enabled", "return"), Regardless("xdma_device_online")>>, << >>)

platform_probe ==
  Script(<<On("qvio_device_new", "return"),
           On("qvio_cdev_start", "qvio_device_put"),
           On("qvio_video_new", "qvio_cdev_stop"),
           On("qvio_video_start", "qvio_video_put")>>,
         <<"qvio_video_put", "qvio_cdev_stop", "qvio_device_put">>)
platform_remove ==
  Releases(<<"qvio_video_stop", "qvio_video_put", "qvio_cdev_stop",
             "qvio_device_put">>)

Code ==
  [qvio_cdev_register |-> qvio_cdev_register,
   qvio_cdev_unregister |-> qvio_cdev_unregister,
   qvio_mod_init |-> qvio_mod_init, qvio_mod_exit |-> qvio_mod_exit,
   qvio_device_platform_register |-> qvio_device_platform_register,
   qvio_device_platform_unregister |-> qvio_device_platform_unregister,
   qvio_cdev_start |-> qvio_cdev_start, qvio_cdev_stop |-> qvio_cdev_stop,
   qvio_video_start |-> qvio_video_start, qvio_video_stop |-> qvio_video_stop,
   qvio_video_new |-> qvio_video_new, qvio_video_put |-> qvio_video_put,
   qvio_device_new |-> qvio_device_new, qvio_device_put |-> qvio_device_put,
   map_single_bar_0 |-> map_single_bar("bar0"),
   map_single_bar_1 |-> map_single_bar("bar1"),
   is_config_bar |-> is_config_bar,
   map_bars |-> map_bars, unmap_bars |-> unmap_bars,
   engine_alloc_resource_h2c |-> engine_alloc_resource_h2c,
   engine_alloc_resource_c2h |-> engine_alloc_resource_c2h,
   engine_free_resource_h2c |-> engine_free_resource_h2c,
   engine_free_resource_c2h |-> engine_free_resource_c2h,
   engine_init_h2c |-> engine_init("engine_alloc_resource_h2c"),
   engine_init_c2h |-> engine_init("engine_alloc_resource_c2h"),
   engine_destroy_h2c |-> engine_destroy("engine_free_resource_h2c"),
   engine_destroy_c2h |-> engine_destroy("engine_free_resource_c2h"),
   probe_for_engine_h2c |-> probe_for_engine("engine_init_h2c"),
   probe_for_engine_c2h |-> probe_for_engine("engine_init_c2h"),
   probe_engines |-> probe_engines, remove_engines |-> remove_engines,
   irq_msix_channel_setup |-> irq_msix_channel_setup,
   irq_msix_user_setup |-> irq_msix_user_setup,
   irq_msi_setup |-> irq_msi_setup, irq_legacy_setup |-> irq_legacy_setup,
   irq_msix_channel_teardown |-> irq_msix_channel_teardown,
   irq_msix_user_teardown |-> irq_msix_user_teardown,
   irq_setup |-> irq_setup, irq_teardown |-> irq_teardown,
   alloc_dev_instance |-> alloc_dev_instance,
   xdev_list_add |-> xdev_list_add, xdev_list_remove |-> xdev_list_remove,
   request_regions |-> request_regions, set_dma_mask |-> set_dma_mask,
   enable_msi_msix |-> enable_msi_msix, disable_msi_msix |-> disable_msi_msix,
   xdma_device_open |-> xdma_device_open,
   xdma_device_close |-> xdma_device_close,
   xdma_device_offline |-> xdma_device_offline,
   xdma_device_online |-> xdma_device_online,
   pci_probe |-> pci_probe, pci_remove |-> pci_remove,
   pci_error_detected |-> pci_error_detected,
   pci_slot_reset |-> pci_slot_reset,
   platform_probe |-> platform_probe, platform_remove |-> platform_remove]

\* After three refusals a function returns success without what it was to
\* acquire: device_create, video_device_alloc, an unknown device.  No caller of
\* irq_setup frees the other interrupts when one is refused.  A device that a
\* slot reset could not enable is disabled again by remove, and one whose
\* regions somebody else has stays enabled.
Noted ==
  LET quiet == {<<"qvio_cdev_start", "node">>, <<"qvio_video_start", "vdev">>,
                <<"pci_probe", "device_id">>}
      irqs == {"irq_msix_channel_setup", "irq_msix_user_setup",
               "irq_msi_setup", "irq_legacy_setup"} \X Irqs
      reset == <<"pci_slot_reset", "enabled">>
      regions == <<"request_regions", "regions">> IN
  [f \in quiet \cup irqs \cup {reset, regions} |->
     CASE f \in quiet -> "false_success" [] f \in irqs -> "irq"
       [] f = reset -> "slot_reset" [] f = regions -> "regions"]
=============================================================================
