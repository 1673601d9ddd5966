---------------------------- MODULE PluginNests ----------------------------
(***************************************************************************)
(* Which locks the plugin methods take, and in which nesting: the paths    *)
(* that _lock_resolve gives the lock classes on shared storage, the vm     *)
(* locks of the method wrappers of both plugins, and the component lock    *)
(* that joviandss_cmd and multipath_cmd take per run.                      *)
(***************************************************************************)
EXTENDS Naturals, Sequences

\* Lock paths.  A cluster-scope name is one path for the whole cluster, a
\* node-scope name is one path per node.
VmLock(vmid)   == <<"vm", vmid>>
StorageLock    == <<"storage", "storeid">>
General        == <<"jdssc_general", "cluster">>
Info(node)     == <<"jdssc_info", node>>
Multipath(node) == <<"multipath", node>>

\* Queries (status, list_images, path) take no method lock.
NoNest == <<>>

\* Methods of one volume: the vm lock of the volume's owner, the storage lock
\* when the name gives no owner.
VolumeNest(vmid) == IF vmid = 0 THEN <<StorageLock>> ELSE <<VmLock(vmid)>>

PairNestWrong(src, dst) == <<VmLock(src), VmLock(dst)>>   \* source first

\* Methods of two VMs (rename_volume of the iSCSI plugin, clone_image of the
\* NFS plugin): one lock for one VM, otherwise the lower vmid first.
PairNest(src, dst) ==
  IF src = dst THEN <<VmLock(dst)>>
  ELSE IF src < dst THEN <<VmLock(src), VmLock(dst)>>
  ELSE <<VmLock(dst), VmLock(src)>>

Components(node) == {General, Info(node), Multipath(node)}

\* A method body runs component commands, one component lock per run.
Running(nest, comps) == {Append(nest, c) : c \in comps}
=============================================================================
