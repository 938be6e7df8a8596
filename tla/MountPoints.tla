---------------------------- MODULE MountPoints ----------------------------
(***************************************************************************)
(* The mount points of the server: the keys of the source registry, of the *)
(* listener manager, of the statistics and of the mount settings.          *)
(***************************************************************************)
CONSTANT Mounts
=============================================================================
