---- MODULE MCDownloads ----
(* Two callers; dsh stands for kimi and zcode, whose definitions are the same. *)
EXTENDS Downloads
====
