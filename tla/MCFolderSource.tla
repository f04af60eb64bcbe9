---------------------------- MODULE MCFolderSource ----------------------------
(* Up to three files, one of them an HTML file, and two coroutines at a time. *)
EXTENDS FolderSource
===============================================================================
