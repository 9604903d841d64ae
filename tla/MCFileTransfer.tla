--------------------------- MODULE MCFileTransfer ---------------------------
(***************************************************************************)
(* A file of two chunks, uploaded over up to two connections with two    *)
(* attempts per command, and downloaded once.                              *)
(***************************************************************************)
EXTENDS FileTransfer
OneDownload == {1}
=============================================================================
