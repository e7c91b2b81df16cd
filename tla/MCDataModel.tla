---------------------------- MODULE MCDataModel ----------------------------
(* The snapshots of MCGameDataCodec, three of them one after the other. *)
EXTENDS DataModel, MCGameDataCodec
=============================================================================
