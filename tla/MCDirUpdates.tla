---------------------------- MODULE MCDirUpdates ----------------------------
(* A short and a long name; a directory that both fill. *)
EXTENDS DirUpdates, TLC

CONSTANTS a, b

MCLength == a :> 1 @@ b :> 2
AllButTruncate == Operations \ {"truncate"}
MCPrograms == {AllButTruncate, {"create", "append", "truncate", "flush"}}
=============================================================================
