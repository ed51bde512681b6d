----------------------------- MODULE MCLinquUb -----------------------------
(***************************************************************************)
(* LinquUb with rings of three slots over a surface whose runtime queue    *)
(* holds two commands.                                                     *)
(***************************************************************************)
EXTENDS LinquUb

MCServiceDepth == [v \in Services |-> 2]

=============================================================================
