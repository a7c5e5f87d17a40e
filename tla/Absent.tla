--------------------------------- MODULE Absent ---------------------------------
(***************************************************************************)
(* The value that is none: the modules share it, so that one may extend    *)
(* several of them.                                                        *)
(***************************************************************************)
CONSTANT None  \* null, undefined, an absent key, a nil field
=============================================================================
