---------------------------- MODULE MCVortexSetup ----------------------------
(* Three designs: two that resolve to different define sets, a third whose  *)
(* tracked inputs differ from the first but resolve to the same one; and a  *)
(* design whose request upstream does not honour.                           *)
EXTENDS VortexSetup

CONSTANTS base, base2, wide, bad, idBase, idWide

MCResolve == [d \in {base, base2, wide, bad} |->
                CASE d = wide -> idWide
                  [] d = bad -> Rejected
                  [] OTHER -> idBase]
=============================================================================
