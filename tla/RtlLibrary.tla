----------------------------- MODULE RtlLibrary -----------------------------
(***************************************************************************)
(* What the RTLSim setup promises about the simulator library it leaves in *)
(* the build directory, with none of the files, stamps and make runs that  *)
(* keep the promise: there is either no library or one built as a whole    *)
(* from a single build identity, and a library of another identity is      *)
(* never linked over an existing one, it must be cleaned away first.       *)
(***************************************************************************)
CONSTANTS Identity,  \* the build identities a library may have
          Absent     \* no library

VARIABLE library

LibraryInit == library = Absent

Clean == library # Absent /\ library' = Absent

Link == \E id \in Identity : library = Absent /\ library' = id

LibrarySpec == LibraryInit /\ [][Clean \/ Link]_library
=============================================================================
