---------------------------- MODULE MCUserFiles ----------------------------
(***************************************************************************)
(* An instance of UserFiles: two services, three candidates of which the   *)
(* last has no bytes in the user's locale, and four choices, so that every *)
(* count can overtake another one after it was written.                    *)
(***************************************************************************)
EXTENDS UserFiles

CONSTANTS first, second, third

ListedOf == <<first, second, third>>
UnencodableOf == {third}

=============================================================================
