--------------------------- MODULE MCImporterSync ---------------------------
(* A location that lists two objects; the second version of the files renames
   an interaction of the location, moves an object out of it and changes one
   object's description. *)
EXTENDS ImporterSync, TLC

CONSTANTS l1, o1, o2

MCData ==
    << l1 :> <<"description">> @@ o1 :> <<"description", "name">> @@ o2 :> <<"name">>,
       l1 :> <<"description">> @@ o1 :> <<"name">> @@ o2 :> <<"name">> >>

MCInteractions ==
    << l1 :> <<"look", "go">> @@ o1 :> <<"read">> @@ o2 :> <<>>,
       l1 :> <<"go", "sing">> @@ o1 :> <<"read">> @@ o2 :> <<>> >>

MCInventory == << l1 :> <<o1, o2>>, l1 :> <<o2>> >>
=============================================================================
