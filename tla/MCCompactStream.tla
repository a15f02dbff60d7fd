-------------------------- MODULE MCCompactStream --------------------------
(* CompactStream with the values and sizes at which an encoding changes. *)
EXTENDS CompactStream

\* 1 to 16 is a difference of 15, 1 to 17 one of 16; 16 to 1 goes back.
MCFieldIds == {1, 16, 17}
MCValuesOf ==
    [t \in Scalar |-> CASE t = "BOOL"   -> {<<0>>, <<1>>}
                        [] t = "BYTE"   -> {<<-1>>}
                        [] t = "I16"    -> {<<64>>}
                        [] t = "I32"    -> {<<-64>>}
                        [] t = "I64"    -> {<<-65>>}
                        [] t = "DOUBLE" -> {<<0, 0, 0, 0, 0, 0, 240, 63>>}
                        [] t = "STRING" -> {<<>>, <<104, 0>>}]
MCFieldTypes == {"BOOL", "I64", "LIST", "MAP", "STRUCT"}
MCCollections == {<<"I32", 14>>, <<"BYTE", 15>>, <<"BOOL", 2>>, <<"STRUCT", 1>>, <<"STRING", 1>>}
MCMaps == {<<"I16", "BOOL", 1>>, <<"DOUBLE", "STRUCT", 0>>, <<"DOUBLE", "SET", 1>>}
=============================================================================
