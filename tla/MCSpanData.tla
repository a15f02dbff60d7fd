----------------------------- MODULE MCSpanData -----------------------------
(* SpanData with keys that repeat, hosts that end in a semicolon and uris with *)
(* and without a scheme or a query.                                            *)
EXTENDS SpanData

MCTagLists == {<<Tag("k", "1", TRUE), Tag("k", "2", FALSE)>>,
               <<Tag("j", "1", FALSE), Tag("k", "1", FALSE), Tag("is_external", "0", FALSE)>>}

MCUris == {<<"s", ":", "/", "/", "a", "/">>, <<"b", "a", "?", "u">>,
           <<"b", "?", ":", "/", "/", "a">>}

MCInis == {[none |-> <<>>, empty |-> <<"b">>],
           [none |-> <<"b", ";", "a", "/">>, empty |-> <<"a", ";">>],
           [none |-> <<"b", "a", ";">>, empty |-> <<>>]}
=============================================================================
