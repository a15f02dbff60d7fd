---------------------------- MODULE ExternalUri ----------------------------
(***************************************************************************)
(* How startExternalTracing decides about an uri: what it strips from it,  *)
(* and the lists of hosts in the ini settings.  Texts are sequences of     *)
(* letters.                                                                *)
(***************************************************************************)
EXTENDS Integers, SequencesExt

\* find(c, from): the first position from which t goes on with c, or 0.
Found(t, c, from) == {i \in from .. Len(t) : IsPrefix(c, SubSeq(t, i, Len(t)))}
Find(t, c, from) ==
    IF Found(t, c, from) = {} THEN 0
    ELSE CHOOSE i \in Found(t, c, from) : \A j \in Found(t, c, from) : i <= j

removeSchemeFromUri(uri) ==
    LET pos == Find(uri, <<":", "/", "/">>, 1)
    IN IF pos = 0 THEN uri ELSE SubSeq(uri, pos + 3, Len(uri))

removeParamsQueryFromUri(uri) ==
    LET pos == Find(uri, <<"?">>, 1)
    IN IF pos = 0 THEN uri ELSE SubSeq(uri, 1, pos - 1)

Stripped(uri) == removeParamsQueryFromUri(removeSchemeFromUri(uri))

parseHostsWithoutLast(hosts) ==   \* mutant: what follows the last ';' is no host
    LET from[i \in 1 .. Len(hosts) + 1] ==
            LET pos == Find(hosts, <<";">>, i)
            IN IF pos = 0 THEN <<>>
               ELSE <<SubSeq(hosts, i, pos - 1)>> \o from[pos + 1]
    IN IF hosts = <<>> THEN <<>> ELSE from[1]

\* The hosts between the semicolons; an empty setting has none.
parseHostsStr(hosts) ==
    LET from[i \in 1 .. Len(hosts) + 1] ==
            LET pos == Find(hosts, <<";">>, i)
            IN IF pos = 0 THEN <<SubSeq(hosts, i, Len(hosts))>>
               ELSE <<SubSeq(hosts, i, pos - 1)>> \o from[pos + 1]
    IN IF hosts = <<>> THEN <<>> ELSE from[1]

hostsFilterPassed(uri, filtered) == \A i \in DOMAIN filtered : ~IsPrefix(filtered[i], uri)
=============================================================================
