------------------------------- MODULE MCSession -------------------------------
(* An instance of Session for TLC: one setting that the pack has from the start,   *)
(* one that it may not have, and a byte of four values.                            *)
EXTENDS Session, TLC

CONSTANTS r1, r2, r3

Clients == {r1, r2, r3}

ClientSymmetry == Permutations(Clients)

ServiceNames == {"enable_dht", "enable_upnp"}

IntNames == {"download_rate_limit", "upload_rate_limit", "choking_algorithm",
             "out_enc_policy", "in_enc_policy", "allowed_enc_level"}

SettingKinds ==
    [n \in ServiceNames \cup {"prefer_rc4"} |-> "bool"] @@ [n \in IntNames |-> "int"]

LibtorrentDefaults ==
    [n \in ServiceNames |-> TRUE] @@ ("prefer_rc4" :> FALSE) @@ [n \in IntNames |-> 0]

Option(on, down, up, encryption, trackers) ==
    [services |-> on, maxDownloadRate |-> down, maxUploadRate |-> up,
     encryption |-> encryption, trackers |-> trackers]

SomeConfigs ==
    {Option({}, -1, -1, 0, 0),
     Option({"enable_dht"}, 2, -1, 1, 4),
     Option(ServiceNames, -1, 1, 3, 5)}

Numbers == ("50" :> 50) @@ ("0" :> 0)

Query(commands, modes, values) == [commands |-> commands, modes |-> modes, values |-> values]

\* Each ends with a pair that is not reached; a text that is not a number, a name of
\* another kind, one that libtorrent does not know, and lists of different lengths.
SomeQueries ==
    {Query(<<"enable_upnp", "enable_dht">>, <<"bool", "bool">>, <<"true", "true">>),
     Query(<<"enable_upnp", "download_rate_limit", "enable_dht">>, <<"bool", "int", "bool">>,
           <<"false", "50", "true">>),
     Query(<<"download_rate_limit", "enable_dht", "enable_dht">>, <<"int", "int", "bool">>,
           <<"fast", "0", "true">>),
     Query(<<"enable_dth", "enable_dht", "enable_dht">>, <<"bool", "bool", "bool">>,
           <<"true", "true", "true">>),
     Query(<<"enable_dht", "enable_upnp">>, <<"bool">>, <<"true">>)}
================================================================================
