----------------------------- MODULE MCStartup -----------------------------
(* Files of up to nine events over three sections and four settings; numbers  *)
(* below the -D of the command line and above it, out of range for a port,    *)
(* and negative; a word.  As a URI, each is of another kind.  Two attempts,   *)
(* and a table of one entry.                                                  *)
EXTENDS Startup

KeysByDepth == << {"control", "debug", "settings"},
                  {"enabled", "level", "database", "listen-port"},
                  {"other"} >>
ValuesByDepth == << {"true"}, {"true"}, {"-1", "0", "16", "true"}, {"true"} >>
Order == <<"", "-1", "0", "16", "control", "database", "debug", "enabled", "level",
           "listen-port", "other", "settings", "true">>
Numbers == [s \in {"-1", "0", "16"} |-> CASE s = "-1" -> -1 [] s = "0" -> 0 [] OTHER -> 16]

NoUri == [matches |-> FALSE, scheme |-> "other", host |-> "digits", port |-> {}]
NamedUri == [matches |-> TRUE, scheme |-> "mysql", host |-> "name", port |-> {}]
AddressUri == [NamedUri EXCEPT !.host = "address", !.port = {65535}]
OverflowUri == [AddressUri EXCEPT !.port = {100000}]

MCUris == {NoUri, NamedUri, AddressUri, OverflowUri}
MCUriOf ==
    [s \in Strings \cup {DefaultText} |->
        CASE s = "true" -> AddressUri [] s = "16" -> NamedUri [] s = "-1" -> OverflowUri
          [] OTHER -> NoUri]
MCTableSizes == {1}
=============================================================================
