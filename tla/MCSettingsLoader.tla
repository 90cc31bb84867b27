------------------------- MODULE MCSettingsLoader -------------------------
(* SettingsLoader with the five attempts of the code, for the empty table of *)
(* this commit and for a table of two entries.                               *)
EXTENDS SettingsLoader

MCTableSizes == {0, 2}

\* The URIs of tests/utest-common.cpp:29-111 by kind, and the edges of the port,
\* with an int that ends at 99999, for TLC's own integers are no wider than int.
MCUris ==
    [matches : BOOLEAN, scheme : {"mysql", "other"}, host : {"address", "digits", "name"},
     port : {{}, {0}, {65535}, {65536}, {100000}}]
=============================================================================
