---------------------------- MODULE MCDbQueries ----------------------------
(* Three calls of DbQueries, so that what one leaves behind meets the next,  *)
(* each with a URI of any kind.                                              *)
EXTENDS DbQueries

\* The URIs of MCSettingsLoader.
MCUris ==
    [matches : BOOLEAN, scheme : {"mysql", "other"}, host : {"address", "digits", "name"},
     port : {{}, {0}, {65535}, {65536}, {100000}}]
=============================================================================
