---------------------------- MODULE DatabaseUri ----------------------------
(* mariadb::parse_database_uri (common/mariadb.cpp) and the validators it     *)
(* calls (common/validation.cpp), for the URIs that Uris lists.  A URI is     *)
(* what the regular expression finds in it; the user, the password and the    *)
(* name of the database are only handed on.                                   *)
EXTENDS Integers

CONSTANTS
    Uris,
    INT_MAX     \* the largest int

\* matches: the regular expression does; host: an address of four groups, another
\* string of digits and dots, or a name; port: the number after the colon, if any.
ASSUME UrisAssumption ==
    /\ Uris \subseteq [matches : BOOLEAN, scheme : {"mysql", "other"},
                       host : {"address", "digits", "name"}, port : SUBSET Nat]
    /\ \A u \in Uris : \A v, w \in u.port : v = w

ASSUME IntAssumption == INT_MAX \in Nat /\ INT_MAX >= 65535

\* A name is looked up each time, and may have no address just now.
validate_ipv4_address(host) ==
    {host = "address"} \cup (IF host = "name" THEN {TRUE} ELSE {})

validate_port_number(port) == port \in 0 .. 65535

\* Lines 308-318: only a mysql URI has a default port; std::stoi throws on a number
\* that is no int, before the number is validated.
Port(u) ==
    IF u.port = {}
    THEN IF u.scheme = "mysql" THEN "accepted" ELSE "refused"
    ELSE IF \E v \in u.port : v > INT_MAX THEN "out_of_range"
    ELSE IF \A v \in u.port : validate_port_number(v) THEN "accepted" ELSE "refused"

\* What parsing u may come to.  The port is looked at after the host.
parse_database_uri(u) ==
    {IF u.matches /\ found THEN Port(u) ELSE "refused" : found \in validate_ipv4_address(u.host)}

=============================================================================
