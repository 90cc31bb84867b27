------------------------------ MODULE Startup ------------------------------
(* options::parse_cmdline as a whole: the command line and its file (Config), *)
(* then, if they enable it, the settings of the database they name            *)
(* (SettingsLoader), whose result is ignored (options.cpp:59-68).             *)
EXTENDS Config, DatabaseUri

CONSTANTS
    Attempts, TableSizes,   \* of SettingsLoader
    UriOf                   \* what each text is as a URI

ASSUME LoaderAssumption == Attempts \in Nat \ {0} /\ TableSizes \subseteq Nat
\* Line 57: the default is the empty string, which is no URI.
ASSUME UriOfAssumption ==
    UriOf \in [Strings \cup {DefaultText} -> Uris] /\ ~UriOf[DefaultText].matches

VARIABLES table, pc, retry, db, item, ret \* of SettingsLoader

loadVars == <<table, pc, retry, db, item, ret>>
startupVars == <<configVars, loadVars>>

settings_enabled == flags[<<"settings", "enabled">>]
settings_database_uri == UriOf[texts[<<"settings", "database">>]]

L == INSTANCE SettingsLoader WITH enabled <- settings_enabled, uri <- settings_database_uri

InitStartup == InitConfig /\ L!Init

Configure == NextConfig /\ UNCHANGED loadVars

\* Lines 63-65.
LoadSettings ==
    /\ stage = "ready"
    /\ settings_enabled
    /\ UNCHANGED configVars
    /\ L!Next

NextStartup == Configure \/ LoadSettings

StartupSpec == InitStartup /\ [][NextStartup]_startupVars

\* Line 67: parse_cmdline has returned.
Started == stage = "ready" /\ (settings_enabled => pc = "done")

-----------------------------------------------------------------------------
(* Properties. *)

StartupTypeOK == ConfigTypeOK /\ L!TypeOK

\* A database is connected to only if the file, read to its end and accepted as a
\* whole, says so and gives its URI itself, and that URI can be one.
OnlyAsTheFileSays ==
    db.sessions > 0 =>
        /\ nest = <<>>
        /\ {<<"settings", "enabled">>, <<"settings", "database">>} \subseteq Given
        /\ doc[<<"settings", "enabled">>].scalar = "true"
        /\ "accepted" \in parse_database_uri(UriOf[doc[<<"settings", "database">>].scalar])
        /\ \A p \in DOMAIN doc : Len(p) = 2 => p[1] \in Parsers

\* A daemon that starts has closed its file.  It has a session if and only if the
\* settings are loaded, and starts without them only after the last attempt.
StartsWhole ==
    Started =>
        /\ file = "closed"
        /\ ret = "true" <=> db.sessions > 0
        /\ settings_enabled /\ ret # "true" => retry = Attempts

=============================================================================
