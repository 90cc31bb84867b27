------------------------------- MODULE Config -------------------------------
(* How the daemon is configured: the options of the command line are taken   *)
(* one by one (options::parse_cmdline with the macros of cmdline.hpp), then  *)
(* the file of the last --config is loaded (YamlLoader), and its settings    *)
(* are applied one by one, in the order of their keys                        *)
(* (node::load_file_with_fmap and the parsers of options::parse_config).     *)
(* Whatever goes wrong ends in exit(1).  Startup has what comes next.        *)
EXTENDS YamlLoader

CONSTANTS
    KeyOrder,      \* the strings a file has, sorted
    IntegerOf,     \* std::stoi of those that are numbers in the range of int
    WordSize,      \* unsigned int: 2^32
    PortSize,      \* uint16_t: 2^16
    MaxOptions     \* options on the command line

ASSUME SizesAssumption == PortSize \in Nat \ {0, 1} /\ WordSize \in Nat /\ PortSize < WordSize
ASSUME OptionsAssumption == MaxOptions \in Nat /\ MaxOptions < WordSize
ASSUME OrderAssumption ==
    /\ KeyOrder \in Seq(STRING)
    /\ \A s \in Strings : \E i \in 1 .. Len(KeyOrder) : KeyOrder[i] = s
ASSUME IntegersAssumption == \A s \in DOMAIN IntegerOf : IntegerOf[s] \in Int

VARIABLES
    stage,         \* control of parse_cmdline
    options,       \* options taken so far
    debugFlags,    \* of them: --debug
    config,        \* config_filename is set
    todo,          \* settings of the file still to apply
    debug_level,
    listen_port,   \* options::control_listen_port
    flags,         \* the other options, by section and key: booleans
    texts          \* and strings

optionVars == <<stage, options, debugFlags, config, todo>>
settingVars == <<debug_level, listen_port, flags, texts>>
configVars == <<yamlVars, optionVars, settingVars>>

\* The keys of yaml_settings, and what their functions look for (lines 72-138
\* of options.cpp, DEBUG_COMMON_ENUM of yaml.hpp).
Parsers == {"debug", "control", "paths", "settings"}
Level == <<"debug", "level">>
ListenPort == <<"control", "listen-port">>
Flags == {<<"control", "enabled">>, <<"control", "allow-cors">>, <<"settings", "enabled">>}
Texts == {<<"control", "listen-address">>, <<"paths", "prefix">>, <<"settings", "database">>}
Known == {Level, ListenPort} \cup Flags \cup Texts

\* Lines 48-57, but for the numbers, which are scaled.
DefaultText == "default"
DefaultPort == 1

InitConfig ==
    /\ InitLoader
    /\ stage = "options"
    /\ options = 0
    /\ debugFlags = 0
    /\ config = FALSE
    /\ todo = {}
    /\ debug_level = 0
    /\ listen_port = DefaultPort
    /\ flags = [f \in Flags |-> FALSE]
    /\ texts = [t \in Texts |-> DefaultText]

-----------------------------------------------------------------------------
(* parse_cmdline. *)

TakeOption ==
    /\ stage = "options"
    /\ options < MaxOptions
    /\ options' = options + 1

\* -D.
Debug ==
    /\ TakeOption
    /\ debugFlags' = debugFlags + 1
    /\ debug_level' = (debug_level + 1) % WordSize
    /\ UNCHANGED <<yamlVars, stage, config, todo, listen_port, flags, texts>>

\* -c: the last one counts.
GiveConfig ==
    /\ TakeOption
    /\ config' = TRUE
    /\ UNCHANGED <<yamlVars, stage, debugFlags, todo, settingVars>>

\* -H exits with 0, an option that is not known with 1.
Leave ==
    /\ TakeOption
    /\ stage' \in {"exit_0", "exit_1"}
    /\ UNCHANGED <<yamlVars, debugFlags, config, todo, settingVars>>

\* PARSER_END.
OptionsEnd ==
    /\ stage = "options"
    /\ stage' = IF config THEN "loading" ELSE "ready"
    /\ UNCHANGED <<yamlVars, options, debugFlags, config, todo, settingVars>>

-----------------------------------------------------------------------------
(* load_file_with_fmap. *)

Load ==
    /\ stage = "loading"
    /\ Open \/ OpenFails \/ NextLoader
    /\ UNCHANGED <<optionVars, settingVars>>

\* What is looked at in a section: the entries of a mapping that have a value,
\* nothing in a scalar, or else the section itself, under its own key.
Visits ==
    {p \in DOMAIN doc : Len(p) = 2 /\ doc[<<p[1]>>] = Mapping /\ doc[p] # Empty}
    \cup {<<p[1], p[1]>> : p \in {q \in DOMAIN doc : Len(q) = 1 /\ doc[q] \in {Sequence, Empty}}}

\* yaml.cpp, line 238: the root is no mapping unless the file is.
StartApplying ==
    /\ stage = "loading"
    /\ loader = "loaded"
    /\ doc[<<>>] = Mapping
    /\ stage' = "applying"
    /\ todo' = Visits
    /\ UNCHANGED <<yamlVars, options, debugFlags, config, settingVars>>

LoadFailsTo(next) ==
    /\ stage = "loading"
    /\ loader = "threw" \/ (loader = "loaded" /\ doc[<<>>] # Mapping)
    /\ stage' = next
    /\ UNCHANGED <<yamlVars, options, debugFlags, config, todo, settingVars>>

\* Fault: the daemon does without its file.
LoadFailsOn == LoadFailsTo("ready")
\* Whatever load_file threw, the daemon exits.
LoadFails == LoadFailsTo("exit_1")

\* Map order.
Rank(k) == CHOOSE i \in DOMAIN KeyOrder : KeyOrder[i] = k
Before(s, t) == Rank(s[1]) < Rank(t[1]) \/ (s[1] = t[1] /\ Rank(s[2]) < Rank(t[2]))

Visited(s) == stage = "applying" /\ s \in todo /\ \A t \in todo : ~Before(t, s)
\* The node the parser is given: the entry, or a section that is no mapping.
Value(s) == IF doc[<<s[1]>>] = Mapping THEN doc[s] ELSE doc[<<s[1]>>]
Taken(s) == Visited(s) /\ s[1] \in Parsers /\ todo' = todo \ {s}
TakenScalar(s) == Taken(s) /\ Value(s).type = "scalar"

\* as_integer: an int that becomes unsigned.
IsInteger(s) == Value(s).scalar \in DOMAIN IntegerOf
Unsigned(s) == IntegerOf[Value(s).scalar] % WordSize

ApplyLevelAs(s, level) ==
    /\ TakenScalar(s)
    /\ s = Level
    /\ IsInteger(s)
    /\ debug_level' = level
    /\ UNCHANGED <<yamlVars, stage, options, debugFlags, config, listen_port, flags, texts>>

\* Fault: the file has the last word.
ApplyLevelAlways(s) == ApplyLevelAs(s, Unsigned(s))
\* yaml.hpp, lines 37-42.
ApplyLevel(s) == ApplyLevelAs(s, IF Unsigned(s) > debug_level THEN Unsigned(s) ELSE debug_level)

\* validate_port_number.
ValidPort(p) == p >= 0 /\ p < PortSize

ApplyPortAs(s, port) ==
    /\ TakenScalar(s)
    /\ s = ListenPort
    /\ IsInteger(s)
    /\ listen_port' = port
    /\ stage' = IF ValidPort(port) THEN stage ELSE "exit_1"
    /\ UNCHANGED <<yamlVars, options, debugFlags, config, debug_level, flags, texts>>

\* Fault: the port is not cut.
ApplyPortWide(s) == ApplyPortAs(s, Unsigned(s))
\* Lines 83-88: the port is cut to 16 bits, stored, and then validated.
ApplyPort(s) == ApplyPortAs(s, Unsigned(s) % PortSize)

ApplyFlagIf(s, words) ==
    /\ TakenScalar(s)
    /\ s \in Flags
    /\ flags' = [flags EXCEPT ![s] = (Value(s).scalar \in words)]
    /\ UNCHANGED <<yamlVars, stage, options, debugFlags, config, debug_level, listen_port, texts>>

\* Fault: a flag is on as soon as the file names it.
ApplyFlagNamed(s) == ApplyFlagIf(s, Strings)
\* as_boolean: whatever is not true is false.
ApplyFlag(s) == ApplyFlagIf(s, {"true"})

ApplyText(s) ==
    /\ TakenScalar(s)
    /\ s \in Texts
    /\ texts' = [texts EXCEPT ![s] = Value(s).scalar]
    /\ UNCHANGED <<yamlVars, stage, options, debugFlags, config, debug_level, listen_port, flags>>

\* A key no parser looks for, or a sequence for a section.
SkipSetting(s) ==
    /\ Taken(s)
    /\ s \notin Known
    /\ Value(s) # Empty
    /\ UNCHANGED <<yamlVars, stage, options, debugFlags, config, settingVars>>

Rejected(s) ==
    \/ s[1] \notin Parsers \/ Value(s) = Empty
    \/ s \in Known /\ Value(s).type # "scalar"
    \/ s \in {Level, ListenPort} /\ Value(s).type = "scalar" /\ ~IsInteger(s)

ApplyFailsThen(s, next, rest) ==
    /\ Visited(s)
    /\ Rejected(s)
    /\ stage' = next
    /\ todo' = rest
    /\ UNCHANGED <<yamlVars, options, debugFlags, config, settingVars>>

\* Fault: a setting that cannot be used is skipped.
ApplyFailsSoftly(s) == ApplyFailsThen(s, stage, todo \ {s})
\* yaml.cpp, lines 243-305: an empty section, no parser for the section
\* (bad_function_call), not a scalar (type_mismatch), not a number
\* (invalid_argument), out of range (catch all).
ApplyFails(s) == ApplyFailsThen(s, "exit_1", todo)

Apply(s) ==
    \/ ApplyLevel(s) \/ ApplyPort(s) \/ ApplyFlag(s) \/ ApplyText(s)
    \/ SkipSetting(s) \/ ApplyFails(s)

Applied ==
    /\ stage = "applying"
    /\ todo = {}
    /\ stage' = "ready"
    /\ UNCHANGED <<yamlVars, options, debugFlags, config, todo, settingVars>>

-----------------------------------------------------------------------------
NextConfig ==
    \/ Debug \/ GiveConfig \/ Leave \/ OptionsEnd
    \/ Load \/ StartApplying \/ LoadFails
    \/ (\E s \in todo : Apply(s)) \/ Applied

ConfigSpec == InitConfig /\ [][NextConfig]_configVars

-----------------------------------------------------------------------------
(* Properties. *)

Stages == {"options", "loading", "applying", "ready", "exit_0", "exit_1"}

ConfigTypeOK ==
    /\ LoaderTypeOK
    /\ stage \in Stages
    /\ options \in 0 .. MaxOptions
    /\ debugFlags \in 0 .. options
    /\ config \in BOOLEAN
    /\ debug_level \in 0 .. WordSize - 1
    /\ listen_port \in 0 .. PortSize - 1
    /\ flags \in [Flags -> BOOLEAN]
    /\ texts \in [Texts -> Strings \cup {DefaultText}]

\* Settings of the file that are scalars.
Given == IF config THEN {p \in DOMAIN doc : Len(p) = 2 /\ doc[p].type = "scalar"} ELSE {}

\* The daemon goes on only with all that its file says in force: the flags and
\* texts as they are written, the listen port as its number cut to 16 bits (the
\* debug level is in LevelIsLarger).  What the file does not say has its default.
\* A setting that is looked for is a scalar, and a number where one is read; a
\* section with entries has a parser, one without needs none (options.cpp,
\* lines 70-125).
ReadyMeansApplied ==
    stage = "ready" =>
        /\ \A f \in Flags : flags[f] = (f \in Given /\ doc[f].scalar = "true")
        /\ \A t \in Texts : texts[t] = IF t \in Given THEN doc[t].scalar ELSE DefaultText
        /\ \A p \in {Level, ListenPort} \cap Given : doc[p].scalar \in DOMAIN IntegerOf
        /\ listen_port = IF ListenPort \in Given
                         THEN (IntegerOf[doc[ListenPort].scalar] % WordSize) % PortSize
                         ELSE DefaultPort
        /\ config => \A p \in DOMAIN doc : Len(p) = 2 => p[1] \in Parsers
        /\ config => \A p \in Known \cap DOMAIN doc : doc[p].type = "scalar"

\* Neither the file nor -D lowers the debug level: it is the larger of the two,
\* in whatever order the options come.  So a file with a larger level overrides
\* -D, although the comment at yaml.hpp:38 has -D precede the file.
LevelIsLarger ==
    stage = "ready" =>
        debug_level = IF Level \in Given /\ IntegerOf[doc[Level].scalar] % WordSize > debugFlags
                      THEN IntegerOf[doc[Level].scalar] % WordSize
                      ELSE debugFlags

\* A port that is listened on is one validate_port_number is said to accept.
ListenPortInRange == stage = "ready" => listen_port \in 1 .. PortSize - 1

=============================================================================
