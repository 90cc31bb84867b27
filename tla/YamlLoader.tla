----------------------------- MODULE YamlLoader -----------------------------
(* Loading a YAML file into a tree of nodes (common/yaml.cpp).  libyaml      *)
(* delivers events one by one; load_mapping and load_sequence call each      *)
(* other through load_node, so a frame of `frames' is one of their           *)
(* activations.  `nest' is what libyaml expects next in each collection that *)
(* is open in the file, which is not always what the loader expects.         *)
(*                                                                           *)
(* load_mapping takes any event but a mapping's end for a key and reads its  *)
(* text (line 169).  Events are zeroed by libyaml before they are filled in, *)
(* and an event that is no scalar leaves the length of the text at zero: the *)
(* key read then is the empty string.                                        *)
EXTENDS Sequences, Integers

CONSTANTS
    Keys,       \* scalars a file has as keys, per depth: of the root, and below
    Values,     \* and as values or items, per depth: outside the root first
    MaxEvents   \* events that one file has

ASSUME EventsAssumption == MaxEvents \in Nat
ASSUME ScalarsAssumption ==
    /\ Keys \in Seq(SUBSET STRING) /\ Len(Keys) > 0
    /\ Values \in Seq(SUBSET STRING) /\ Len(Values) > 0

EmptyString == ""

VARIABLES
    loader,     \* control of load_file
    file,       \* the FILE and the parser of load_file: "open" or "closed"
    nest,       \* libyaml: "key", "value" or "item" for each open collection
    frames,     \* activations of load_mapping and load_sequence
    doc,        \* the tree: path -> node, no deeper than anything reads it
    events,     \* events delivered
    oddKey      \* the file has a collection where a key is expected

yamlVars == <<loader, file, nest, frames, doc, events, oddKey>>

\* A node, as far as it is read: its type, and its text if it is a scalar.
Empty == [type |-> "empty"]
Scalar(v) == [type |-> "scalar", scalar |-> v]
Mapping == [type |-> "mapping"]
Sequence == [type |-> "sequence"]

\* An activation; a mapping between a key and its value has the key.
MapFrame == [seq |-> FALSE, keys |-> {}, pending |-> FALSE, key |-> EmptyString]
SeqFrame == [MapFrame EXCEPT !.seq = TRUE]

InitLoader ==
    /\ loader = "idle"
    /\ file = "closed"
    /\ nest = <<>>
    /\ frames = <<>>
    /\ doc = [p \in {<<>>} |-> Empty]
    /\ events = 0
    /\ oddKey = FALSE

Last(s) == s[Len(s)]
Front(s) == SubSeq(s, 1, Len(s) - 1)

-----------------------------------------------------------------------------
(* libyaml: yaml_parser_parse. *)

Text(v) == [type |-> "scalar", value |-> v]
Event(t) == [type |-> t, value |-> EmptyString]
Starts == {Event("mapping_start"), Event("sequence_start")}
Ends == {Event("mapping_end"), Event("sequence_end")}
Leaves(vs) == {Text(v) : v \in vs} \cup {Event("alias")}

\* What a file has at a depth; the last entry goes for everything deeper.
At(sets, depth) == sets[IF depth > Len(sets) THEN Len(sets) ELSE depth]
NextKeys == At(Keys, Len(nest))
NextValues == At(Values, Len(nest) + 1)
Strings == (UNION {Keys[i] : i \in DOMAIN Keys}) \cup (UNION {Values[i] : i \in DOMAIN Values})
              \cup {EmptyString}

\* The events that may come next in a well-formed file.
Offers ==
    IF nest = <<>> THEN Starts \cup Leaves(NextValues) \cup {Event("document"), Event("stream_end")}
    ELSE CASE Last(nest) = "key"   -> Starts \cup Leaves(NextKeys) \cup {Event("mapping_end")}
           [] Last(nest) = "value" -> Starts \cup Leaves(NextValues)
           [] Last(nest) = "item"  -> Starts \cup Leaves(NextValues) \cup {Event("sequence_end")}

\* A node is complete: what the collection around it expects now.
NodeEnds(n) ==
    IF n = <<>> THEN n
    ELSE [n EXCEPT ![Len(n)] = CASE @ = "key" -> "value" [] @ = "value" -> "key" [] OTHER -> @]

Advance(e) ==
    CASE e.type = "mapping_start"  -> Append(nest, "key")
      [] e.type = "sequence_start" -> Append(nest, "item")
      [] e \in Ends                -> NodeEnds(Front(nest))
      [] e.type = "document"       -> nest
      [] OTHER                     -> NodeEnds(nest)

Parse(e) ==
    /\ events < MaxEvents
    /\ events' = events + 1
    /\ e \in Offers
    /\ nest' = Advance(e)
    /\ oddKey' = (oddKey \/ (nest # <<>> /\ Last(nest) = "key" /\ e \in Starts))

-----------------------------------------------------------------------------
(* load_node. *)

\* Where the node that is being read is in the tree; a node inside a sequence,
\* or deeper than a setting, is not kept.
Path(fs) == [i \in 1 .. Len(fs) |-> fs[i].key]
Kept(fs) == Len(fs) <= 2 /\ \A i \in 1 .. Len(fs) : ~fs[i].seq

Store(fs, node) ==
    IF Kept(fs)
    THEN [p \in DOMAIN doc \cup {Path(fs)} |-> IF p = Path(fs) THEN node ELSE doc[p]]
    ELSE doc

\* The value is stored: the mapping around it is ready for the next key.
Settled(fs) == IF fs = <<>> THEN fs ELSE [fs EXCEPT ![Len(fs)].pending = FALSE]

Throw == loader' = "threw" /\ UNCHANGED <<file, frames, doc>>

\* In sequence, the activations once a sequence has begun.
LoadNodeWith(e, sequence) ==
    \/ /\ e.type = "scalar"
       /\ doc' = Store(frames, Scalar(e.value))
       /\ frames' = Settled(frames)
       /\ UNCHANGED <<loader, file>>
    \/ /\ e.type = "mapping_start"
       /\ doc' = Store(frames, Mapping)
       /\ frames' = Append(frames, MapFrame)
       /\ UNCHANGED <<loader, file>>
    \/ /\ e.type = "sequence_start"
       /\ doc' = Store(frames, Sequence)
       /\ frames' = sequence
       /\ UNCHANGED <<loader, file>>
    \/ /\ e.type \in {"alias", "mapping_end", "sequence_end"}
       /\ Throw

\* Fault: a sequence is noted and its items are left to the caller.
LoadNodeFlat(e) == LoadNodeWith(e, Settled(frames))
LoadNode(e) == LoadNodeWith(e, Append(frames, SeqFrame))

\* load_mapping or load_sequence returns; with the last of them so does
\* load_top, and load_file deletes the parser and closes the file.
Return ==
    LET fs == Front(frames)
    IN  /\ frames' = Settled(fs)
        /\ IF fs = <<>> THEN loader' = "loaded" /\ file' = "closed"
                        ELSE UNCHANGED <<loader, file>>
        /\ UNCHANGED doc

-----------------------------------------------------------------------------
(* load_file, lines 62-82. *)

Open ==
    /\ loader = "idle"
    /\ loader' = "top"
    /\ file' = "open"
    /\ UNCHANGED <<nest, frames, doc, events, oddKey>>

\* Lines 64-74: no such file, or no memory; the file is closed again.
OpenFails ==
    /\ loader = "idle"
    /\ loader' = "threw"
    /\ UNCHANGED <<file, nest, frames, doc, events, oddKey>>

\* load_top, lines 91-119: anything before the first collection is skipped.
LoadTop ==
    /\ loader = "top"
    /\ \E e \in Offers :
          /\ Parse(e)
          /\ \/ /\ e.type = "stream_end"
                /\ loader' = "loaded"
                /\ file' = "closed"
                /\ UNCHANGED <<frames, doc>>
             \/ /\ e \in Starts
                /\ loader' = "nested"
                /\ frames' = <<IF e.type = "mapping_start" THEN MapFrame ELSE SeqFrame>>
                /\ doc' = Store(<<>>, IF e.type = "mapping_start" THEN Mapping ELSE Sequence)
                /\ UNCHANGED file
             \/ /\ e.type \in {"scalar", "alias", "document"}
                /\ UNCHANGED <<loader, file, frames, doc>>

InMapping == loader = "nested" /\ ~Last(frames).seq

\* load_mapping, lines 156-175: the next key, or the end.
LoadKeyUnless(taken) ==
    /\ InMapping
    /\ ~Last(frames).pending
    /\ \E e \in Offers :
          /\ Parse(e)
          /\ \/ e.type = "mapping_end" /\ Return
             \/ e.type # "mapping_end" /\ e.value \in taken /\ Throw
             \/ /\ e.type # "mapping_end"
                /\ e.value \notin taken
                /\ LET k  == e.value
                       fs == [frames EXCEPT ![Len(frames)].key = k,
                                            ![Len(frames)].keys = @ \cup {k},
                                            ![Len(frames)].pending = TRUE]
                   IN frames' = fs /\ doc' = Store(fs, Empty) /\ UNCHANGED <<loader, file>>

\* Fault: a key that is there already is no error.
LoadKeyAgain == LoadKeyUnless({})
LoadKey == LoadKeyUnless(Last(frames).keys)

\* Lines 177-184.
LoadValue ==
    /\ InMapping
    /\ Last(frames).pending
    /\ \E e \in Offers : Parse(e) /\ LoadNode(e)

\* load_sequence, lines 196-223.
LoadItem ==
    /\ loader = "nested"
    /\ Last(frames).seq
    /\ \E e \in Offers :
          /\ Parse(e)
          /\ \/ e.type = "sequence_end" /\ Return
             \/ e.type # "sequence_end" /\ LoadNode(e)

\* Fault: the loop is left when the parser fails.
ParserStops ==
    /\ loader \in {"top", "nested"}
    /\ loader' = "loaded"
    /\ file' = "closed"
    /\ UNCHANGED <<nest, frames, doc, events, oddKey>>

\* The file cannot be read, or is malformed: the loader throws, and leaves the
\* parser and the file as they are.
ParserFails ==
    /\ loader \in {"top", "nested"}
    /\ Throw
    /\ UNCHANGED <<nest, events, oddKey>>

NextLoader == LoadTop \/ LoadKey \/ LoadValue \/ LoadItem \/ ParserFails

-----------------------------------------------------------------------------
(* Properties. *)

Loaders == {"idle", "top", "nested", "loaded", "threw"}

LoaderTypeOK ==
    /\ loader \in Loaders
    /\ file \in {"open", "closed"}
    /\ nest \in Seq({"key", "value", "item"})
    /\ \A i \in 1 .. Len(frames) :
          /\ frames[i].seq \in BOOLEAN /\ frames[i].pending \in BOOLEAN
          /\ frames[i].keys \subseteq Strings
          /\ frames[i].key \in frames[i].keys \cup {EmptyString}
    /\ \A p \in DOMAIN doc : Len(p) <= 2
    /\ events \in 0 .. MaxEvents
    /\ oddKey \in BOOLEAN

\* What libyaml expects in the collection of an activation.
Expected(f) == IF f.seq THEN "item" ELSE IF f.pending THEN "value" ELSE "key"

\* As long as every key is a scalar, the loader's activations are the
\* collections that are open in the file, each at the same point.
InStep == loader = "nested" /\ ~oddKey => nest = [i \in 1 .. Len(frames) |-> Expected(frames[i])]

\* A file that is loaded is loaded to the end of its first collection, and no
\* node is left empty; of the tree, at most the root is empty when there is none.
\* A file with a collection as a key is not among them: the end of the collection
\* comes where a value is expected, or as a second empty key.
LoadedIsComplete ==
    loader = "loaded" =>
        ~oddKey /\ nest = <<>> /\ \A p \in DOMAIN doc \ {<<>>} : doc[p] # Empty

\* Nothing that has been read is lost or read over: a key a mapping has already ends
\* the load (lines 171-174), and so does the empty key of a second collection.
Keeps == \A p \in DOMAIN doc : doc[p] # Empty => p \in DOMAIN doc' /\ doc'[p] = doc[p]
NeverOverwritten == [][Keeps]_doc

=============================================================================
