--------------------------- MODULE StartupProofs ---------------------------
(* Theorems about Startup: whatever the command line, the file and the        *)
(* database, and whatever fails.  The invariant has three parts: the loader   *)
(* of the file (its tree, and its stack against libyaml's), the settings in   *)
(* force against those the file gives and those still to apply, and the       *)
(* loader of the database, which is at rest until the other two are done.     *)
EXTENDS Startup, SequenceTheorems, FiniteSetTheorems, WellFoundedInduction, TLAPS

-----------------------------------------------------------------------------
(* The loader of YAML files: its data. *)

Activations == [seq : BOOLEAN, keys : SUBSET Strings, pending : BOOLEAN, key : Strings]
Nodes == {Empty, Mapping, Sequence} \cup {Scalar(v) : v \in Strings}
Paths == {p \in Seq(Strings) : Len(p) <= 2}
Expectations == {"key", "value", "item"}

\* Nodes are told apart by their types.
LEMMA NodeTypes ==
    /\ Empty.type = "empty" /\ Mapping.type = "mapping" /\ Sequence.type = "sequence"
    /\ \A v : Scalar(v).type = "scalar" /\ Scalar(v).scalar = v
    /\ \A n \in Nodes :
          /\ n.type \in {"empty", "mapping", "sequence", "scalar"}
          /\ n.type = "empty" => n = Empty
          /\ n.type = "mapping" => n = Mapping
          /\ n.type = "sequence" => n = Sequence
          /\ n.type = "scalar" => n.scalar \in Strings
BY DEF Nodes, Empty, Mapping, Sequence, Scalar

\* What a file has, at whatever depth.
LEMMA FileStrings ==
    /\ \A i \in Nat \ {0} : At(Keys, i) \subseteq Strings /\ At(Values, i) \subseteq Strings
    /\ EmptyString \in Strings
<1>0. /\ \A i \in DOMAIN Keys : Keys[i] \subseteq Strings
      /\ \A i \in DOMAIN Values : Values[i] \subseteq Strings
      /\ EmptyString \in Strings
  BY DEF Strings
<1>1. ASSUME NEW i \in Nat \ {0} PROVE At(Keys, i) \subseteq Strings
  <2>1. (IF i > Len(Keys) THEN Len(Keys) ELSE i) \in DOMAIN Keys
    BY ScalarsAssumption
  <2> QED
    BY <1>0, <2>1 DEF At
<1>2. ASSUME NEW i \in Nat \ {0} PROVE At(Values, i) \subseteq Strings
  <2>1. (IF i > Len(Values) THEN Len(Values) ELSE i) \in DOMAIN Values
    BY ScalarsAssumption
  <2> QED
    BY <1>0, <2>1 DEF At
<1> QED
  BY <1>0, <1>1, <1>2

\* An activation begins without keys.
LEMMA FrameTypes ==
    /\ MapFrame \in Activations /\ ~MapFrame.seq /\ MapFrame.pending = FALSE
    /\ SeqFrame \in Activations /\ SeqFrame.seq /\ SeqFrame.pending = FALSE
    /\ MapFrame.key = EmptyString /\ SeqFrame.key = EmptyString
    /\ MapFrame.keys = {} /\ SeqFrame.keys = {}
<1>1. /\ MapFrame \in Activations /\ ~MapFrame.seq /\ MapFrame.pending = FALSE
      /\ MapFrame.key = EmptyString /\ MapFrame.keys = {}
  BY FileStrings DEF MapFrame, Activations
<1> QED
  BY <1>1 DEF SeqFrame, Activations

\* A stack: its top, the rest, and what replacing its top changes.
LEMMA NonEmpty ==
    ASSUME NEW S, NEW s \in Seq(S)
    PROVE  Len(s) \in Nat /\ (s # <<>> <=> Len(s) > 0)
OBVIOUS

\* What is at the top, and what is below it.
LEMMA TopFacts ==
    ASSUME NEW S, NEW s \in Seq(S), Len(s) > 0
    PROVE  /\ Last(s) = s[Len(s)] /\ Last(s) \in S
           /\ Front(s) \in Seq(S) /\ Len(Front(s)) = Len(s) - 1
           /\ \A i \in 1 .. Len(s) - 1 : Front(s)[i] = s[i]
<1>1. Len(s) \in Nat \ {0} /\ \A i \in 1 .. Len(s) : s[i] \in S
  OBVIOUS
<1>2. 1 \in Int /\ Len(s) - 1 \in Int /\ \A i \in 1 .. Len(s) - 1 : s[i] \in S
  BY <1>1
<1>3. /\ Front(s) \in Seq(S)
      /\ Len(Front(s)) = IF 1 <= Len(s) - 1 THEN Len(s) - 1 - 1 + 1 ELSE 0
      /\ \A i \in 1 .. Len(s) - 1 - 1 + 1 : Front(s)[i] = s[1 + i - 1]
  BY ONLY <1>2, SubSeqProperties DEF Front
<1>4. ASSUME NEW i \in 1 .. Len(s) - 1 PROVE Front(s)[i] = s[i]
  <2>1. i \in 1 .. Len(s) - 1 - 1 + 1 /\ 1 + i - 1 = i
    BY <1>1
  <2> QED
    BY <1>3, <2>1
<1>5. Len(Front(s)) = Len(s) - 1
  <2>1. Len(Front(s)) = IF 1 <= Len(s) - 1 THEN Len(s) - 1 - 1 + 1 ELSE 0
    BY <1>3
  <2>2. Len(s) \in Nat \ {0}
    BY <1>1
  <2>3. CASE 1 <= Len(s) - 1
    BY <2>1, <2>2, <2>3
  <2>4. CASE ~(1 <= Len(s) - 1)
    <3>1. Len(s) - 1 = 0
      BY ONLY <2>2, <2>4
    <3> QED
      BY <2>1, <2>4, <3>1
  <2> QED
    BY <2>3, <2>4
<1> QED
  BY <1>1, <1>3, <1>4, <1>5 DEF Last

\* Replacing the top leaves the rest alone.
LEMMA ReplaceTop ==
    ASSUME NEW S, NEW s \in Seq(S), Len(s) > 0, NEW x \in S,
           NEW t, t = [s EXCEPT ![Len(s)] = x]
    PROVE  /\ t \in Seq(S) /\ Len(t) = Len(s) /\ t[Len(s)] = x
           /\ \A i \in 1 .. Len(s) - 1 : t[i] = s[i]
<1>1. Len(s) \in 1 .. Len(s)
  OBVIOUS
<1>2. /\ [s EXCEPT ![Len(s)] = x] \in Seq(S)
      /\ Len([s EXCEPT ![Len(s)] = x]) = Len(s)
      /\ \A j \in 1 .. Len(s) :
            [s EXCEPT ![Len(s)] = x][j] = IF j = Len(s) THEN x ELSE s[j]
  BY <1>1, ExceptSeq
<1>3. \A i \in 1 .. Len(s) - 1 : i \in 1 .. Len(s) /\ i # Len(s)
  BY <1>1
<1> QED
  BY <1>1, <1>2, <1>3, Zenon

\* Of a stack, the top is ready for its next key.
Resumed(fs, gs) ==
    /\ gs \in Seq(Activations) /\ Len(gs) = Len(fs)
    /\ \A i \in 1 .. Len(fs) - 1 : gs[i] = fs[i]
    /\ Len(fs) > 0 =>
          /\ gs[Len(fs)].seq = fs[Len(fs)].seq /\ gs[Len(fs)].keys = fs[Len(fs)].keys
          /\ gs[Len(fs)].key = fs[Len(fs)].key /\ gs[Len(fs)].pending = FALSE

\* That is what Settled makes of a stack.
LEMMA SettledFields ==
    ASSUME NEW fs \in Seq(Activations)
    PROVE  Resumed(fs, Settled(fs))
<1>0. Len(fs) \in Nat /\ (fs # <<>> <=> Len(fs) > 0)
  BY NonEmpty
<1>1. CASE fs = <<>>
  BY <1>0, <1>1 DEF Settled, Resumed
<1>2. CASE fs # <<>>
  <2> DEFINE x == [fs[Len(fs)] EXCEPT !.pending = FALSE]
  <2>1. fs[Len(fs)] \in Activations
    BY <1>2
  <2>2. /\ x \in Activations /\ x.seq = fs[Len(fs)].seq /\ x.keys = fs[Len(fs)].keys
        /\ x.key = fs[Len(fs)].key /\ x.pending = FALSE
    BY <2>1 DEF Activations
  <2>3. Settled(fs) = [fs EXCEPT ![Len(fs)] = x]
    BY <1>2 DEF Settled
  <2> HIDE DEF x
  <2> QED
    BY <1>0, <1>2, <2>2, <2>3, ReplaceTop DEF Resumed
<1> QED
  BY <1>1, <1>2

\* Of a stack of libyaml, the top has got its node.
Advanced(n, m) ==
    /\ m \in Seq(Expectations) /\ Len(m) = Len(n)
    /\ \A i \in 1 .. Len(n) - 1 : m[i] = n[i]
    /\ Len(n) > 0 =>
          /\ n[Len(n)] = "key" => m[Len(n)] = "value"
          /\ n[Len(n)] = "value" => m[Len(n)] = "key"
          /\ n[Len(n)] = "item" => m[Len(n)] = "item"

\* That is what NodeEnds makes of one.
LEMMA NodeEndsFields ==
    ASSUME NEW n \in Seq(Expectations)
    PROVE  Advanced(n, NodeEnds(n))
<1>0. Len(n) \in Nat /\ (n # <<>> <=> Len(n) > 0)
  BY NonEmpty
<1>1. CASE n = <<>>
  BY <1>0, <1>1 DEF NodeEnds, Advanced
<1>2. CASE n # <<>>
  <2> DEFINE x == CASE n[Len(n)] = "key" -> "value" [] n[Len(n)] = "value" -> "key"
                    [] OTHER -> n[Len(n)]
  <2>1. n[Len(n)] \in Expectations
    BY <1>2
  <2>2. /\ x \in Expectations
        /\ n[Len(n)] = "key" => x = "value"
        /\ n[Len(n)] = "value" => x = "key"
        /\ n[Len(n)] = "item" => x = "item"
    BY <2>1 DEF Expectations
  <2>3. NodeEnds(n) = [n EXCEPT ![Len(n)] = x]
    BY <1>2 DEF NodeEnds
  <2> HIDE DEF x
  <2> QED
    BY <1>0, <1>2, <2>2, <2>3, ReplaceTop DEF Advanced
<1> QED
  BY <1>1, <1>2

\* The events of libyaml: what one can be, and what it makes of nest.
LEMMA EventFields ==
    ASSUME NEW e \in Offers, nest \in Seq(Expectations), Len(nest) > 0
    PROVE  /\ e.type \in {"scalar", "alias", "mapping_start", "sequence_start",
                          "mapping_end", "sequence_end"}
           /\ e.value \in Strings
           /\ e.type # "scalar" => e.value = EmptyString
           /\ e \in Starts <=> e.type \in {"mapping_start", "sequence_start"}
           /\ e \in Ends <=> e.type \in {"mapping_end", "sequence_end"}
           /\ e.type = "mapping_end" => nest[Len(nest)] = "key"
           /\ e.type = "sequence_end" => nest[Len(nest)] = "item"
<1>1. Len(nest) \in Nat \ {0} /\ nest[Len(nest)] \in Expectations
  OBVIOUS
<1>2. NextKeys \subseteq Strings /\ NextValues \subseteq Strings /\ EmptyString \in Strings
  BY <1>1, FileStrings DEF NextKeys, NextValues
<1>3. \/ e \in Starts
      \/ e = Event("alias")
      \/ \E v \in Strings : e = Text(v)
      \/ e = Event("mapping_end") /\ nest[Len(nest)] = "key"
      \/ e = Event("sequence_end") /\ nest[Len(nest)] = "item"
  BY <1>1, <1>2 DEF Offers, Leaves, Last, Expectations
<1> QED
  BY <1>2, <1>3 DEF Starts, Ends, Event, Text

\* What an event makes of the stack of libyaml.
LEMMA NestSteps ==
    ASSUME NEW e, Parse(e), nest \in Seq(Expectations), Len(nest) > 0
    PROVE  /\ e.type \in {"scalar", "alias"} => Advanced(nest, nest')
           /\ e.type = "mapping_start" => nest' = Append(nest, "key")
           /\ e.type = "sequence_start" => nest' = Append(nest, "item")
           /\ e.type \in {"mapping_end", "sequence_end"} => Advanced(Front(nest), nest')
<1>1. e \in Offers /\ nest' = Advance(e)
  BY DEF Parse
<1>2. /\ e.type \in {"scalar", "alias", "mapping_start", "sequence_start",
                          "mapping_end", "sequence_end"}
      /\ e \in Ends <=> e.type \in {"mapping_end", "sequence_end"}
  BY <1>1, EventFields
<1>3. CASE e.type \in {"scalar", "alias"}
  BY <1>1, <1>2, <1>3, NodeEndsFields DEF Advance
<1>4. CASE e.type \in {"mapping_start", "sequence_start"}
  BY <1>1, <1>2, <1>4 DEF Advance
<1>5. CASE e.type \in {"mapping_end", "sequence_end"}
  <2>1. nest' = NodeEnds(Front(nest))
    BY <1>1, <1>2, <1>5 DEF Advance
  <2>2. Front(nest) \in Seq(Expectations)
    BY TopFacts
  <2> QED
    BY <1>5, <2>1, <2>2, NodeEndsFields
<1> QED
  BY <1>2, <1>3, <1>4, <1>5

\* Only a collection in the place of a key is odd, and oddKey stays.
LEMMA OddKeySteps ==
    ASSUME NEW e, Parse(e), oddKey \in BOOLEAN
    PROVE  /\ oddKey' \in BOOLEAN
           /\ oddKey => oddKey'
           /\ ~oddKey /\ (Last(nest) # "key" \/ e \notin Starts) => ~oddKey'
           /\ nest # <<>> /\ Last(nest) = "key" /\ e \in Starts => oddKey'
BY DEF Parse

\* A map takes a key.
KeyTaken(k) == [frames EXCEPT ![Len(frames)].key = k,
                              ![Len(frames)].keys = @ \cup {k},
                              ![Len(frames)].pending = TRUE]

\* What that changes.
Took(k, gs) ==
    LET n == Len(frames) IN
    /\ gs \in Seq(Activations) /\ Len(gs) = n
    /\ \A i \in 1 .. n - 1 : gs[i] = frames[i]
    /\ gs[n].seq = frames[n].seq /\ gs[n].keys = frames[n].keys \cup {k}
    /\ gs[n].key = k /\ gs[n].pending = TRUE

\* That is what taking a key makes of the activations.
LEMMA KeyTakenFields ==
    ASSUME frames \in Seq(Activations), Len(frames) > 0, NEW k \in Strings
    PROVE  Took(k, KeyTaken(k))
<1> DEFINE n == Len(frames)
           x == [frames[n] EXCEPT !.key = k, !.keys = @ \cup {k}, !.pending = TRUE]
<1>1. n \in Nat \ {0} /\ frames[n] \in Activations
  OBVIOUS
<1>2. /\ x \in Activations /\ x.seq = frames[n].seq /\ x.keys = frames[n].keys \cup {k}
      /\ x.key = k /\ x.pending = TRUE
  BY <1>1 DEF Activations
<1>3. KeyTaken(k) = [frames EXCEPT ![n] = x]
  BY <1>1 DEF KeyTaken
<1> HIDE DEF x
<1> QED
  BY <1>2, <1>3, ReplaceTop DEF Took

-----------------------------------------------------------------------------
(* The loader of YAML files: its stack and that of libyaml. *)

YamlType ==
    /\ loader \in Loaders /\ file \in {"open", "closed"}
    /\ events \in 0 .. MaxEvents /\ oddKey \in BOOLEAN
    /\ nest \in Seq(Expectations)
    /\ frames \in Seq(Activations)
    /\ \A i \in 1 .. Len(frames) : frames[i].key \in frames[i].keys \cup {EmptyString}
    /\ doc \in [DOMAIN doc -> Nodes] /\ DOMAIN doc \subseteq Paths

\* Above d, the activations are the last collections of libyaml, each at the same
\* point.  The first odd key makes d its mapping, which never gets out of step
\* again in a way that lets it end: it has the empty key, so the next odd key, or
\* end, that it takes for a key makes it throw.
Aligned(d, g) ==
    /\ Len(nest) = Len(frames) + g
    /\ \A i \in d + 1 .. Len(frames) : nest[i + g] = Expected(frames[i])
    /\ d = 0 => ~oddKey /\ g = 0
    /\ d > 0 => /\ oddKey /\ ~frames[d].seq /\ EmptyString \in frames[d].keys
                /\ nest[d + g] = "key" => frames[d].pending
                /\ nest[d + g] = "value" => ~frames[d].pending

StackInv ==
    /\ loader \in {"idle", "top"} => nest = <<>> /\ frames = <<>> /\ ~oddKey
    /\ loader = "loaded" => nest = <<>> /\ ~oddKey
    /\ loader = "nested" =>
          /\ Len(frames) > 0
          /\ \A i \in 1 .. Len(frames) - 1 : frames[i].seq \/ frames[i].pending
          /\ \E d \in 0 .. Len(frames), g \in Nat : Aligned(d, g)

\* A value that is no collection.
LEMMA LeafStack ==
    ASSUME YamlType, StackInv, loader = "nested", NEW e, Parse(e), e.type = "scalar",
           frames[Len(frames)].seq \/ frames[Len(frames)].pending,
           loader' = loader, frames' = Settled(frames)
    PROVE  StackInv'
<1> DEFINE n == Len(frames)
<1>1. n \in Nat \ {0} /\ frames \in Seq(Activations) /\ nest \in Seq(Expectations) /\ oddKey \in BOOLEAN
  BY DEF YamlType, StackInv
<1>2. PICK d \in 0 .. n, g \in Nat : Aligned(d, g)
  BY DEF StackInv
<1>3. Resumed(frames, frames')
  BY <1>1, SettledFields
<1>4. Len(nest) = n + g /\ Len(nest) > 0 /\ Len(nest) \in Nat /\ nest[Len(nest)] \in Expectations
  BY <1>1, <1>2 DEF Aligned
<1>5. Advanced(nest, nest')
  BY <1>1, <1>4, NestSteps
<1>6. oddKey' = oddKey
  BY <1>1 DEF Parse, Starts, Event
<1>7. Aligned(d, g)'
  <2>1. Len(nest') = Len(frames') + g
    BY <1>3, <1>4, <1>5 DEF Resumed, Advanced
  <2>2. ASSUME NEW i \in d + 1 .. n PROVE nest'[i + g] = Expected(frames'[i])
    <3>1. nest[i + g] = Expected(frames[i]) /\ i \in 1 .. n
      BY <1>1, <1>2 DEF Aligned
    <3>2. CASE i = n
      BY <1>3, <1>4, <1>5, <3>1, <3>2 DEF Expected, Resumed, Advanced
    <3>3. CASE i # n
      <4>1. i \in 1 .. n - 1 /\ i + g \in 1 .. Len(nest) - 1
        BY <1>1, <1>4, <3>1, <3>3
      <4> QED
        BY <1>3, <1>5, <3>1, <4>1 DEF Resumed, Advanced
    <3> QED
      BY <3>2, <3>3
  <2>3. CASE d = 0
    BY <1>2, <1>3, <1>6, <2>1, <2>2, <2>3 DEF Aligned, Resumed
  <2>4. CASE d > 0
    <3>1. /\ oddKey /\ ~frames[d].seq /\ EmptyString \in frames[d].keys
          /\ nest[d + g] = "key" => frames[d].pending
          /\ nest[d + g] = "value" => ~frames[d].pending
      BY <1>2, <2>4 DEF Aligned
    <3>2. CASE d = n
      BY <1>3, <1>4, <1>5, <1>6, <2>1, <2>2, <2>4, <3>1, <3>2
         DEF Aligned, Expectations, Resumed, Advanced
    <3>3. CASE d # n
      <4>1. d \in 1 .. n - 1 /\ d + g \in 1 .. Len(nest) - 1
        BY <1>1, <1>4, <2>4, <3>3
      <4>2. frames'[d] = frames[d] /\ nest'[d + g] = nest[d + g]
        BY <1>3, <1>5, <4>1 DEF Resumed, Advanced
      <4> QED
        BY <1>3, <1>6, <2>1, <2>2, <2>4, <3>1, <4>2 DEF Aligned, Resumed
    <3> QED
      BY <3>2, <3>3
  <2> QED
    BY <2>3, <2>4
<1>8. \A i \in 1 .. Len(frames') - 1 : frames'[i].seq \/ frames'[i].pending
  BY <1>1, <1>3 DEF StackInv, Resumed
<1> QED
  BY <1>1, <1>3, <1>7, <1>8 DEF StackInv, Resumed

\* A value, or an item, that is a collection.
LEMMA PushStack ==
    ASSUME YamlType, StackInv, loader = "nested", NEW e, Parse(e),
           frames[Len(frames)].seq \/ frames[Len(frames)].pending,
           loader' = loader,
           \/ e.type = "mapping_start" /\ frames' = Append(frames, MapFrame)
           \/ e.type = "sequence_start" /\ frames' = Append(frames, SeqFrame)
    PROVE  StackInv'
<1> DEFINE n == Len(frames)
<1>1. n \in Nat \ {0} /\ frames \in Seq(Activations) /\ nest \in Seq(Expectations) /\ oddKey \in BOOLEAN
  BY DEF YamlType, StackInv
<1>2. PICK d \in 0 .. n, g \in Nat : Aligned(d, g)
  BY DEF StackInv
<1>3. PICK f \in {MapFrame, SeqFrame}, x \in {"key", "item"} :
            frames' = Append(frames, f) /\ nest' = Append(nest, x) /\ x = Expected(f)
  <2>1. Expected(MapFrame) = "key" /\ Expected(SeqFrame) = "item"
    BY DEF Expected, MapFrame, SeqFrame
  <2> QED
    BY <1>1, <1>2, <2>1, NestSteps DEF Aligned
<1>4. Len(nest) = n + g /\ Len(nest) \in Nat \ {0} /\ nest[Len(nest)] \in Expectations
  BY <1>1, <1>2 DEF Aligned
<1>5. /\ frames' \in Seq(Activations) /\ Len(frames') = n + 1 /\ frames'[n + 1] = f
      /\ \A i \in 1 .. n : frames'[i] = frames[i]
  BY <1>1, <1>3, FrameTypes, AppendProperties
<1>6. /\ Len(nest') = Len(nest) + 1 /\ nest'[Len(nest) + 1] = x
      /\ \A i \in 1 .. Len(nest) : nest'[i] = nest[i]
  <2>1. x \in Expectations
    BY DEF Expectations
  <2> QED
    BY <1>1, <1>3, <2>1, AppendProperties
<1>7. oddKey' = oddKey
  <2>1. CASE oddKey
    BY <2>1 DEF Parse
  <2>2. CASE ~oddKey
    <3>1. d = 0 /\ g = 0
      BY <1>2, <2>2 DEF Aligned
    <3>2. nest[Len(nest)] = Expected(frames[n])
      BY <1>1, <1>2, <1>4, <3>1 DEF Aligned
    <3>3. Last(nest) # "key"
      BY <3>2 DEF Last, Expected
    <3> QED
      BY <1>1, <2>2, <3>3, OddKeySteps
  <2> QED
    BY <1>1, <2>1, <2>2
<1>8. Aligned(d, g)'
  <2>1. Len(nest') = Len(frames') + g
    BY <1>1, <1>4, <1>5, <1>6
  <2>2. ASSUME NEW i \in d + 1 .. n + 1 PROVE nest'[i + g] = Expected(frames'[i])
    <3>1. CASE i = n + 1
      <4>1. i + g = Len(nest) + 1
        BY <1>1, <1>4, <3>1
      <4> QED
        BY <1>3, <1>5, <1>6, <3>1, <4>1
    <3>2. CASE i # n + 1
      <4>1. i \in d + 1 .. n /\ i \in 1 .. n /\ i + g \in 1 .. Len(nest)
        BY <1>1, <1>4, <3>2
      <4>2. nest[i + g] = Expected(frames[i])
        BY <1>2, <4>1 DEF Aligned
      <4> QED
        BY <1>5, <1>6, <4>1, <4>2
    <3> QED
      BY <3>1, <3>2
  <2>3. CASE d = 0
    BY <1>2, <1>5, <1>7, <2>1, <2>2, <2>3 DEF Aligned
  <2>4. CASE d > 0
    <3>1. d \in 1 .. n /\ d + g \in 1 .. Len(nest)
      BY <1>1, <1>4, <2>4
    <3>2. frames'[d] = frames[d] /\ nest'[d + g] = nest[d + g]
      BY <1>5, <1>6, <3>1
    <3> QED
      BY <1>2, <1>5, <1>7, <2>1, <2>2, <2>4, <3>2 DEF Aligned
  <2> QED
    BY <2>3, <2>4
<1>9. ASSUME NEW i \in 1 .. n PROVE frames'[i].seq \/ frames'[i].pending
  <2>1. CASE i = n
    BY <1>5, <2>1
  <2>2. CASE i # n
    BY <1>1, <1>5, <2>2 DEF StackInv
  <2> QED
    BY <2>1, <2>2
<1>10. d \in 0 .. Len(frames') /\ Len(frames') - 1 = n /\ Len(frames') > 0
  BY <1>1, <1>5
<1> QED
  BY <1>8, <1>9, <1>10 DEF StackInv

\* A key, or what is taken for one.
LEMMA KeyStack ==
    ASSUME YamlType, StackInv, loader = "nested", NEW e, Parse(e), e.type # "mapping_end",
           ~frames[Len(frames)].seq, ~frames[Len(frames)].pending,
           e.value \notin frames[Len(frames)].keys,
           loader' = loader, frames' = KeyTaken(e.value)
    PROVE  StackInv'
<1> DEFINE n == Len(frames)
<1>1. n \in Nat \ {0} /\ frames \in Seq(Activations) /\ nest \in Seq(Expectations) /\ oddKey \in BOOLEAN
  BY DEF YamlType, StackInv
<1>2. PICK d \in 0 .. n, g \in Nat : Aligned(d, g)
  BY DEF StackInv
<1>3. Len(nest) = n + g /\ Len(nest) \in Nat \ {0} /\ nest[Len(nest)] \in Expectations
  BY <1>1, <1>2 DEF Aligned
<1>4. /\ e.type \in {"scalar", "alias", "mapping_start", "sequence_start", "sequence_end"}
      /\ e.value \in Strings
      /\ e.type # "scalar" => e.value = EmptyString
      /\ e \in Starts <=> e.type \in {"mapping_start", "sequence_start"}
      /\ e.type = "sequence_end" => nest[Len(nest)] = "item"
  BY <1>1, <1>3, EventFields DEF Parse
<1>5. Took(e.value, frames')
  BY <1>1, <1>4, KeyTakenFields
<1>9. Len(frames') = n /\ frames'[n].pending /\ ~frames'[n].seq
  BY <1>5 DEF Took
<1>6. ASSUME NEW i \in 1 .. n PROVE i < n => frames'[i].seq \/ frames'[i].pending
  BY <1>1, <1>5 DEF StackInv, Took
<1>7. d < n => nest[Len(nest)] = "key"
  BY <1>1, <1>2, <1>3 DEF Aligned, Expected
<1>8. CASE e.type \in {"scalar", "alias"}
  <2>1. Advanced(nest, nest')
    BY <1>1, <1>3, <1>8, NestSteps
  <2>7. oddKey' = oddKey
    BY <1>1, <1>4, <1>8, OddKeySteps
  <2>2. Len(nest') = Len(frames') + g
    BY <1>3, <1>5, <2>1 DEF Took, Advanced
  <2>3. ASSUME NEW i \in d + 1 .. n PROVE nest'[i + g] = Expected(frames'[i])
    <3>1. CASE i = n
      BY <1>1, <1>3, <1>5, <1>7, <2>1, <3>1 DEF Took, Advanced, Expected
    <3>2. CASE i # n
      <4>1. i \in 1 .. n - 1 /\ i + g \in 1 .. Len(nest) - 1
        BY <1>1, <1>3, <3>2
      <4>2. nest[i + g] = Expected(frames[i])
        BY <1>2 DEF Aligned
      <4> QED
        BY <1>5, <2>1, <4>1, <4>2 DEF Took, Advanced
    <3> QED
      BY <3>1, <3>2
  <2>6. Aligned(d, g)'
    <3>4. CASE d = 0
      BY <1>2, <1>9, <2>2, <2>3, <3>4, <2>7 DEF Aligned
    <3>5. CASE d > 0
      <4>1. CASE d = n
        <5>1. /\ EmptyString \in frames'[n].keys
              /\ nest'[n + g] # "value"
          BY <1>2, <1>3, <1>5, <2>1, <3>5, <4>1 DEF Aligned, Took, Advanced, Expectations
        <5> QED
          BY <1>2, <1>9, <2>2, <2>3, <3>5, <2>7, <4>1, <5>1 DEF Aligned
      <4>2. CASE d # n
        <5>1. d \in 1 .. n - 1 /\ d + g \in 1 .. Len(nest) - 1
          BY <1>1, <1>3, <3>5, <4>2
        <5>2. frames'[d] = frames[d] /\ nest'[d + g] = nest[d + g]
          BY <1>5, <2>1, <5>1 DEF Took, Advanced
        <5> QED
          BY <1>2, <1>9, <2>2, <2>3, <3>5, <2>7, <5>2 DEF Aligned
      <4> QED
        BY <4>1, <4>2
    <3> QED
      BY <1>1, <3>4, <3>5
  <2> QED
    BY <1>1, <1>5, <1>6, <2>6 DEF StackInv, Took
<1>10. CASE e \in Starts
  <2>1. PICK x \in {"key", "item"} : nest' = Append(nest, x)
    BY <1>1, <1>3, <1>4, <1>10, NestSteps
  <2>2. /\ Len(nest') = Len(nest) + 1 /\ nest'[Len(nest) + 1] = x
    BY <1>1, <2>1, AppendProperties DEF Expectations
  <2>3. e.value = EmptyString
    BY <1>4, <1>10
  <2>4. nest[Len(nest)] = "key"
    BY <1>1, <1>2, <1>7, <2>3 DEF Aligned
  <2>5. oddKey'
    BY <1>1, <1>3, <1>10, <2>4, NonEmpty, OddKeySteps DEF Last
  <2>6. Aligned(n, g + 1)'
    BY <1>1, <1>3, <1>5, <2>2, <2>3, <2>5 DEF Aligned, Took
  <2> QED
    BY <1>1, <1>5, <1>6, <2>6 DEF StackInv, Took
<1>11. CASE e.type = "sequence_end"
  BY <1>1, <1>2, <1>4, <1>7, <1>11 DEF Aligned
<1> QED
  BY <1>4, <1>8, <1>10, <1>11

\* The end of a collection.
LEMMA ReturnStack ==
    ASSUME YamlType, StackInv, loader = "nested", NEW e, Parse(e), Return,
           IF frames[Len(frames)].seq THEN e.type = "sequence_end"
           ELSE e.type = "mapping_end" /\ ~frames[Len(frames)].pending
    PROVE  StackInv'
<1> DEFINE n == Len(frames)
           fs == Front(frames)
<1>1. n \in Nat \ {0} /\ frames \in Seq(Activations) /\ nest \in Seq(Expectations) /\ oddKey \in BOOLEAN
  BY DEF YamlType, StackInv
<1>2. PICK d \in 0 .. n, g \in Nat : Aligned(d, g)
  BY DEF StackInv
<1>3. Len(nest) = n + g /\ Len(nest) \in Nat \ {0} /\ nest[Len(nest)] \in Expectations
  BY <1>1, <1>2 DEF Aligned
<1>4. /\ e.type \in {"mapping_end", "sequence_end"} /\ e \notin Starts
      /\ e.type = "mapping_end" => nest[Len(nest)] = "key"
  BY <1>1, <1>3, EventFields DEF Parse
<1>5. d < n
  BY <1>1, <1>2, <1>3, <1>4 DEF Aligned
<1>6. /\ fs \in Seq(Activations) /\ Len(fs) = n - 1
      /\ \A i \in 1 .. n - 1 : fs[i] = frames[i]
  BY <1>1, TopFacts
<1>7. Resumed(fs, frames')
  BY <1>6, SettledFields DEF Return
<1>8. /\ Front(nest) \in Seq(Expectations) /\ Len(Front(nest)) = Len(nest) - 1
      /\ \A i \in 1 .. Len(nest) - 1 : Front(nest)[i] = nest[i]
  <2>1. nest \in Seq(Expectations) /\ Len(nest) > 0
    BY <1>1, <1>3
  <2>2. Front(nest) \in Seq(Expectations) /\ Len(Front(nest)) = Len(nest) - 1
    BY <2>1, TopFacts
  <2>3. \A i \in 1 .. Len(nest) - 1 : Front(nest)[i] = nest[i]
    BY <2>1, TopFacts
  <2> QED
    BY <2>2, <2>3
<1>9. Advanced(Front(nest), nest')
  BY <1>1, <1>3, <1>4, NestSteps
<1>10. oddKey' = oddKey
  BY <1>1, <1>4, OddKeySteps
<1>11. Len(frames') = n - 1 /\ Len(nest') = Len(nest) - 1
  BY <1>6, <1>7, <1>8, <1>9 DEF Resumed, Advanced
<1>12. CASE n = 1
  <2>1. d = 0 /\ g = 0 /\ ~oddKey
    BY <1>2, <1>5, <1>12 DEF Aligned
  <2>2. Len(nest') = 0 /\ nest' = <<>>
    BY <1>3, <1>9, <1>11, <1>12, <2>1, NonEmpty DEF Advanced
  <2>3. fs = <<>>
    BY <1>6, <1>12, NonEmpty
  <2>4. loader' = "loaded"
    BY <2>3 DEF Return
  <2> QED
    BY <1>10, <2>1, <2>2, <2>4 DEF StackInv
<1>13. CASE n > 1
  <2>1. loader' = loader /\ Len(frames') > 0
    <3>1. fs # <<>>
      BY <1>1, <1>6, <1>13, NonEmpty
    <3> QED
      BY <1>1, <1>11, <1>13, <3>1 DEF Return
  <2>2. ASSUME NEW i \in 1 .. n - 2
        PROVE  frames'[i] = frames[i] /\ nest'[i + g] = nest[i + g]
    <3>1. /\ i \in 1 .. n - 1 /\ i \in 1 .. Len(fs) - 1
          /\ i + g \in 1 .. Len(nest) - 1 /\ i + g \in 1 .. Len(Front(nest)) - 1
      BY <1>1, <1>3, <1>6, <1>8
    <3> QED
      BY <1>6, <1>7, <1>8, <1>9, <3>1 DEF Resumed, Advanced
  <2>3. /\ frames'[n - 1].seq = frames[n - 1].seq /\ frames'[n - 1].keys = frames[n - 1].keys
        /\ frames'[n - 1].pending = FALSE
    BY <1>1, <1>6, <1>7, <1>13 DEF Resumed
  <2>4. /\ nest[n - 1 + g] \in Expectations
        /\ nest[n - 1 + g] = "key" => nest'[n - 1 + g] = "value"
        /\ nest[n - 1 + g] = "value" => nest'[n - 1 + g] = "key"
        /\ nest[n - 1 + g] = "item" => nest'[n - 1 + g] = "item"
    <3>1. n - 1 + g = Len(Front(nest)) /\ n - 1 + g \in 1 .. Len(nest) - 1
      BY <1>1, <1>3, <1>8, <1>13
    <3> QED
      BY <1>1, <1>8, <1>9, <3>1 DEF Advanced
  <2>5. frames[n - 1].seq \/ frames[n - 1].pending
    BY <1>1, <1>13 DEF StackInv
  <2>6. Aligned(d, g)'
    <3>1. Len(nest') = Len(frames') + g
      BY <1>1, <1>3, <1>11
    <3>2. ASSUME NEW i \in d + 1 .. n - 1 PROVE nest'[i + g] = Expected(frames'[i])
      <4>1. nest[i + g] = Expected(frames[i])
        BY <1>1, <1>2 DEF Aligned
      <4>2. CASE i = n - 1
        BY <2>3, <2>4, <2>5, <4>1, <4>2 DEF Expected
      <4>3. CASE i # n - 1
        <5>1. i \in 1 .. n - 2
          BY <1>1, <4>3
        <5> QED
          BY <2>2, <4>1, <5>1
      <4> QED
        BY <4>2, <4>3
    <3>3. CASE d = 0
      BY <1>2, <1>10, <1>11, <3>1, <3>2, <3>3 DEF Aligned
    <3>4. CASE d > 0
      <4>1. CASE d = n - 1
        <5>1. /\ ~frames'[n - 1].seq /\ EmptyString \in frames'[n - 1].keys
              /\ nest'[n - 1 + g] # "key"
          BY <1>2, <2>3, <2>4, <2>5, <3>4, <4>1 DEF Aligned, Expectations
        <5> QED
          BY <1>2, <1>10, <1>11, <2>3, <3>1, <3>2, <3>4, <4>1, <5>1 DEF Aligned
      <4>2. CASE d # n - 1
        <5>1. d \in 1 .. n - 2
          BY <1>1, <1>5, <3>4, <4>2
        <5>2. frames'[d] = frames[d] /\ nest'[d + g] = nest[d + g]
          BY <2>2, <5>1
        <5> QED
          BY <1>2, <1>10, <1>11, <3>1, <3>2, <3>4, <5>2 DEF Aligned
      <4> QED
        BY <4>1, <4>2
    <3> QED
      BY <1>1, <3>3, <3>4
  <2>7. ASSUME NEW i \in 1 .. Len(frames') - 1 PROVE frames'[i].seq \/ frames'[i].pending
    <3>1. i \in 1 .. n - 2 /\ i \in 1 .. n - 1
      BY <1>1, <1>11
    <3> QED
      BY <2>2, <3>1 DEF StackInv
  <2>8. d \in 0 .. Len(frames')
    BY <1>1, <1>5, <1>11
  <2> QED
    BY <2>1, <2>6, <2>7, <2>8 DEF StackInv
<1>14. n \in Nat \ {0}
  BY <1>1
<1>15. n = 1 \/ n > 1
  BY ONLY <1>14
<1> QED
  BY <1>12, <1>13, <1>15

-----------------------------------------------------------------------------
(* The loader of YAML files: the tree. *)

\* Where an activation puts its nodes.
LEMMA PathFields ==
    ASSUME NEW fs \in Seq(Activations)
    PROVE  /\ Path(fs) \in Seq(Strings)
           /\ Len(Path(fs)) = Len(fs)
           /\ \A i \in 1 .. Len(fs) : Path(fs)[i] = fs[i].key
           /\ Len(fs) = 1 => Path(fs) = <<fs[1].key>>
<1>1. Len(fs) \in Nat /\ \A i \in 1 .. Len(fs) : fs[i].key \in Strings
  <2>1. \A i \in 1 .. Len(fs) : fs[i] \in Activations
    OBVIOUS
  <2> QED
    BY <2>1 DEF Activations
<1>2. Path(fs) \in Seq(Strings) /\ Len(Path(fs)) = Len(fs)
  BY <1>1 DEF Path
<1>3. \A i \in 1 .. Len(fs) : Path(fs)[i] = fs[i].key
  BY DEF Path
<1>4. ASSUME Len(fs) = 1 PROVE Path(fs) = <<fs[1].key>>
  <2>1. fs[1].key \in Strings
    BY <1>1, <1>4
  <2> QED
    BY <1>2, <1>3, <1>4, <2>1, SeqEqual
<1> QED
  BY <1>2, <1>3, <1>4

\* What a node that is stored changes.
Stored(fs, node, tree) ==
    /\ tree \in [DOMAIN tree -> Nodes] /\ DOMAIN tree \subseteq Paths
    /\ DOMAIN tree = IF Kept(fs) THEN DOMAIN doc \cup {Path(fs)} ELSE DOMAIN doc
    /\ Kept(fs) => tree[Path(fs)] = node
    /\ \A p \in DOMAIN doc : (Kept(fs) => p # Path(fs)) => tree[p] = doc[p]

\* That is what Store makes of the tree.
LEMMA StoreFields ==
    ASSUME YamlType, NEW fs \in Seq(Activations), NEW node \in Nodes
    PROVE  Stored(fs, node, Store(fs, node))
<1>1. doc \in [DOMAIN doc -> Nodes] /\ DOMAIN doc \subseteq Paths
  BY DEF YamlType
<1>2. CASE Kept(fs)
  <2>1. Path(fs) \in Paths
    BY <1>2, PathFields DEF Kept, Paths
  <2> DEFINE tree == [p \in DOMAIN doc \cup {Path(fs)} |-> IF p = Path(fs) THEN node ELSE doc[p]]
  <2>2. Store(fs, node) = tree
    BY <1>2 DEF Store
  <2>3. DOMAIN tree = DOMAIN doc \cup {Path(fs)} /\ tree \in [DOMAIN tree -> Nodes]
    BY <1>1
  <2>4. tree[Path(fs)] = node /\ \A p \in DOMAIN doc : p # Path(fs) => tree[p] = doc[p]
    OBVIOUS
  <2> HIDE DEF tree
  <2> QED
    BY <1>1, <1>2, <2>1, <2>2, <2>3, <2>4 DEF Stored
<1>3. CASE ~Kept(fs)
  BY <1>1, <1>3 DEF Store, Stored
<1> QED
  BY <1>2, <1>3

\* Entries of the second level are below a mapping.
BelowMappings == \A p \in DOMAIN doc : Len(p) = 2 => <<p[1]>> \in DOMAIN doc /\ doc[<<p[1]>>] = Mapping

TreeInv ==
    /\ loader \in {"idle", "top"} => doc = [p \in {<<>>} |-> Empty]
    /\ loader = "loaded" => BelowMappings /\ \A p \in DOMAIN doc : doc[p] = Empty => p = <<>>
    /\ loader = "nested" =>
          LET n == Len(frames)
              waits == ~frames[n].seq /\ frames[n].pending /\ Kept(frames)
          IN  /\ BelowMappings
              /\ \A p \in DOMAIN doc : doc[p] = Empty => waits /\ p = Path(frames)
              /\ waits => Path(frames) \in DOMAIN doc /\ doc[Path(frames)] = Empty
              /\ n > 1 /\ ~frames[1].seq /\ ~frames[2].seq =>
                    <<frames[1].key>> \in DOMAIN doc /\ doc[<<frames[1].key>>] = Mapping
              /\ \A p \in DOMAIN doc : Len(p) > 0 => p[1] \in frames[1].keys

\* A value takes the place of the empty node of its key.
LEMMA ValueStored ==
    ASSUME YamlType, TreeInv, loader = "nested", Len(frames) > 0,
           frames[Len(frames)].seq \/ frames[Len(frames)].pending,
           NEW node \in Nodes, node # Empty, doc' = Store(frames, node)
    PROVE  /\ doc' \in [DOMAIN doc' -> Nodes] /\ DOMAIN doc' = DOMAIN doc
           /\ BelowMappings'
           /\ \A p \in DOMAIN doc' : doc'[p] # Empty
           /\ \A p \in DOMAIN doc : Len(p) # Len(frames) => doc'[p] = doc[p]
           /\ Kept(frames) => doc'[Path(frames)] = node
<1> DEFINE n == Len(frames)
           waits == ~frames[n].seq /\ frames[n].pending /\ Kept(frames)
<1>1. frames \in Seq(Activations) /\ n \in Nat \ {0}
  BY DEF YamlType
<1>2. Stored(frames, node, doc')
  BY <1>1, StoreFields
<1>3. Len(Path(frames)) = n /\ (n = 1 => Path(frames) = <<frames[1].key>>)
  BY <1>1, PathFields
<1>4. Kept(frames) => waits
  BY <1>1 DEF Kept
<1>5. Kept(frames) => Path(frames) \in DOMAIN doc /\ doc[Path(frames)] = Empty
  BY <1>4 DEF TreeInv
<1>6. doc' \in [DOMAIN doc' -> Nodes] /\ DOMAIN doc' = DOMAIN doc
  BY <1>2, <1>5 DEF Stored
<1>7. \A p \in DOMAIN doc' : doc'[p] # Empty
  BY <1>2, <1>4, <1>6 DEF Stored, TreeInv
<1>8. \A p \in DOMAIN doc : Len(p) # n => doc'[p] = doc[p]
  BY <1>2, <1>3 DEF Stored
<1>9. BelowMappings'
  <2> SUFFICES ASSUME NEW p \in DOMAIN doc, Len(p) = 2
               PROVE  <<p[1]>> \in DOMAIN doc /\ doc'[<<p[1]>>] = Mapping
    BY <1>6 DEF BelowMappings
  <2>1. <<p[1]>> \in DOMAIN doc /\ doc[<<p[1]>>] = Mapping
    BY DEF TreeInv, BelowMappings
  <2>2. <<p[1]>> # Path(frames) \/ ~Kept(frames)
    BY <1>5, <2>1, NodeTypes
  <2> QED
    BY <1>2, <2>1, <2>2 DEF Stored
<1> QED
  BY <1>2, <1>6, <1>7, <1>8, <1>9 DEF Stored

\* The types and the tree together.
DataInv == YamlType /\ TreeInv

\* A scalar is stored in the tree.
LEMMA LeafData ==
    ASSUME DataInv, loader = "nested", Len(frames) > 0,
           frames[Len(frames)].seq \/ frames[Len(frames)].pending,
           NEW v \in Strings, doc' = Store(frames, Scalar(v)), frames' = Settled(frames),
           loader' = loader, file' = file,
           nest' \in Seq(Expectations), events' \in 0 .. MaxEvents, oddKey' \in BOOLEAN
    PROVE  DataInv'
<1> DEFINE n == Len(frames)
<1>1. frames \in Seq(Activations) /\ n \in Nat \ {0}
  BY DEF DataInv, YamlType
<1>2. Resumed(frames, frames')
  BY <1>1, SettledFields
<1>3. Scalar(v) \in Nodes /\ Scalar(v) # Empty
  BY NodeTypes DEF Nodes
<1>4. /\ doc' \in [DOMAIN doc' -> Nodes] /\ DOMAIN doc' = DOMAIN doc
      /\ BelowMappings'
      /\ \A p \in DOMAIN doc' : doc'[p] # Empty
      /\ \A p \in DOMAIN doc : Len(p) # n => doc'[p] = doc[p]
  BY <1>3, ValueStored DEF DataInv
<1>5. ASSUME NEW i \in 1 .. n
      PROVE  frames'[i].seq = frames[i].seq /\ frames'[i].key = frames[i].key /\ frames'[i].keys = frames[i].keys
  BY <1>1, <1>2 DEF Resumed
<1>6. YamlType'
  BY <1>2, <1>4, <1>5 DEF DataInv, YamlType, Resumed
<1>7. Len(frames') = n /\ frames'[n].pending = FALSE
  BY <1>1, <1>2 DEF Resumed
<1>8. ASSUME n > 1, ~frames'[1].seq, ~frames'[2].seq
      PROVE  <<frames'[1].key>> \in DOMAIN doc' /\ doc'[<<frames'[1].key>>] = Mapping
  <2>1. <<frames[1].key>> \in DOMAIN doc /\ doc[<<frames[1].key>>] = Mapping
    BY <1>1, <1>5, <1>8 DEF DataInv, TreeInv
  <2>2. Len(<<frames[1].key>>) # n
    BY <1>8
  <2> QED
    BY <1>1, <1>4, <1>5, <2>1, <2>2
<1>9. ASSUME NEW p \in DOMAIN doc', Len(p) > 0 PROVE p[1] \in frames'[1].keys
  BY <1>1, <1>4, <1>5, <1>9 DEF DataInv, TreeInv
<1>10. TreeInv'
  BY <1>1, <1>4, <1>7, <1>8, <1>9 DEF TreeInv
<1> QED
  BY <1>6, <1>10 DEF DataInv

\* A collection begins: its node is stored, and it is read next.
LEMMA PushData ==
    ASSUME DataInv, loader = "nested", Len(frames) > 0,
           frames[Len(frames)].seq \/ frames[Len(frames)].pending,
           \/ frames' = Append(frames, MapFrame) /\ doc' = Store(frames, Mapping)
           \/ frames' = Append(frames, SeqFrame) /\ doc' = Store(frames, Sequence),
           loader' = loader, file' = file,
           nest' \in Seq(Expectations), events' \in 0 .. MaxEvents, oddKey' \in BOOLEAN
    PROVE  DataInv'
<1> DEFINE n == Len(frames)
<1>1. frames \in Seq(Activations) /\ n \in Nat \ {0}
  BY DEF DataInv, YamlType
<1>3. PICK f \in Activations, node \in {Mapping, Sequence} :
            /\ frames' = Append(frames, f) /\ doc' = Store(frames, node)
            /\ f.pending = FALSE /\ f.key = EmptyString /\ (f.seq \/ node = Mapping)
  BY FrameTypes
<1>4. node \in Nodes /\ node # Empty
  BY NodeTypes DEF Nodes
<1>5. /\ doc' \in [DOMAIN doc' -> Nodes] /\ DOMAIN doc' = DOMAIN doc
      /\ BelowMappings'
      /\ \A p \in DOMAIN doc' : doc'[p] # Empty
      /\ \A p \in DOMAIN doc : Len(p) # n => doc'[p] = doc[p]
      /\ Kept(frames) => doc'[Path(frames)] = node
  BY <1>3, <1>4, ValueStored DEF DataInv
<1>6. /\ frames' \in Seq(Activations) /\ Len(frames') = n + 1 /\ frames'[n + 1] = f
      /\ \A i \in 1 .. n : frames'[i] = frames[i]
  BY <1>1, <1>3, AppendProperties
<1>7. ASSUME NEW i \in 1 .. n + 1 PROVE frames'[i].key \in frames'[i].keys \cup {EmptyString}
  <2>1. CASE i = n + 1
    <3>1. frames'[i] = f
      BY <1>6, <2>1
    <3> QED
      BY <1>3, <3>1
  <2>2. CASE i # n + 1
    <3>1. i \in 1 .. n
      BY <1>1, <2>2
    <3>2. frames'[i] = frames[i] /\ frames[i].key \in frames[i].keys \cup {EmptyString}
      BY <1>6, <3>1 DEF DataInv, YamlType
    <3> QED
      BY <3>2
  <2> QED
    BY <2>1, <2>2
<1>8. YamlType'
  BY <1>5, <1>6, <1>7 DEF DataInv, YamlType
<1>9. ASSUME ~frames'[1].seq, ~frames'[2].seq
      PROVE  <<frames'[1].key>> \in DOMAIN doc' /\ doc'[<<frames'[1].key>>] = Mapping
  <2>1. CASE n = 1
    <3>1. frames'[1] = frames[1] /\ frames'[2] = f /\ ~frames[1].seq /\ node = Mapping
      BY <1>1, <1>3, <1>6, <1>9, <2>1
    <3>2. Kept(frames) /\ Path(frames) = <<frames[1].key>>
      BY <1>1, <2>1, <3>1, PathFields DEF Kept
    <3>3. Path(frames) \in DOMAIN doc
      BY <2>1, <3>1, <3>2 DEF DataInv, TreeInv
    <3> QED
      BY <1>5, <3>1, <3>2, <3>3
  <2>2. CASE n > 1
    <3>1. frames'[1] = frames[1] /\ frames'[2] = frames[2]
      BY <1>1, <1>6, <2>2
    <3>2. <<frames[1].key>> \in DOMAIN doc /\ doc[<<frames[1].key>>] = Mapping
      BY <1>9, <2>2, <3>1 DEF DataInv, TreeInv
    <3>3. Len(<<frames[1].key>>) # n
      BY <2>2
    <3> QED
      BY <1>5, <3>1, <3>2, <3>3
  <2> QED
    BY <1>1, <2>1, <2>2
<1>10. ASSUME NEW p \in DOMAIN doc', Len(p) > 0 PROVE p[1] \in frames'[1].keys
  BY <1>1, <1>5, <1>6, <1>10 DEF DataInv, TreeInv
<1>11. TreeInv'
  BY <1>1, <1>3, <1>5, <1>6, <1>9, <1>10 DEF TreeInv
<1> QED
  BY <1>8, <1>11 DEF DataInv

\* A key is taken: it is in the tree with an empty node.
LEMMA KeyData ==
    ASSUME DataInv, loader = "nested", Len(frames) > 0,
           ~frames[Len(frames)].seq, ~frames[Len(frames)].pending,
           NEW k \in Strings, k \notin frames[Len(frames)].keys,
           frames' = KeyTaken(k), doc' = Store(frames', Empty),
           loader' = loader, file' = file,
           nest' \in Seq(Expectations), events' \in 0 .. MaxEvents, oddKey' \in BOOLEAN
    PROVE  DataInv'
<1> DEFINE n == Len(frames)
<1>1. frames \in Seq(Activations) /\ n \in Nat \ {0}
  BY DEF DataInv, YamlType
<1>0. n = 1 \/ n > 1
  <2>1. n \in Nat /\ n # 0
    BY <1>1
  <2> HIDE DEF n
  <2> QED
    BY <2>1
<1>2. Took(k, frames')
  BY <1>1, KeyTakenFields
<1>3. frames' \in Seq(Activations) /\ Len(frames') = n /\ Empty \in Nodes
  BY <1>2 DEF Took, Nodes
<1>4. Stored(frames', Empty, doc')
  BY <1>3, StoreFields DEF DataInv
<1>5. /\ Len(Path(frames')) = n /\ (n = 1 => Path(frames') = <<frames'[1].key>>)
      /\ Path(frames')[1] = frames'[1].key
  <2>1. 1 \in 1 .. Len(frames')
    BY <1>1, <1>3
  <2>2. Path(frames')[1] = frames'[1].key
    BY <1>3, <2>1, PathFields
  <2>3. Len(Path(frames')) = n /\ (n = 1 => Path(frames') = <<frames'[1].key>>)
    BY <1>3, PathFields
  <2> QED
    BY <2>2, <2>3
<1>6. /\ frames'[n].key = k /\ frames'[n].pending = TRUE /\ ~frames'[n].seq
      /\ frames'[n].keys = frames[n].keys \cup {k}
      /\ \A i \in 1 .. n - 1 : frames'[i] = frames[i]
  BY <1>2 DEF Took
<1>7. \A p \in DOMAIN doc : doc[p] # Empty
  BY DEF DataInv, TreeInv
<1>8. ASSUME NEW i \in 1 .. n PROVE frames'[i].key \in frames'[i].keys \cup {EmptyString}
  BY <1>1, <1>6 DEF DataInv, YamlType
<1>9. YamlType'
  BY <1>3, <1>4, <1>8 DEF DataInv, YamlType, Stored
\* A kept key of the second level is below its section.
<1>10. ASSUME n > 1, ~frames'[1].seq, ~frames'[2].seq
       PROVE  /\ <<frames'[1].key>> \in DOMAIN doc /\ doc[<<frames'[1].key>>] = Mapping
              /\ <<frames'[1].key>> \in DOMAIN doc' /\ doc'[<<frames'[1].key>>] = Mapping
              /\ frames'[1].key \in frames'[1].keys
  <2>1. frames'[1] = frames[1] /\ ~frames[2].seq
    BY <1>1, <1>2, <1>6, <1>10 DEF Took
  <2>2. <<frames[1].key>> \in DOMAIN doc /\ doc[<<frames[1].key>>] = Mapping
    BY <1>10, <2>1 DEF DataInv, TreeInv
  <2>3. <<frames[1].key>> # Path(frames')
    <3>1. Len(<<frames[1].key>>) # n
      BY <1>10
    <3> QED
      BY <1>5, <3>1
  <2>4. frames[1].key \in frames[1].keys
    BY <2>2 DEF DataInv, TreeInv
  <2> QED
    BY <1>4, <2>1, <2>2, <2>3, <2>4 DEF Stored
<1>11. ASSUME NEW p \in DOMAIN doc' PROVE p \in DOMAIN doc \/ (p = Path(frames') /\ Kept(frames'))
  BY <1>4 DEF Stored
<1>12. BelowMappings'
  <2> SUFFICES ASSUME NEW p \in DOMAIN doc', Len(p) = 2
               PROVE  <<p[1]>> \in DOMAIN doc' /\ doc'[<<p[1]>>] = Mapping
    BY DEF BelowMappings
  <2>1. CASE p \in DOMAIN doc
    <3>1. <<p[1]>> \in DOMAIN doc /\ doc[<<p[1]>>] = Mapping /\ p[1] \in frames[1].keys
      BY <2>1 DEF DataInv, TreeInv, BelowMappings
    <3>2. <<p[1]>> # Path(frames')
      <4>1. CASE n = 1
        BY <1>5, <1>6, <3>1, <4>1
      <4>2. CASE n # 1
        BY <1>5, <4>2
      <4> QED
        BY <4>1, <4>2
    <3> QED
      BY <1>4, <3>1, <3>2 DEF Stored
  <2>2. CASE p = Path(frames') /\ Kept(frames')
    BY <1>3, <1>5, <1>10, <2>2 DEF Kept
  <2> QED
    BY <1>11, <2>1, <2>2
<1>13. ASSUME NEW p \in DOMAIN doc', Len(p) > 0 PROVE p[1] \in frames'[1].keys
  <2>1. CASE p \in DOMAIN doc
    <3>1. p[1] \in frames[1].keys
      BY <1>13, <2>1 DEF DataInv, TreeInv
    <3> QED
      BY <1>1, <1>6, <3>1
  <2>2. CASE p = Path(frames') /\ Kept(frames')
    <3>1. CASE n = 1
      BY <1>5, <1>6, <2>2, <3>1
    <3>2. CASE n > 1
      <4>1. ~frames'[1].seq /\ ~frames'[2].seq
        BY <1>1, <1>3, <2>2, <3>2 DEF Kept
      <4> QED
        BY <1>5, <1>10, <2>2, <3>2, <4>1
    <3> QED
      BY <1>0, <3>1, <3>2
  <2> QED
    BY <1>11, <2>1, <2>2
<1>14. ASSUME NEW p \in DOMAIN doc', doc'[p] = Empty PROVE p = Path(frames') /\ Kept(frames')
  BY <1>4, <1>7, <1>14 DEF Stored
<1>15. Kept(frames') => Path(frames') \in DOMAIN doc' /\ doc'[Path(frames')] = Empty
  BY <1>4 DEF Stored
<1>16. TreeInv'
  BY <1>3, <1>6, <1>10, <1>12, <1>13, <1>14, <1>15 DEF TreeInv
<1> QED
  BY <1>9, <1>16 DEF DataInv

\* A collection ends: the tree stays as it is.
LEMMA ReturnData ==
    ASSUME DataInv, loader = "nested", Len(frames) > 0, Return,
           frames[Len(frames)].seq \/ ~frames[Len(frames)].pending,
           nest' \in Seq(Expectations), events' \in 0 .. MaxEvents, oddKey' \in BOOLEAN
    PROVE  DataInv'
<1> DEFINE n == Len(frames)
           fs == Front(frames)
<1>1. frames \in Seq(Activations) /\ n \in Nat \ {0}
  BY DEF DataInv, YamlType
<1>2. /\ fs \in Seq(Activations) /\ Len(fs) = n - 1
      /\ \A i \in 1 .. n - 1 : fs[i] = frames[i]
  BY <1>1, TopFacts
<1>3. Resumed(fs, frames') /\ doc' = doc
  BY <1>2, SettledFields DEF Return
<1>4. Len(frames') = n - 1 /\ frames' \in Seq(Activations)
  BY <1>2, <1>3 DEF Resumed
<1>5. ASSUME NEW i \in 1 .. n - 1
      PROVE  frames'[i].seq = frames[i].seq /\ frames'[i].key = frames[i].key /\ frames'[i].keys = frames[i].keys
  BY <1>1, <1>2, <1>3 DEF Resumed
<1>6. loader' \in {"nested", "loaded"} /\ (loader' = "nested" => n > 1) /\ file' \in {"open", "closed"}
  <2>1. fs # <<>> => Len(fs) > 0
    BY <1>2, NonEmpty
  <2> QED
    BY <1>1, <1>2, <2>1 DEF Return, DataInv, YamlType
<1>7. YamlType'
  <2>1. ASSUME NEW i \in 1 .. Len(frames') PROVE frames'[i].key \in frames'[i].keys \cup {EmptyString}
    <3>1. i \in 1 .. n - 1 /\ i \in 1 .. n
      BY <1>1, <1>4
    <3>2. frames[i].key \in frames[i].keys \cup {EmptyString}
      BY <3>1 DEF DataInv, YamlType
    <3> QED
      BY <1>5, <3>1, <3>2
  <2> QED
    BY <1>3, <1>4, <1>6, <2>1 DEF DataInv, YamlType, Loaders
<1>8. BelowMappings' /\ \A p \in DOMAIN doc' : doc'[p] # Empty
  BY <1>3 DEF DataInv, TreeInv, BelowMappings
<1>9. TreeInv'
  <2>1. CASE loader' = "loaded"
    BY <1>8, <2>1 DEF TreeInv
  <2>2. CASE loader' = "nested"
    <3>1. n > 1 /\ frames'[n - 1].pending = FALSE
      BY <1>1, <1>2, <1>3, <1>6, <2>2 DEF Resumed
    <3>2. ASSUME n - 1 > 1, ~frames'[1].seq, ~frames'[2].seq
          PROVE  <<frames'[1].key>> \in DOMAIN doc' /\ doc'[<<frames'[1].key>>] = Mapping
      BY <1>1, <1>3, <1>5, <3>2 DEF DataInv, TreeInv
    <3>3. ASSUME NEW p \in DOMAIN doc', Len(p) > 0 PROVE p[1] \in frames'[1].keys
      BY <1>1, <1>3, <1>5, <3>1, <3>3 DEF DataInv, TreeInv
    <3> QED
      BY <1>4, <1>8, <2>2, <3>1, <3>2, <3>3 DEF TreeInv
  <2> QED
    BY <1>6, <2>1, <2>2
<1> QED
  BY <1>7, <1>9 DEF DataInv

-----------------------------------------------------------------------------
(* The loader of YAML files: its steps. *)

YamlInv ==
    /\ DataInv
    /\ StackInv
    /\ loader \in {"idle", "loaded"} => file = "closed"

\* A loader that has not begun.
LEMMA YamlInit == InitLoader => YamlInv
<1> SUFFICES ASSUME InitLoader PROVE YamlInv
  OBVIOUS
<1>1. DOMAIN doc = {<<>>} /\ doc = [p \in {<<>>} |-> Empty] /\ <<>> \in Paths /\ Empty \in Nodes
  BY DEF InitLoader, Paths, Nodes
<1>2. doc \in [DOMAIN doc -> Nodes] /\ DOMAIN doc \subseteq Paths
  BY <1>1
<1>3. /\ nest = <<>> /\ frames = <<>> /\ Len(frames) = 0
      /\ nest \in Seq(Expectations) /\ frames \in Seq(Activations)
  BY DEF InitLoader
<1>4. YamlType
  <2>1. events \in 0 .. MaxEvents /\ 1 .. Len(frames) = {}
    BY <1>3, EventsAssumption DEF InitLoader
  <2> QED
    BY <1>2, <1>3, <2>1 DEF InitLoader, YamlType, Loaders
<1> QED
  BY <1>1, <1>3, <1>4 DEF InitLoader, YamlInv, DataInv, TreeInv, StackInv

\* An event keeps the types of libyaml's side.
LEMMA ParseTypes ==
    ASSUME YamlInv, loader = "nested", NEW e, Parse(e)
    PROVE  /\ e \in Offers /\ nest' \in Seq(Expectations) /\ events' \in 0 .. MaxEvents
           /\ oddKey' \in BOOLEAN
           /\ Len(frames) > 0 /\ Len(nest) > 0
           /\ nest \in Seq(Expectations) /\ frames \in Seq(Activations)
<1>1. /\ nest \in Seq(Expectations) /\ frames \in Seq(Activations) /\ oddKey \in BOOLEAN
      /\ events \in 0 .. MaxEvents
  BY DEF YamlInv, DataInv, YamlType
<1>2. Len(frames) \in Nat /\ Len(nest) \in Nat
  BY <1>1
<1>3. Len(frames) > 0 /\ Len(nest) > 0
  <2>1. Len(frames) > 0 /\ \E g \in Nat : Len(nest) = Len(frames) + g
    BY DEF YamlInv, StackInv, Aligned
  <2> QED
    BY <1>2, <2>1
<1>4. e \in Offers /\ events' \in 0 .. MaxEvents
  BY <1>1, EventsAssumption DEF Parse
<1>5. oddKey' \in BOOLEAN
  BY <1>1, OddKeySteps
<1>6. nest' \in Seq(Expectations)
  <2>1. Append(nest, "key") \in Seq(Expectations) /\ Append(nest, "item") \in Seq(Expectations)
    BY <1>1, AppendProperties DEF Expectations
  <2> QED
    BY <1>1, <1>3, <1>4, <2>1, NestSteps, EventFields DEF Advanced
<1> QED
  BY <1>1, <1>3, <1>4, <1>5, <1>6

\* Nothing is said of a loader that threw.
LEMMA ThrowInv ==
    ASSUME YamlInv, Throw, nest' \in Seq(Expectations), events' \in 0 .. MaxEvents, oddKey' \in BOOLEAN
    PROVE  YamlInv'
BY DEF YamlInv, DataInv, YamlType, TreeInv, StackInv, Throw, Loaders

\* The value of a key, or an item.
LEMMA NodeInv ==
    ASSUME YamlInv, loader = "nested", NEW e, Parse(e), LoadNode(e),
           frames[Len(frames)].seq \/ frames[Len(frames)].pending
    PROVE  YamlInv'
<1>1. /\ e \in Offers /\ nest' \in Seq(Expectations) /\ events' \in 0 .. MaxEvents
      /\ oddKey' \in BOOLEAN /\ Len(frames) > 0 /\ Len(nest) > 0 /\ nest \in Seq(Expectations)
  BY ParseTypes
<1>2. DataInv /\ YamlType /\ StackInv
  BY DEF YamlInv, DataInv
<1>3. CASE e.type = "scalar" /\ doc' = Store(frames, Scalar(e.value)) /\ frames' = Settled(frames)
           /\ UNCHANGED <<loader, file>>
  <2>1. e.value \in Strings
    BY <1>1, EventFields
  <2>2. DataInv'
    BY <1>1, <1>2, <1>3, <2>1, LeafData
  <2>3. StackInv'
    BY <1>2, <1>3, LeafStack
  <2> QED
    BY <1>3, <2>2, <2>3 DEF YamlInv
<1>4. CASE \/ e.type = "mapping_start" /\ doc' = Store(frames, Mapping) /\ frames' = Append(frames, MapFrame)
              /\ UNCHANGED <<loader, file>>
           \/ e.type = "sequence_start" /\ doc' = Store(frames, Sequence) /\ frames' = Append(frames, SeqFrame)
              /\ UNCHANGED <<loader, file>>
  <2>1. DataInv'
    BY <1>1, <1>2, <1>4, PushData
  <2>2. StackInv'
    BY <1>2, <1>4, PushStack
  <2> QED
    BY <1>4, <2>1, <2>2 DEF YamlInv
<1>5. CASE Throw
  BY <1>1, <1>5, ThrowInv
<1> QED
  BY <1>3, <1>4, <1>5 DEF LoadNode, LoadNodeWith

\* The end of a collection.
LEMMA ReturnInv ==
    ASSUME YamlInv, loader = "nested", NEW e, Parse(e), Return,
           IF frames[Len(frames)].seq THEN e.type = "sequence_end"
           ELSE e.type = "mapping_end" /\ ~frames[Len(frames)].pending
    PROVE  YamlInv'
<1>1. /\ nest' \in Seq(Expectations) /\ events' \in 0 .. MaxEvents
      /\ oddKey' \in BOOLEAN /\ Len(frames) > 0
  BY ParseTypes
<1>2. DataInv /\ YamlType /\ StackInv
  BY DEF YamlInv, DataInv
<1>3. DataInv'
  BY <1>1, <1>2, ReturnData
<1>4. StackInv'
  BY <1>2, ReturnStack
<1>5. loader' \in {"idle", "loaded"} => file' = "closed"
  BY DEF Return
<1> QED
  BY <1>3, <1>4, <1>5 DEF YamlInv

\* What a step of load_mapping does with an event.
LEMMA KeyCases ==
    ASSUME LoadKey
    PROVE  \E e \in Offers :
              /\ Parse(e)
              /\ \/ e.type = "mapping_end" /\ Return
                 \/ e.type # "mapping_end" /\ Throw
                 \/ /\ e.type # "mapping_end"
                    /\ e.value \notin Last(frames).keys
                    /\ frames' = KeyTaken(e.value)
                    /\ doc' = Store(frames', Empty) /\ UNCHANGED <<loader, file>>
BY Zenon DEF LoadKey, LoadKeyUnless, KeyTaken

\* The next key of a mapping, its end, or a key that is there already.
LEMMA KeyInv == YamlInv /\ LoadKey => YamlInv'
<1> SUFFICES ASSUME YamlInv, LoadKey PROVE YamlInv'
  OBVIOUS
<1>1. loader = "nested" /\ ~Last(frames).seq /\ ~Last(frames).pending
  BY DEF LoadKey, LoadKeyUnless, InMapping
<1>2. PICK e \in Offers :
          /\ Parse(e)
          /\ \/ e.type = "mapping_end" /\ Return
             \/ e.type # "mapping_end" /\ Throw
             \/ /\ e.type # "mapping_end"
                /\ e.value \notin Last(frames).keys
                /\ frames' = KeyTaken(e.value)
                /\ doc' = Store(frames', Empty) /\ UNCHANGED <<loader, file>>
  BY KeyCases
<1>3. /\ nest' \in Seq(Expectations) /\ events' \in 0 .. MaxEvents
      /\ oddKey' \in BOOLEAN /\ Len(frames) > 0 /\ Len(nest) > 0 /\ nest \in Seq(Expectations)
  BY <1>1, <1>2, ParseTypes
<1>4. DataInv /\ YamlType /\ StackInv /\ ~frames[Len(frames)].seq /\ ~frames[Len(frames)].pending
  BY <1>1 DEF YamlInv, DataInv, Last
<1>5. CASE e.type = "mapping_end" /\ Return
  BY <1>1, <1>2, <1>4, <1>5, ReturnInv
<1>6. CASE Throw
  BY <1>3, <1>6, ThrowInv
<1>7. CASE /\ e.type # "mapping_end"
           /\ e.value \notin Last(frames).keys
           /\ frames' = KeyTaken(e.value)
           /\ doc' = Store(frames', Empty) /\ UNCHANGED <<loader, file>>
  <2>1. e.value \in Strings /\ e.value \notin frames[Len(frames)].keys
    BY <1>3, <1>7, EventFields DEF Last
  <2>2. DataInv'
    BY <1>1, <1>3, <1>4, <1>7, <2>1, KeyData
  <2>3. StackInv'
    BY <1>1, <1>2, <1>4, <1>7, <2>1, KeyStack
  <2> QED
    BY <1>1, <1>7, <2>2, <2>3 DEF YamlInv
<1> QED
  BY <1>2, <1>5, <1>6, <1>7

\* The value of a key.
LEMMA ValueInv == YamlInv /\ LoadValue => YamlInv'
<1> SUFFICES ASSUME YamlInv, LoadValue PROVE YamlInv'
  OBVIOUS
<1>1. loader = "nested" /\ frames[Len(frames)].pending
  BY DEF LoadValue, InMapping, Last
<1>2. PICK e \in Offers : Parse(e) /\ LoadNode(e)
  BY DEF LoadValue
<1> QED
  BY <1>1, <1>2, NodeInv

\* The next item of a sequence, or its end.
LEMMA ItemInv == YamlInv /\ LoadItem => YamlInv'
<1> SUFFICES ASSUME YamlInv, LoadItem PROVE YamlInv'
  OBVIOUS
<1>1. loader = "nested" /\ frames[Len(frames)].seq
  BY DEF LoadItem, Last
<1>2. PICK e \in Offers :
          /\ Parse(e)
          /\ \/ e.type = "sequence_end" /\ Return
             \/ e.type # "sequence_end" /\ LoadNode(e)
  BY DEF LoadItem
<1>3. CASE e.type = "sequence_end" /\ Return
  BY <1>1, <1>2, <1>3, ReturnInv
<1>4. CASE LoadNode(e)
  BY <1>1, <1>2, <1>4, NodeInv
<1> QED
  BY <1>2, <1>3, <1>4

\* Whatever load_top reads up to the first collection.
LEMMA TopInv == YamlInv /\ LoadTop => YamlInv'
<1> SUFFICES ASSUME YamlInv, LoadTop PROVE YamlInv'
  OBVIOUS
<1>1. PICK e \in Offers :
          /\ Parse(e)
          /\ \/ /\ e.type = "stream_end"
                /\ loader' = "loaded"
                /\ file' = "closed"
                /\ UNCHANGED <<frames, doc>>
             \/ /\ e \in Starts
                /\ loader' = "nested"
                /\ frames' = <<IF e.type = "mapping_start" THEN MapFrame ELSE SeqFrame>>
                /\ doc' = Store(<<>>, IF e.type = "mapping_start" THEN Mapping ELSE Sequence)
                /\ UNCHANGED file
             \/ /\ e.type \in {"scalar", "alias", "document"}
                /\ UNCHANGED <<loader, file, frames, doc>>
  BY DEF LoadTop
<1>2. /\ loader = "top" /\ nest = <<>> /\ frames = <<>> /\ oddKey = FALSE
      /\ YamlType /\ doc = [p \in {<<>>} |-> Empty] /\ file \in {"open", "closed"}
  BY DEF LoadTop, YamlInv, DataInv, YamlType, TreeInv, StackInv
<1>3. oddKey' = FALSE /\ events' \in 0 .. MaxEvents /\ nest' = Advance(e)
  <2>1. events \in 0 .. MaxEvents
    BY <1>2 DEF YamlType
  <2>2. events < MaxEvents /\ events' = events + 1 /\ nest' = Advance(e)
    BY <1>1 DEF Parse
  <2>3. events' \in 0 .. MaxEvents
    BY <2>1, <2>2, EventsAssumption
  <2>4. oddKey' = FALSE
    BY <1>1, <1>2, Zenon DEF Parse
  <2> QED
    BY <2>2, <2>3, <2>4
<1>4. \/ e = Event("mapping_start") \/ e = Event("sequence_start")
      \/ e.type \in {"scalar", "alias", "document", "stream_end"}
  BY <1>2 DEF Offers, Starts, Leaves, Event, Text
<1>5. NodeEnds(<<>>) = <<>>
  BY DEF NodeEnds
<1>6. CASE e.type \in {"scalar", "alias", "document", "stream_end"}
  <2>1. e \notin Starts /\ e \notin Ends
    BY <1>6 DEF Starts, Ends, Event
  <2>2. nest' = <<>>
    BY <1>2, <1>3, <1>5, <1>6, <2>1 DEF Advance
  <2>3. frames' = <<>> /\ doc' = doc
    BY <1>1, <1>2, <2>1
  <2>4. \/ loader' = "loaded" /\ file' = "closed"
        \/ loader' = "top" /\ file' = file
    BY <1>1, <1>2, <2>1
  <2>5. YamlType'
    BY <1>2, <1>3, <2>2, <2>3, <2>4 DEF YamlType, Loaders
  <2>6. TreeInv'
    <3>1. \A p \in DOMAIN doc : p = <<>> /\ Len(p) = 0
      BY <1>2
    <3> QED
      BY <1>2, <2>3, <2>4, <3>1 DEF TreeInv, BelowMappings
  <2>7. StackInv'
    BY <1>3, <2>2, <2>3, <2>4 DEF StackInv
  <2> QED
    BY <2>4, <2>5, <2>6, <2>7 DEF YamlInv, DataInv
<1>7. CASE e = Event("mapping_start") \/ e = Event("sequence_start")
  <2>1. e \in Starts /\ e.type \in {"mapping_start", "sequence_start"}
    BY <1>7 DEF Starts, Event
  <2>2. PICK f \in {MapFrame, SeqFrame}, node \in {Mapping, Sequence}, x \in {"key", "item"} :
            /\ frames' = <<f>> /\ doc' = Store(<<>>, node) /\ nest' = <<x>> /\ x = Expected(f)
    <3>1. Expected(MapFrame) = "key" /\ Expected(SeqFrame) = "item"
      BY FrameTypes DEF Expected
    <3>2. /\ e.type = "mapping_start" => nest' = Append(nest, "key")
          /\ e.type = "sequence_start" => nest' = Append(nest, "item")
      <4>1. e \notin Ends
        BY <2>1 DEF Ends, Event
      <4> QED
        BY <1>3, <2>1, <4>1 DEF Advance
    <3>3. /\ e.type = "mapping_start" => nest' = <<"key">>
          /\ e.type = "sequence_start" => nest' = <<"item">>
      BY <1>2, <3>2
    <3>4. /\ frames' = <<IF e.type = "mapping_start" THEN MapFrame ELSE SeqFrame>>
          /\ doc' = Store(<<>>, IF e.type = "mapping_start" THEN Mapping ELSE Sequence)
      BY <1>1, <2>1
    <3>5. CASE e.type = "mapping_start"
      BY <3>1, <3>3, <3>4, <3>5, Zenon
    <3>6. CASE e.type = "sequence_start"
      <4>1. e.type # "mapping_start"
        BY <3>6
      <4> QED
        BY <3>1, <3>3, <3>4, <3>6, <4>1, Zenon
    <3> QED
      BY <2>1, <3>5, <3>6
  <2>3. loader' = "nested" /\ file' = file
    BY <1>1, <2>1
  <2>4. /\ f \in Activations /\ f.pending = FALSE /\ f.key = EmptyString
        /\ node \in Nodes /\ node # Empty /\ x \in Expectations
    BY FrameTypes, NodeTypes DEF Nodes, Expectations
  <2>5. /\ frames' \in Seq(Activations) /\ Len(frames') = 1 /\ frames'[1] = f
        /\ nest' \in Seq(Expectations) /\ Len(nest') = 1 /\ nest'[1] = x
    BY <2>2, <2>4
  <2>6. doc' = [p \in {<<>>} |-> node]
    <3>1. Kept(<<>>) /\ Path(<<>>) = <<>>
      BY DEF Kept, Path
    <3> QED
      BY <1>2, <2>2, <3>1 DEF Store
  <2>7. doc' \in [DOMAIN doc' -> Nodes] /\ DOMAIN doc' \subseteq Paths
    <3>1. DOMAIN doc' = {<<>>} /\ <<>> \in Paths
      BY <2>6 DEF Paths
    <3> QED
      BY <2>4, <2>6, <3>1
  <2>8. \A p \in DOMAIN doc' : p = <<>> /\ Len(p) = 0 /\ doc'[p] # Empty
    BY <2>4, <2>6
  <2>9. YamlType'
    <3>1. \A i \in 1 .. Len(frames') : frames'[i].key \in frames'[i].keys \cup {EmptyString}
      BY <2>4, <2>5
    <3> QED
      BY <1>2, <1>3, <2>3, <2>5, <2>7, <3>1 DEF YamlType, Loaders
  <2>10. TreeInv'
    BY <2>3, <2>4, <2>5, <2>8 DEF TreeInv, BelowMappings
  <2>11. Aligned(0, 0)'
    BY <1>3, <2>2, <2>5 DEF Aligned
  <2>12. StackInv'
    BY <2>3, <2>5, <2>11 DEF StackInv
  <2> QED
    BY <2>3, <2>9, <2>10, <2>12 DEF YamlInv, DataInv
<1> QED
  BY <1>4, <1>6, <1>7

\* The whole of load_file.
LEMMA YamlStep == YamlInv /\ (Open \/ OpenFails \/ NextLoader) => YamlInv'
<1> SUFFICES ASSUME YamlInv, Open \/ OpenFails \/ NextLoader PROVE YamlInv'
  OBVIOUS
<1>1. CASE Open
  BY <1>1 DEF Open, YamlInv, DataInv, YamlType, TreeInv, StackInv, Loaders
<1>2. CASE OpenFails
  BY <1>2 DEF OpenFails, YamlInv, DataInv, YamlType, TreeInv, StackInv, Loaders
<1>3. CASE ParserFails
  <2>1. nest' \in Seq(Expectations) /\ events' \in 0 .. MaxEvents /\ oddKey' \in BOOLEAN
    BY <1>3 DEF ParserFails, YamlInv, DataInv, YamlType
  <2> QED
    BY <1>3, <2>1, ThrowInv DEF ParserFails
<1> QED
  BY <1>1, <1>2, <1>3, TopInv, KeyInv, ValueInv, ItemInv DEF NextLoader

\* The invariant is about the variables of the loader alone.
LEMMA YamlStutter == YamlInv /\ UNCHANGED yamlVars => YamlInv'
BY DEF YamlInv, DataInv, YamlType, TreeInv, BelowMappings, StackInv, Aligned, yamlVars

\* What it says of the states of the loader.
LEMMA YamlProps == YamlInv => LoaderTypeOK /\ InStep /\ LoadedIsComplete
<1> SUFFICES ASSUME YamlInv PROVE LoaderTypeOK /\ InStep /\ LoadedIsComplete
  OBVIOUS
<1>1. YamlType /\ TreeInv /\ StackInv /\ frames \in Seq(Activations) /\ nest \in Seq(Expectations)
  BY DEF YamlInv, DataInv, YamlType
<1>2. LoaderTypeOK
  <2>1. ASSUME NEW i \in 1 .. Len(frames)
        PROVE  /\ frames[i].seq \in BOOLEAN /\ frames[i].pending \in BOOLEAN
               /\ frames[i].keys \subseteq Strings
    <3>1. frames[i] \in Activations
      BY <1>1
    <3> QED
      BY <3>1 DEF Activations
  <2>2. \A p \in DOMAIN doc : Len(p) <= 2
    BY <1>1 DEF YamlType, Paths
  <2> QED
    BY <1>1, <2>1, <2>2 DEF LoaderTypeOK, YamlType, Expectations
<1>3. InStep
  <2> SUFFICES ASSUME loader = "nested", ~oddKey
               PROVE  nest = [i \in 1 .. Len(frames) |-> Expected(frames[i])]
    BY DEF InStep
  <2> DEFINE expected == [i \in 1 .. Len(frames) |-> Expected(frames[i])]
  <2>1. Len(nest) = Len(frames) /\ \A i \in 1 .. Len(frames) : nest[i] = Expected(frames[i])
    <3>1. PICK d \in 0 .. Len(frames), g \in Nat : Aligned(d, g)
      BY <1>1 DEF StackInv
    <3>2. d = 0 /\ g = 0
      BY <1>1, <3>1 DEF Aligned
    <3> QED
      BY <1>1, <3>1, <3>2 DEF Aligned
  <2>2. nest = [i \in 1 .. Len(nest) |-> nest[i]]
    BY <1>1
  <2> QED
    BY <2>1, <2>2
<1>4. LoadedIsComplete
  BY <1>1 DEF LoadedIsComplete, TreeInv, StackInv
<1> QED
  BY <1>2, <1>3, <1>4

-----------------------------------------------------------------------------
(* The loader of YAML files: nothing is read over.                             *)

\* The section that is being read has its keys from its activation; one whose value
\* has not begun has none.
SectionKeys ==
    loader = "nested" =>
        \A p \in DOMAIN doc : Len(p) = 2 /\ ~frames[1].seq /\ p[1] = frames[1].key =>
            /\ Len(frames) = 1 => ~frames[1].pending
            /\ Len(frames) > 1 /\ ~frames[2].seq => p[2] \in frames[2].keys

\* The value of a key takes the place of its empty node, an item is not kept.
LEMMA NodeKeeps ==
    ASSUME YamlInv, SectionKeys, loader = "nested", NEW e, Parse(e), LoadNode(e),
           frames[Len(frames)].seq \/ frames[Len(frames)].pending
    PROVE  SectionKeys' /\ Keeps
<1> DEFINE n == Len(frames)
<1>1. frames \in Seq(Activations) /\ n \in Nat \ {0} /\ YamlType /\ TreeInv
  BY ParseTypes DEF YamlInv, DataInv
<1>0. n = 1 \/ n > 1
  <2>1. n \in Nat \ {0}
    BY <1>1
  <2> HIDE DEF n
  <2> QED
    BY <2>1
<1>2. CASE Throw
  BY <1>2 DEF Throw, SectionKeys, Keeps
<1>3. ASSUME NEW node \in Nodes, node # Empty, doc' = Store(frames, node)
      PROVE  Keeps /\ DOMAIN doc' = DOMAIN doc
  <2>1. DOMAIN doc' = DOMAIN doc /\ Stored(frames, node, doc')
    BY <1>1, <1>3, ValueStored, StoreFields
  <2>2. Kept(frames) => doc[Path(frames)] = Empty
    BY <1>1 DEF TreeInv, Kept
  <2> QED
    BY <2>1, <2>2 DEF Stored, Keeps
<1>4. CASE /\ e.type = "scalar" /\ doc' = Store(frames, Scalar(e.value))
           /\ frames' = Settled(frames) /\ UNCHANGED <<loader, file>>
  <2>1. e.value \in Strings
    BY ParseTypes, EventFields
  <2>2. Scalar(e.value) \in Nodes /\ Scalar(e.value) # Empty
    BY <2>1, NodeTypes DEF Nodes
  <2>3. Keeps /\ DOMAIN doc' = DOMAIN doc
    BY <1>3, <1>4, <2>2
  <2>4. Resumed(frames, frames')
    BY <1>1, <1>4, SettledFields
  <2>5. Len(frames') = n /\ frames'[n].pending = FALSE
    BY <1>1, <2>4 DEF Resumed
  <2>6. ASSUME NEW i \in 1 .. n
        PROVE  /\ frames'[i].seq = frames[i].seq /\ frames'[i].key = frames[i].key
               /\ frames'[i].keys = frames[i].keys
    BY <1>1, <2>4 DEF Resumed
  <2>7. SectionKeys'
    BY <1>1, <1>4, <2>3, <2>5, <2>6 DEF SectionKeys
  <2> QED
    BY <2>3, <2>7
<1>5. CASE \/ e.type = "mapping_start" /\ doc' = Store(frames, Mapping)
              /\ frames' = Append(frames, MapFrame) /\ UNCHANGED <<loader, file>>
           \/ e.type = "sequence_start" /\ doc' = Store(frames, Sequence)
              /\ frames' = Append(frames, SeqFrame) /\ UNCHANGED <<loader, file>>
  <2>1. PICK f \in Activations, node \in {Mapping, Sequence} :
            frames' = Append(frames, f) /\ doc' = Store(frames, node) /\ UNCHANGED loader
    BY <1>5, FrameTypes
  <2>2. node \in Nodes /\ node # Empty
    BY NodeTypes DEF Nodes
  <2>3. Keeps /\ DOMAIN doc' = DOMAIN doc
    BY <1>3, <2>1, <2>2
  <2>4. Len(frames') = n + 1 /\ \A i \in 1 .. n : frames'[i] = frames[i]
    BY <1>1, <2>1, AppendProperties
  <2>5. SectionKeys'
    <3>1. CASE n = 1
      BY <1>1, <2>1, <2>3, <2>4, <3>1 DEF SectionKeys
    <3>2. CASE n > 1
      <4>1. frames'[1] = frames[1] /\ frames'[2] = frames[2]
        BY <2>4, <3>2
      <4> QED
        BY <1>1, <2>1, <2>3, <2>4, <3>2, <4>1 DEF SectionKeys
    <3> QED
      BY <1>0, <3>1, <3>2
  <2> QED
    BY <2>3, <2>5
<1> QED
  BY <1>2, <1>4, <1>5 DEF LoadNode, LoadNodeWith

\* A collection that ends leaves the tree as it is.
LEMMA ReturnKeeps ==
    ASSUME frames \in Seq(Activations), Len(frames) > 0, SectionKeys, loader = "nested", Return
    PROVE  SectionKeys' /\ Keeps
<1> DEFINE n == Len(frames)
           fs == Front(frames)
<1>1. fs \in Seq(Activations) /\ Len(fs) = n - 1 /\ \A i \in 1 .. n - 1 : fs[i] = frames[i]
  BY TopFacts
<1>2. Resumed(fs, frames') /\ doc' = doc
  BY <1>1, SettledFields DEF Return
<1>3. Len(frames') = n - 1 /\ n \in Nat \ {0}
  BY <1>1, <1>2 DEF Resumed
<1>4. ASSUME NEW i \in 1 .. n - 1
      PROVE  /\ frames'[i].seq = frames[i].seq /\ frames'[i].key = frames[i].key
             /\ frames'[i].keys = frames[i].keys
  BY <1>1, <1>2, <1>3 DEF Resumed
<1>5. n = 2 => frames'[1].pending = FALSE
  BY <1>1, <1>2 DEF Resumed
<1>6. loader' = "nested" => n > 1
  <2>1. Len(fs) = 0 => fs = <<>>
    BY <1>1, NonEmpty
  <2> QED
    BY <1>1, <1>3, <2>1 DEF Return
<1>7. SectionKeys'
  <2> SUFFICES ASSUME loader' = "nested", NEW p \in DOMAIN doc, Len(p) = 2,
                      ~frames'[1].seq, p[1] = frames'[1].key
               PROVE  /\ n = 2 => ~frames'[1].pending
                      /\ n > 2 /\ ~frames'[2].seq => p[2] \in frames'[2].keys
    BY <1>2, <1>3 DEF SectionKeys
  <2>1. n > 1 /\ ~frames[1].seq /\ p[1] = frames[1].key
    BY <1>3, <1>4, <1>6
  <2>2. ASSUME n > 2 PROVE frames'[2].seq = frames[2].seq /\ frames'[2].keys = frames[2].keys
    BY <1>3, <1>4, <2>2
  <2> QED
    BY <1>3, <1>5, <2>1, <2>2 DEF SectionKeys
<1> QED
  BY <1>2, <1>7 DEF Keeps

\* A key that is taken is a new one, so its node is none that is there.
LEMMA KeyKeeps == YamlInv /\ SectionKeys /\ LoadKey => SectionKeys' /\ Keeps
<1> SUFFICES ASSUME YamlInv, SectionKeys, LoadKey
             PROVE  SectionKeys' /\ Keeps
  OBVIOUS
<1>1. loader = "nested" /\ ~frames[Len(frames)].seq /\ ~frames[Len(frames)].pending
  BY DEF LoadKey, LoadKeyUnless, InMapping, Last
<1>2. PICK e \in Offers :
          /\ Parse(e)
          /\ \/ e.type = "mapping_end" /\ Return
             \/ e.type # "mapping_end" /\ Throw
             \/ /\ e.type # "mapping_end"
                /\ e.value \notin Last(frames).keys
                /\ frames' = KeyTaken(e.value)
                /\ doc' = Store(frames', Empty) /\ UNCHANGED <<loader, file>>
  BY KeyCases
<1> DEFINE n == Len(frames)
<1>3. frames \in Seq(Activations) /\ n \in Nat \ {0} /\ YamlType /\ TreeInv
  BY <1>1, <1>2, ParseTypes DEF YamlInv, DataInv
<1>7. \A p \in DOMAIN doc : Len(p) = 1 \/ Len(p) = 2 => p[1] \in frames[1].keys
  BY <1>1, <1>3 DEF TreeInv
<1>0. n = 1 \/ n = 2 \/ n > 2
  <2>1. n \in Nat \ {0}
    BY <1>3
  <2> HIDE DEF n
  <2> QED
    BY <2>1
<1>4. CASE Return
  BY <1>1, <1>3, <1>4, ReturnKeeps
<1>5. CASE Throw
  BY <1>5 DEF Throw, SectionKeys, Keeps
<1>6. CASE /\ e.type # "mapping_end"
           /\ e.value \notin Last(frames).keys
           /\ frames' = KeyTaken(e.value)
           /\ doc' = Store(frames', Empty) /\ UNCHANGED <<loader, file>>
  <2> DEFINE k == e.value
  <2>1. k \in Strings /\ k \notin frames[n].keys
    BY <1>1, <1>2, <1>6, ParseTypes, EventFields DEF Last
  <2>2. Took(k, frames')
    BY <1>3, <1>6, <2>1, KeyTakenFields
  <2> HIDE DEF k
  <2>3. /\ frames' \in Seq(Activations) /\ Len(frames') = n
        /\ frames'[n].keys = frames[n].keys \cup {k} /\ frames'[n].key = k
        /\ frames'[n].seq = frames[n].seq
        /\ \A i \in 1 .. n - 1 : frames'[i] = frames[i]
    BY <2>2 DEF Took
  <2>4. Empty \in Nodes
    BY DEF Nodes
  <2>5. Stored(frames', Empty, doc')
    BY <1>3, <1>6, <2>3, <2>4, StoreFields
  <2>6. /\ Len(Path(frames')) = n
        /\ Path(frames')[n] = k /\ (n > 1 => Path(frames')[1] = frames[1].key)
        /\ (n = 1 => Path(frames')[1] = k)
    <3>1. n \in 1 .. Len(frames') /\ 1 \in 1 .. Len(frames')
      BY <1>3, <2>3
    <3>2. Len(Path(frames')) = n /\ Path(frames')[n] = k /\ Path(frames')[1] = frames'[1].key
      BY <2>3, <3>1, PathFields
    <3>3. n > 1 => frames'[1] = frames[1]
      BY <1>3, <2>3
    <3> QED
      BY <3>2, <3>3
  <2>7. Kept(frames') => (n = 1 \/ (n = 2 /\ ~frames[1].seq /\ ~frames[2].seq))
    <3>1. Kept(frames') => n <= 2 /\ \A i \in 1 .. n : ~frames'[i].seq
      BY <2>3 DEF Kept
    <3>2. n = 2 => frames'[1] = frames[1] /\ frames'[2].seq = frames[2].seq
      BY <2>3
    <3>3. n = 2 /\ Kept(frames') => ~frames[1].seq /\ ~frames[2].seq
      BY <3>1, <3>2
    <3> QED
      BY <1>0, <3>1, <3>3
  <2>8. ASSUME Kept(frames') PROVE Path(frames') \notin DOMAIN doc
    <3>1. CASE n = 1
      BY <1>7, <2>1, <2>6, <3>1
    <3>2. CASE n = 2
      <4> SUFFICES ASSUME Path(frames') \in DOMAIN doc PROVE FALSE
        OBVIOUS
      <4>1. Path(frames')[2] \in frames[2].keys
        BY <1>1, <2>6, <2>7, <2>8, <3>2 DEF SectionKeys
      <4> QED
        BY <2>1, <2>6, <3>2, <4>1
    <3> QED
      BY <2>7, <2>8, <3>1, <3>2
  <2>9. Keeps
    BY <2>5, <2>8 DEF Stored, Keeps
  <2>10. ASSUME NEW p \in DOMAIN doc' PROVE p \in DOMAIN doc \/ (p = Path(frames') /\ Kept(frames'))
    BY <2>5 DEF Stored
  <2>11. SectionKeys'
    <3> SUFFICES ASSUME NEW p \in DOMAIN doc', Len(p) = 2, ~frames'[1].seq, p[1] = frames'[1].key
                 PROVE  /\ n = 1 => FALSE
                        /\ n > 1 /\ ~frames'[2].seq => p[2] \in frames'[2].keys
      BY <2>3 DEF SectionKeys
    <3>1. CASE p \in DOMAIN doc
      <4>1. CASE n = 1
        <5>1. p[1] \in frames[1].keys
          BY <1>7, <3>1
        <5>2. p[1] = k /\ k \notin frames[1].keys
          BY <2>1, <2>3, <4>1
        <5> QED
          BY <5>1, <5>2
      <4>2. CASE n > 1
        <5>1. frames'[1] = frames[1]
          BY <1>3, <2>3, <4>2
        <5>2. frames'[2].seq = frames[2].seq /\ frames[2].keys \subseteq frames'[2].keys
          <6>1. CASE n = 2
            BY <2>3, <6>1
          <6>2. CASE n > 2
            <7>1. frames'[2] = frames[2]
              BY <1>3, <2>3, <6>2
            <7> QED
              BY <7>1
          <6> QED
            BY <1>0, <4>2, <6>1, <6>2
        <5> QED
          BY <1>1, <3>1, <4>2, <5>1, <5>2 DEF SectionKeys
      <4> QED
        BY <1>0, <4>1, <4>2
    <3>2. CASE p = Path(frames') /\ Kept(frames')
      <4>1. n = 2
        BY <2>6, <3>2
      <4>2. p[2] = k /\ k \in frames'[2].keys
        BY <2>3, <2>6, <3>2, <4>1
      <4> QED
        BY <4>1, <4>2
    <3> QED
      BY <2>10, <3>1, <3>2
  <2> QED
    BY <2>9, <2>11
<1> QED
  BY <1>2, <1>4, <1>5, <1>6

\* load_file as a whole keeps what it has read.
LEMMA YamlKeeps ==
    YamlInv /\ SectionKeys /\ (Open \/ OpenFails \/ NextLoader) => SectionKeys' /\ [Keeps]_doc
<1> SUFFICES ASSUME YamlInv, SectionKeys, Open \/ OpenFails \/ NextLoader
             PROVE  SectionKeys' /\ [Keeps]_doc
  OBVIOUS
<1>1. CASE Open
  BY <1>1 DEF Open, SectionKeys
<1>2. CASE OpenFails \/ ParserFails
  BY <1>2 DEF OpenFails, ParserFails, Throw, SectionKeys
<1>3. CASE LoadTop
  <2>1. doc = [p \in {<<>>} |-> Empty] /\ loader = "top"
    BY <1>3 DEF LoadTop, YamlInv, DataInv, TreeInv
  <2>2. \A p \in DOMAIN doc : doc[p] = Empty
    BY <2>1
  <2>3. Keeps
    BY <2>2 DEF Keeps
  <2>4. CASE UNCHANGED doc /\ loader' # "nested"
    BY <2>3, <2>4 DEF SectionKeys
  <2>5. CASE \E node : doc' = Store(<<>>, node)
    <3>1. PICK node : doc' = Store(<<>>, node)
      BY <2>5
    <3>2. Kept(<<>>) /\ Path(<<>>) = <<>>
      BY DEF Kept, Path
    <3>3. DOMAIN doc' = {<<>>}
      BY <2>1, <3>1, <3>2 DEF Store
    <3>4. \A p \in DOMAIN doc' : Len(p) = 0
      BY <3>3
    <3> QED
      BY <2>3, <3>4 DEF SectionKeys
  <2> QED
    BY <1>3, <2>1, <2>4, <2>5 DEF LoadTop
<1>4. CASE LoadKey
  BY <1>4, KeyKeeps
<1>5. CASE LoadValue
  <2>1. loader = "nested" /\ frames[Len(frames)].pending
    BY <1>5 DEF LoadValue, InMapping, Last
  <2>2. PICK e \in Offers : Parse(e) /\ LoadNode(e)
    BY <1>5 DEF LoadValue
  <2> QED
    BY <2>1, <2>2, NodeKeeps
<1>6. CASE LoadItem
  <2>1. loader = "nested" /\ frames[Len(frames)].seq
    BY <1>6 DEF LoadItem, Last
  <2>2. PICK e \in Offers : Parse(e) /\ (Return \/ LoadNode(e))
    BY <1>6 DEF LoadItem
  <2>3. CASE Return
    <3>1. frames \in Seq(Activations) /\ Len(frames) \in Nat \ {0}
      BY <2>1, <2>2, ParseTypes
    <3> QED
      BY <2>1, <2>3, <3>1, ReturnKeeps
  <2> QED
    BY <2>1, <2>2, <2>3, NodeKeeps
<1> QED
  BY <1>1, <1>2, <1>3, <1>4, <1>5, <1>6 DEF NextLoader

-----------------------------------------------------------------------------
(* The command line and the settings of the file. *)

\* Settings of the file that are in force.
Put == IF stage \in {"options", "loading"} THEN {} ELSE Given \ todo

FileLevel == IntegerOf[doc[Level].scalar] % WordSize
FilePort == (IntegerOf[doc[ListenPort].scalar] % WordSize) % PortSize

ConfigTypes ==
    /\ stage \in Stages
    /\ options \in 0 .. MaxOptions
    /\ debugFlags \in 0 .. options
    /\ config \in BOOLEAN
    /\ debug_level \in 0 .. WordSize - 1
    /\ listen_port \in 0 .. PortSize - 1
    /\ flags \in [Flags -> BOOLEAN]
    /\ texts \in [Texts -> Strings \cup {DefaultText}]

\* Where the loader of the file is, and what is left of its settings.
ControlInv ==
    /\ stage = "options" => loader = "idle"
    /\ stage = "loading" => config
    /\ stage = "applying" => config /\ todo \subseteq Visits
    /\ stage \in {"options", "loading", "ready"} => todo = {}
    /\ stage \in {"applying", "ready"} /\ config => loader = "loaded"
    /\ stage = "ready" /\ ~config => loader = "idle"

\* The settings in force are what the command line and the file make of them.
AppliedInv ==
    stage \notin {"exit_0", "exit_1"} =>
        /\ \A f \in Flags : flags[f] = (f \in Put /\ doc[f].scalar = "true")
        /\ \A t \in Texts : texts[t] = IF t \in Put THEN doc[t].scalar ELSE DefaultText
        /\ debug_level = IF Level \in Put /\ FileLevel > debugFlags THEN FileLevel ELSE debugFlags
        /\ listen_port = IF ListenPort \in Put THEN FilePort ELSE DefaultPort

\* Nothing that was visited had to be rejected.
VisitedInv ==
    stage \in {"applying", "ready"} /\ config =>
        \A s \in Visits \ todo :
            /\ s[1] \in Parsers
            /\ s \in Known => s \in DOMAIN doc /\ doc[s].type = "scalar"
            /\ s \in {Level, ListenPort} => doc[s].scalar \in DOMAIN IntegerOf

ConfigInv == YamlInv /\ ConfigTypes /\ ControlInv /\ AppliedInv /\ VisitedInv

\* The settings the parsers look for.
LEMMA KnownFacts ==
    /\ Level \in Known /\ ListenPort \in Known /\ Flags \subseteq Known /\ Texts \subseteq Known
    /\ Level \notin Flags \cup Texts /\ ListenPort \notin Flags \cup Texts \cup {Level}
    /\ Flags \cap Texts = {}
    /\ \A s \in Known : Len(s) = 2 /\ s[1] # s[2]
BY DEF Known, Level, ListenPort, Flags, Texts

\* What is cut to a width fits it.
LEMMA Remainders == \A a \in Int, b \in Nat \ {0} : a % b \in 0 .. b - 1
OBVIOUS

\* A setting that is visited as a scalar is an entry of its section.
LEMMA VisitFields ==
    ASSUME YamlInv, loader = "loaded", NEW s \in Visits
    PROVE  /\ Value(s).type = "scalar" =>
                 s \in DOMAIN doc /\ Len(s) = 2 /\ Value(s) = doc[s] /\ doc[s].scalar \in Strings
           /\ s \in Known => s \in DOMAIN doc /\ Value(s) = doc[s]
<1>1. doc \in [DOMAIN doc -> Nodes]
  BY DEF YamlInv, DataInv, YamlType
<1>2. CASE s \in DOMAIN doc /\ Len(s) = 2 /\ doc[<<s[1]>>] = Mapping
  <2>1. Value(s) = doc[s] /\ doc[s] \in Nodes
    BY <1>1, <1>2 DEF Value
  <2> QED
    BY <1>2, <2>1, NodeTypes
<1>3. ASSUME NEW q \in DOMAIN doc, Len(q) = 1, doc[q] \in {Sequence, Empty}, s = <<q[1], q[1]>>
      PROVE  Value(s).type # "scalar" /\ s \notin Known
  <2>1. q \in Paths
    BY DEF YamlInv, DataInv, YamlType
  <2>2. q = <<s[1]>> /\ s[1] = s[2]
    <3>1. q = <<q[1]>>
      BY <1>3, <2>1 DEF Paths
    <3> QED
      BY <1>3, <3>1
  <2>3. Value(s) \in {Sequence, Empty}
    BY <1>3, <2>2, NodeTypes DEF Value
  <2> QED
    BY <2>2, <2>3, NodeTypes, KnownFacts
<1> QED
  BY <1>2, <1>3 DEF Visits

\* Every entry of the second level is visited.
LEMMA EntriesVisited ==
    ASSUME YamlInv, loader = "loaded", NEW p \in DOMAIN doc, Len(p) = 2
    PROVE  p \in Visits
<1>1. <<p[1]>> \in DOMAIN doc /\ doc[<<p[1]>>] = Mapping /\ (doc[p] = Empty => p = <<>>)
  BY DEF YamlInv, DataInv, TreeInv, BelowMappings
<1>2. doc[p] # Empty
  <2>1. Len(<<>>) = 0
    OBVIOUS
  <2> QED
    BY <1>1, <2>1
<1> QED
  BY <1>1, <1>2 DEF Visits

\* Before the file is loaded nothing of it is in force, afterwards what was visited.
LEMMA TakenPut ==
    ASSUME ConfigInv, NEW s \in todo, Visited(s), todo' = todo \ {s},
           UNCHANGED <<yamlVars, config>>, stage' = stage
    PROVE  /\ Put = Given \ todo /\ Put' = Given \ (todo \ {s}) /\ doc' = doc
           /\ s \in Visits /\ loader = "loaded" /\ YamlInv
           /\ Visits' = Visits
BY DEF ConfigInv, ControlInv, Visited, Put, Given, Visits, yamlVars

\* What does not concern the settings in force.
LEMMA TakenRest ==
    ASSUME ConfigInv, NEW s \in todo, Visited(s), todo' = todo \ {s},
           UNCHANGED <<yamlVars, config>>, stage' = stage,
           s[1] \in Parsers, s \in Known => Value(s).type = "scalar",
           s \in {Level, ListenPort} => IsInteger(s)
    PROVE  YamlInv' /\ ControlInv' /\ VisitedInv'
<1>1. /\ doc' = doc /\ s \in Visits /\ loader = "loaded" /\ YamlInv /\ Visits' = Visits
      /\ stage = "applying" /\ loader' = loader
  BY TakenPut DEF Visited, yamlVars
<1>2. YamlInv'
  BY <1>1, YamlStutter
<1>3. ControlInv'
  BY <1>1 DEF ConfigInv, ControlInv
<1>4. s \in Known => s \in DOMAIN doc /\ doc[s].type = "scalar"
  BY <1>1, VisitFields
<1>5. s \in {Level, ListenPort} => doc[s].scalar \in DOMAIN IntegerOf
  BY <1>1, VisitFields, KnownFacts DEF IsInteger
<1>6. VisitedInv'
  BY <1>1, <1>4, <1>5 DEF ConfigInv, VisitedInv
<1> QED
  BY <1>2, <1>3, <1>6

\* The level is in force once it was visited.
LEMMA LevelInv == ASSUME ConfigInv, NEW s \in todo, ApplyLevel(s) PROVE ConfigInv'
<1>1. /\ Visited(s) /\ s[1] \in Parsers /\ todo' = todo \ {s} /\ Value(s).type = "scalar"
      /\ s = Level /\ IsInteger(s)
      /\ debug_level' = IF Unsigned(s) > debug_level THEN Unsigned(s) ELSE debug_level
      /\ UNCHANGED <<yamlVars, stage, options, debugFlags, config, listen_port, flags, texts>>
  BY DEF ApplyLevel, ApplyLevelAs, TakenScalar, Taken
<1>2. YamlInv' /\ ControlInv' /\ VisitedInv'
  BY <1>1, TakenRest
<1>3. Unsigned(s) \in 0 .. WordSize - 1
  <2>1. IntegerOf[Value(s).scalar] \in Int /\ WordSize \in Nat \ {0}
    BY <1>1, IntegersAssumption, SizesAssumption DEF IsInteger
  <2> QED
    BY <2>1, Remainders DEF Unsigned
<1>4. ConfigTypes'
  BY <1>1, <1>3 DEF ConfigInv, ConfigTypes
<1>5. /\ Put = Given \ todo /\ Put' = Given \ (todo \ {s}) /\ doc' = doc
      /\ s \in Visits /\ loader = "loaded" /\ YamlInv
  BY <1>1, TakenPut
<1>6. s \in DOMAIN doc /\ Len(s) = 2 /\ Value(s) = doc[s]
  BY <1>1, <1>5, VisitFields
<1>7. s \in Given /\ stage = "applying"
  BY <1>1, <1>6 DEF Given, Visited, ConfigInv, ControlInv
<1>8. s \notin Put /\ Put' = Put \cup {s}
  BY <1>5, <1>7
<1>9. AppliedInv'
  <2>1. \A k \in Flags \cup Texts \cup {ListenPort} : k \in Put' <=> k \in Put
    BY <1>1, <1>8, KnownFacts
  <2>2. debug_level = debugFlags
    BY <1>1, <1>7, <1>8 DEF ConfigInv, AppliedInv
  <2>3. FileLevel' = Unsigned(s) /\ Level \in Put'
    BY <1>1, <1>5, <1>6, <1>8 DEF FileLevel, Unsigned
  <2>4. debug_level' = IF Level \in Put' /\ FileLevel' > debugFlags' THEN FileLevel' ELSE debugFlags'
    BY <1>1, <2>2, <2>3
  <2>5. ASSUME NEW f \in Flags PROVE flags'[f] = (f \in Put' /\ doc'[f].scalar = "true")
    BY <1>1, <1>5, <1>7, <2>1 DEF ConfigInv, AppliedInv
  <2>6. ASSUME NEW t \in Texts PROVE texts'[t] = IF t \in Put' THEN doc'[t].scalar ELSE DefaultText
    BY <1>1, <1>5, <1>7, <2>1 DEF ConfigInv, AppliedInv
  <2>7. listen_port' = IF ListenPort \in Put' THEN FilePort' ELSE DefaultPort
    BY <1>1, <1>5, <1>7, <2>1 DEF ConfigInv, AppliedInv, FilePort
  <2> QED
    BY <2>4, <2>5, <2>6, <2>7 DEF AppliedInv
<1> QED
  BY <1>2, <1>4, <1>9 DEF ConfigInv

\* A flag.
LEMMA FlagInv == ASSUME ConfigInv, NEW s \in todo, ApplyFlag(s) PROVE ConfigInv'
<1>1. /\ Visited(s) /\ s[1] \in Parsers /\ todo' = todo \ {s} /\ Value(s).type = "scalar"
      /\ s \in Flags
      /\ flags' = [flags EXCEPT ![s] = (Value(s).scalar \in {"true"})]
      /\ UNCHANGED <<yamlVars, stage, options, debugFlags, config, debug_level, listen_port, texts>>
  BY DEF ApplyFlag, ApplyFlagIf, TakenScalar, Taken
<1>2. YamlInv' /\ ControlInv' /\ VisitedInv'
  BY <1>1, TakenRest, KnownFacts
<1>3. flags \in [Flags -> BOOLEAN]
  BY DEF ConfigInv, ConfigTypes
<1>4. ConfigTypes'
  <2>1. flags' \in [Flags -> BOOLEAN]
    BY <1>1, <1>3
  <2> QED
    BY <1>1, <2>1 DEF ConfigInv, ConfigTypes
<1>5. /\ Put = Given \ todo /\ Put' = Given \ (todo \ {s}) /\ doc' = doc
      /\ s \in Visits /\ loader = "loaded" /\ YamlInv
  BY <1>1, TakenPut
<1>6. s \in DOMAIN doc /\ Len(s) = 2 /\ Value(s) = doc[s]
  BY <1>1, <1>5, VisitFields
<1>7. s \in Given /\ stage = "applying"
  BY <1>1, <1>6 DEF Given, Visited, ConfigInv, ControlInv
<1>8. s \notin Put /\ Put' = Put \cup {s}
  BY <1>5, <1>7
<1>9. AppliedInv'
  <2>1. \A k \in Texts \cup {Level, ListenPort} : k \in Put' <=> k \in Put
    BY <1>1, <1>8, KnownFacts
  <2>2. FileLevel' = FileLevel
    BY <1>5 DEF FileLevel
  <2>3. debug_level' = IF Level \in Put' /\ FileLevel' > debugFlags' THEN FileLevel' ELSE debugFlags'
    BY <1>1, <1>7, <2>1, <2>2 DEF ConfigInv, AppliedInv
  <2>4. ASSUME NEW f \in Flags PROVE flags'[f] = (f \in Put' /\ doc'[f].scalar = "true")
    <3>1. CASE f = s
      <4>1. flags'[f] = (doc[s].scalar \in {"true"})
        BY <1>1, <1>3, <1>6, <3>1
      <4>2. f \in Put' /\ doc'[f] = doc[s]
        BY <1>5, <1>8, <3>1
      <4>3. (doc[s].scalar \in {"true"}) <=> (f \in Put' /\ doc'[f].scalar = "true")
        BY <4>2
      <4> QED
        BY <4>1, <4>3
    <3>2. CASE f # s
      <4>1. flags'[f] = flags[f]
        BY <1>1, <1>3, <3>2
      <4>2. flags[f] = (f \in Put /\ doc[f].scalar = "true")
        BY <1>7 DEF ConfigInv, AppliedInv
      <4>3. (f \in Put' <=> f \in Put) /\ doc' = doc
        BY <1>5, <1>8, <3>2
      <4> QED
        BY <4>1, <4>2, <4>3
    <3> QED
      BY <3>1, <3>2
  <2>5. ASSUME NEW t \in Texts PROVE texts'[t] = IF t \in Put' THEN doc'[t].scalar ELSE DefaultText
    BY <1>1, <1>5, <1>7, <2>1 DEF ConfigInv, AppliedInv
  <2>6. listen_port' = IF ListenPort \in Put' THEN FilePort' ELSE DefaultPort
    BY <1>1, <1>5, <1>7, <2>1 DEF ConfigInv, AppliedInv, FilePort
  <2> QED
    BY <2>3, <2>4, <2>5, <2>6 DEF AppliedInv
<1> QED
  BY <1>2, <1>4, <1>9 DEF ConfigInv

\* A text.
LEMMA TextInv == ASSUME ConfigInv, NEW s \in todo, ApplyText(s) PROVE ConfigInv'
<1>1. /\ Visited(s) /\ s[1] \in Parsers /\ todo' = todo \ {s} /\ Value(s).type = "scalar"
      /\ s \in Texts
      /\ texts' = [texts EXCEPT ![s] = Value(s).scalar]
      /\ UNCHANGED <<yamlVars, stage, options, debugFlags, config, debug_level, listen_port, flags>>
  BY DEF ApplyText, TakenScalar, Taken
<1>2. YamlInv' /\ ControlInv' /\ VisitedInv'
  BY <1>1, TakenRest, KnownFacts
<1>3. texts \in [Texts -> Strings \cup {DefaultText}]
  BY DEF ConfigInv, ConfigTypes
<1>4. /\ Put = Given \ todo /\ Put' = Given \ (todo \ {s}) /\ doc' = doc
      /\ s \in Visits /\ loader = "loaded" /\ YamlInv
  BY <1>1, TakenPut
<1>5. s \in DOMAIN doc /\ Len(s) = 2 /\ Value(s) = doc[s] /\ doc[s].scalar \in Strings
  BY <1>1, <1>4, VisitFields
<1>6. ConfigTypes'
  <2>1. texts' \in [Texts -> Strings \cup {DefaultText}]
    BY <1>1, <1>3, <1>5
  <2> QED
    BY <1>1, <2>1 DEF ConfigInv, ConfigTypes
<1>7. s \in Given /\ stage = "applying"
  BY <1>1, <1>5 DEF Given, Visited, ConfigInv, ControlInv
<1>8. s \notin Put /\ Put' = Put \cup {s}
  BY <1>4, <1>7
<1>9. AppliedInv'
  <2>1. \A k \in Flags \cup {Level, ListenPort} : k \in Put' <=> k \in Put
    BY <1>1, <1>8, KnownFacts
  <2>2. FileLevel' = FileLevel
    BY <1>4 DEF FileLevel
  <2>3. debug_level' = IF Level \in Put' /\ FileLevel' > debugFlags' THEN FileLevel' ELSE debugFlags'
    BY <1>1, <1>7, <2>1, <2>2 DEF ConfigInv, AppliedInv
  <2>4. ASSUME NEW f \in Flags PROVE flags'[f] = (f \in Put' /\ doc'[f].scalar = "true")
    BY <1>1, <1>4, <1>7, <2>1 DEF ConfigInv, AppliedInv
  <2>5. ASSUME NEW t \in Texts PROVE texts'[t] = IF t \in Put' THEN doc'[t].scalar ELSE DefaultText
    <3>1. CASE t = s
      BY <1>1, <1>3, <1>4, <1>5, <1>8, <3>1
    <3>2. CASE t # s
      <4>1. texts'[t] = texts[t]
        BY <1>1, <1>3, <3>2
      <4>2. texts[t] = IF t \in Put THEN doc[t].scalar ELSE DefaultText
        BY <1>7 DEF ConfigInv, AppliedInv
      <4> QED
        BY <1>4, <1>8, <3>2, <4>1, <4>2
    <3> QED
      BY <3>1, <3>2
  <2>6. listen_port' = IF ListenPort \in Put' THEN FilePort' ELSE DefaultPort
    BY <1>1, <1>4, <1>7, <2>1 DEF ConfigInv, AppliedInv, FilePort
  <2> QED
    BY <2>3, <2>4, <2>5, <2>6 DEF AppliedInv
<1> QED
  BY <1>2, <1>6, <1>9 DEF ConfigInv

\* A port that is cut and then rejected ends in an exit.
LEMMA PortInv == ASSUME ConfigInv, NEW s \in todo, ApplyPort(s) PROVE ConfigInv'
<1>1. /\ Visited(s) /\ s[1] \in Parsers /\ todo' = todo \ {s} /\ Value(s).type = "scalar"
      /\ s = ListenPort /\ IsInteger(s)
      /\ listen_port' = Unsigned(s) % PortSize
      /\ stage' = IF ValidPort(Unsigned(s) % PortSize) THEN stage ELSE "exit_1"
      /\ UNCHANGED <<yamlVars, options, debugFlags, config, debug_level, flags, texts>>
  BY DEF ApplyPort, ApplyPortAs, TakenScalar, Taken
<1>2. Unsigned(s) % PortSize \in 0 .. PortSize - 1
  <2>1. IntegerOf[Value(s).scalar] \in Int /\ WordSize \in Nat \ {0} /\ PortSize \in Nat \ {0}
    BY <1>1, IntegersAssumption, SizesAssumption DEF IsInteger
  <2>2. Unsigned(s) \in Int
    BY <2>1, Remainders DEF Unsigned
  <2> QED
    BY <2>1, <2>2, Remainders
<1>3. stage' = stage
  BY <1>1, <1>2, SizesAssumption DEF ValidPort
<1>4. YamlInv' /\ ControlInv' /\ VisitedInv'
  BY <1>1, <1>3, TakenRest
<1>5. ConfigTypes'
  BY <1>1, <1>2, <1>3 DEF ConfigInv, ConfigTypes
<1>6. Put = Given \ todo /\ Put' = Given \ (todo \ {s}) /\ doc' = doc /\ stage = "applying"
  BY <1>1, <1>3, TakenPut DEF Visited
<1>7. \A k \in Flags \cup Texts \cup {Level} : k \in Put' <=> k \in Put
  BY <1>1, <1>6, KnownFacts
\* Visited as a scalar, the port is one the file gives.
<1>8. ListenPort \in Put' /\ FilePort' = listen_port'
  <2>1. s \in Visits /\ loader = "loaded" /\ YamlInv
    BY <1>1, <1>3, TakenPut
  <2>2. s \in DOMAIN doc /\ Len(s) = 2 /\ Value(s) = doc[s]
    BY <1>1, <2>1, VisitFields
  <2>3. s \in Given
    BY <1>1, <1>6, <2>2 DEF Given, ConfigInv, ControlInv
  <2> QED
    BY <1>1, <1>6, <2>2, <2>3 DEF FilePort, Unsigned
<1>9. AppliedInv'
  <2>1. FileLevel' = FileLevel
    BY <1>6 DEF FileLevel
  <2>2. debug_level' = IF Level \in Put' /\ FileLevel' > debugFlags' THEN FileLevel' ELSE debugFlags'
    BY <1>1, <1>6, <1>7, <2>1 DEF ConfigInv, AppliedInv
  <2>3. ASSUME NEW f \in Flags PROVE flags'[f] = (f \in Put' /\ doc'[f].scalar = "true")
    BY <1>1, <1>6, <1>7 DEF ConfigInv, AppliedInv
  <2>4. ASSUME NEW t \in Texts PROVE texts'[t] = IF t \in Put' THEN doc'[t].scalar ELSE DefaultText
    BY <1>1, <1>6, <1>7 DEF ConfigInv, AppliedInv
  <2> QED
    BY <1>8, <2>2, <2>3, <2>4 DEF AppliedInv
<1> QED
  BY <1>4, <1>5, <1>9 DEF ConfigInv

\* A setting that nothing looks for.
LEMMA SkipSettingInv == ASSUME ConfigInv, NEW s \in todo, SkipSetting(s) PROVE ConfigInv'
<1>1. /\ Visited(s) /\ s[1] \in Parsers /\ todo' = todo \ {s} /\ s \notin Known
      /\ UNCHANGED <<yamlVars, stage, options, debugFlags, config, settingVars>>
  BY DEF SkipSetting, Taken
<1>2. YamlInv' /\ ControlInv' /\ VisitedInv'
  BY <1>1, TakenRest, KnownFacts
<1>3. ConfigTypes'
  BY <1>1 DEF ConfigInv, ConfigTypes, settingVars
<1>4. Put = Given \ todo /\ Put' = Given \ (todo \ {s}) /\ doc' = doc /\ stage = "applying"
  BY <1>1, TakenPut DEF Visited
<1>5. \A k \in Flags \cup Texts \cup {Level, ListenPort} : k \in Put' <=> k \in Put
  BY <1>1, <1>4, KnownFacts
<1>6. AppliedInv'
  <2>1. FileLevel' = FileLevel
    BY <1>4 DEF FileLevel
  <2>2. debug_level' = IF Level \in Put' /\ FileLevel' > debugFlags' THEN FileLevel' ELSE debugFlags'
    BY <1>1, <1>4, <1>5, <2>1 DEF ConfigInv, AppliedInv, settingVars
  <2>3. ASSUME NEW f \in Flags PROVE flags'[f] = (f \in Put' /\ doc'[f].scalar = "true")
    BY <1>1, <1>4, <1>5 DEF ConfigInv, AppliedInv, settingVars
  <2>4. ASSUME NEW t \in Texts PROVE texts'[t] = IF t \in Put' THEN doc'[t].scalar ELSE DefaultText
    BY <1>1, <1>4, <1>5 DEF ConfigInv, AppliedInv, settingVars
  <2>5. listen_port' = IF ListenPort \in Put' THEN FilePort' ELSE DefaultPort
    BY <1>1, <1>4, <1>5 DEF ConfigInv, AppliedInv, FilePort, settingVars
  <2> QED
    BY <2>2, <2>3, <2>4, <2>5 DEF AppliedInv
<1> QED
  BY <1>2, <1>3, <1>6 DEF ConfigInv

\* An exit keeps the types only.
LEMMA ExitInv ==
    ASSUME ConfigInv, stage' \in {"exit_0", "exit_1"}, options' \in 0 .. MaxOptions,
           options' = options \/ options' = options + 1,
           UNCHANGED <<yamlVars, debugFlags, config, todo, settingVars>>
    PROVE  ConfigInv'
<1>1. YamlInv'
  BY YamlStutter DEF ConfigInv
<1>2. ConfigTypes'
  <2>1. debugFlags' \in 0 .. options'
    BY OptionsAssumption DEF ConfigInv, ConfigTypes
  <2> QED
    BY <2>1 DEF ConfigInv, ConfigTypes, Stages, settingVars
<1>3. ControlInv' /\ AppliedInv' /\ VisitedInv'
  BY DEF ControlInv, AppliedInv, VisitedInv
<1> QED
  BY <1>1, <1>2, <1>3 DEF ConfigInv

\* Before the settings are applied, and when they are.
LEMMA StageInv ==
    ASSUME ConfigInv,
           \/ OptionsEnd \/ StartApplying \/ Applied \/ GiveConfig
    PROVE  ConfigInv'
<1> SUFFICES /\ YamlInv' /\ ConfigTypes' /\ ControlInv' /\ AppliedInv' /\ VisitedInv'
  BY DEF ConfigInv
<1> USE DEF OptionsEnd, StartApplying, Applied, GiveConfig
<1>1. YamlInv' /\ UNCHANGED <<yamlVars, debugFlags, settingVars>> /\ doc' = doc /\ loader' = loader
  BY YamlStutter DEF ConfigInv, yamlVars
<1>2. ConfigTypes'
  <2>1. options' \in 0 .. MaxOptions /\ debugFlags' \in 0 .. options'
    <3>1. options \in 0 .. MaxOptions /\ debugFlags \in 0 .. options
      BY DEF ConfigInv, ConfigTypes
    <3>2. options' = options \/ (options < MaxOptions /\ options' = options + 1)
      BY DEF TakeOption
    <3>3. debugFlags' = debugFlags
      BY <1>1
    <3> QED
      BY <3>1, <3>2, <3>3, OptionsAssumption
  <2>2. stage' \in Stages /\ config' \in BOOLEAN
    BY DEF ConfigInv, ConfigTypes, TakeOption, Stages
  <2> QED
    BY <1>1, <2>1, <2>2 DEF ConfigInv, ConfigTypes, settingVars
<1>3. ControlInv'
  BY <1>1 DEF ConfigInv, ConfigTypes, ControlInv, TakeOption, Visits
<1>4. stage \in {"options", "loading", "applying"} /\ Visits' = Visits
  BY <1>1 DEF TakeOption, Visits
\* None of the settings is in force before, and after as many as before.
<1>5. \A k \in Known : k \in Put' <=> k \in Put
  <2>1. CASE OptionsEnd \/ GiveConfig
    <3>1. Put = {} /\ DOMAIN doc = {<<>>}
      BY <2>1 DEF Put, ConfigInv, ControlInv, YamlInv, DataInv, TreeInv, TakeOption
    <3>2. Len(<<>>) = 0
      OBVIOUS
    <3>3. Put' = {}
      BY <1>1, <2>1, <3>1, <3>2 DEF Put, Given, TakeOption
    <3> QED
      BY <3>1, <3>3
  <2>2. CASE StartApplying
    <3>1. Put = {} /\ Put' = Given \ Visits
      BY <1>1, <2>2 DEF Put, Given
    <3>2. Given \subseteq Visits
      BY <2>2, EntriesVisited DEF Given, ConfigInv
    <3> QED
      BY <3>1, <3>2
  <2>3. CASE Applied
    BY <1>1, <2>3 DEF Put, Given
  <2> QED
    BY <2>1, <2>2, <2>3
<1>6. AppliedInv'
  <2>1. FileLevel' = FileLevel
    BY <1>1 DEF FileLevel
  <2>2. debug_level' = IF Level \in Put' /\ FileLevel' > debugFlags' THEN FileLevel' ELSE debugFlags'
    BY <1>1, <1>4, <1>5, <2>1, KnownFacts DEF ConfigInv, AppliedInv, settingVars
  <2>3. ASSUME NEW f \in Flags PROVE flags'[f] = (f \in Put' /\ doc'[f].scalar = "true")
    BY <1>1, <1>4, <1>5, KnownFacts DEF ConfigInv, AppliedInv, settingVars
  <2>4. ASSUME NEW t \in Texts PROVE texts'[t] = IF t \in Put' THEN doc'[t].scalar ELSE DefaultText
    BY <1>1, <1>4, <1>5, KnownFacts DEF ConfigInv, AppliedInv, settingVars
  <2>5. listen_port' = IF ListenPort \in Put' THEN FilePort' ELSE DefaultPort
    BY <1>1, <1>4, <1>5, KnownFacts DEF ConfigInv, AppliedInv, FilePort, settingVars
  <2> QED
    BY <2>2, <2>3, <2>4, <2>5 DEF AppliedInv
<1>7. VisitedInv'
  BY <1>1, <1>4 DEF ConfigInv, VisitedInv, TakeOption
<1> QED
  BY <1>1, <1>2, <1>3, <1>6, <1>7

\* Loading the file leaves the settings alone.
LEMMA LoadInv == ASSUME ConfigInv, Load PROVE ConfigInv'
<1>1. /\ stage = "loading" /\ stage' = stage /\ YamlInv'
      /\ UNCHANGED <<optionVars, settingVars>>
  BY YamlStep DEF Load, ConfigInv, optionVars
<1>2. ConfigTypes' /\ ControlInv' /\ VisitedInv'
  BY <1>1 DEF ConfigInv, ConfigTypes, ControlInv, VisitedInv, optionVars, settingVars
<1>3. Put = {} /\ Put' = {}
  BY <1>1 DEF Put
<1>4. AppliedInv'
  BY <1>1, <1>3 DEF ConfigInv, AppliedInv, optionVars, settingVars
<1> QED
  BY <1>1, <1>2, <1>4 DEF ConfigInv

\* Every -D counts, and the counter does not wrap.
LEMMA DebugInv == ASSUME ConfigInv, Debug PROVE ConfigInv'
<1>1. /\ stage = "options" /\ stage' = stage /\ options < MaxOptions
      /\ options' = options + 1 /\ debugFlags' = debugFlags + 1
      /\ debug_level' = (debug_level + 1) % WordSize
      /\ UNCHANGED <<yamlVars, config, todo, listen_port, flags, texts>>
  BY DEF Debug, TakeOption
<1>2. YamlInv' /\ loader' = loader /\ Put = {} /\ Put' = {}
  BY <1>1, YamlStutter DEF ConfigInv, yamlVars, Put
<1>3. debug_level = debugFlags /\ debugFlags \in 0 .. options /\ options \in 0 .. MaxOptions
  BY <1>1, <1>2 DEF ConfigInv, AppliedInv, ConfigTypes
<1>4. debug_level' = debugFlags' /\ debugFlags' \in 0 .. options' /\ debugFlags' \in 0 .. WordSize - 1
  BY <1>1, <1>3, OptionsAssumption, SizesAssumption
<1>5. ConfigTypes'
  BY <1>1, <1>3, <1>4, OptionsAssumption DEF ConfigInv, ConfigTypes
<1>6. ControlInv' /\ VisitedInv'
  BY <1>1, <1>2 DEF ConfigInv, ControlInv, VisitedInv
<1>7. AppliedInv'
  BY <1>1, <1>2, <1>4 DEF ConfigInv, AppliedInv
<1> QED
  BY <1>2, <1>5, <1>6, <1>7 DEF ConfigInv

\* Every step of parse_cmdline up to the settings of the database.
LEMMA ConfigStep == ConfigInv /\ NextConfig => ConfigInv'
<1> SUFFICES ASSUME ConfigInv, NextConfig PROVE ConfigInv'
  OBVIOUS
<1>1. CASE Debug
  BY <1>1, DebugInv
<1>2. CASE GiveConfig \/ OptionsEnd \/ StartApplying \/ Applied
  BY <1>2, StageInv
<1>3. CASE Load
  BY <1>3, LoadInv
<1>4. CASE Leave \/ LoadFails
  <2>1. options \in 0 .. MaxOptions
    BY DEF ConfigInv, ConfigTypes
  <2>2. /\ stage' \in {"exit_0", "exit_1"} /\ UNCHANGED <<yamlVars, debugFlags, config, todo, settingVars>>
        /\ options' \in 0 .. MaxOptions /\ (options' = options \/ options' = options + 1)
    BY <1>4, <2>1, OptionsAssumption DEF Leave, TakeOption, LoadFails, LoadFailsTo
  <2> QED
    BY <2>2, ExitInv
<1>5. ASSUME NEW s \in todo, Apply(s) PROVE ConfigInv'
  <2>1. CASE ApplyFails(s)
    <3>1. options \in 0 .. MaxOptions
      BY DEF ConfigInv, ConfigTypes
    <3> QED
      BY <2>1, <3>1, ExitInv DEF ApplyFails, ApplyFailsThen
  <2> QED
    BY <1>5, <2>1, LevelInv, PortInv, FlagInv, TextInv, SkipSettingInv DEF Apply
<1> QED
  BY <1>1, <1>2, <1>3, <1>4, <1>5 DEF NextConfig

\* The defaults.
LEMMA ConfigInit == InitConfig => ConfigInv
<1> SUFFICES ASSUME InitConfig PROVE ConfigInv
  OBVIOUS
<1>1. YamlInv /\ loader = "idle"
  BY YamlInit DEF InitConfig, InitLoader
<1>2. ConfigTypes
  <2>1. 0 \in 0 .. MaxOptions /\ 0 \in 0 .. 0 /\ 0 \in 0 .. WordSize - 1 /\ 1 \in 0 .. PortSize - 1
    BY SizesAssumption, OptionsAssumption
  <2>2. flags \in [Flags -> BOOLEAN] /\ texts \in [Texts -> Strings \cup {DefaultText}]
    BY DEF InitConfig
  <2> QED
    BY <2>1, <2>2 DEF InitConfig, ConfigTypes, Stages, DefaultPort
<1>3. ControlInv /\ VisitedInv
  BY <1>1 DEF InitConfig, ControlInv, VisitedInv
<1>4. AppliedInv
  <2>1. Put = {}
    BY DEF InitConfig, Put
  <2> QED
    BY <2>1 DEF InitConfig, AppliedInv
<1> QED
  BY <1>1, <1>2, <1>3, <1>4 DEF ConfigInv

\* What it says of a daemon that goes on.
LEMMA ConfigProps ==
    ConfigInv => ConfigTypeOK /\ InStep /\ LoadedIsComplete /\ ReadyMeansApplied /\ LevelIsLarger
<1> SUFFICES ASSUME ConfigInv
             PROVE  ConfigTypeOK /\ InStep /\ LoadedIsComplete /\ ReadyMeansApplied /\ LevelIsLarger
  OBVIOUS
<1>1. LoaderTypeOK /\ InStep /\ LoadedIsComplete
  BY YamlProps DEF ConfigInv
<1>2. ConfigTypeOK
  BY <1>1 DEF ConfigInv, ConfigTypes, ConfigTypeOK
<1>3. stage = "ready" => Put = Given
  BY DEF ConfigInv, ControlInv, Put
<1>4. ReadyMeansApplied
  <2> SUFFICES ASSUME stage = "ready" PROVE ReadyMeansApplied
    BY DEF ReadyMeansApplied
  <2>1. ASSUME config, NEW p \in DOMAIN doc, Len(p) = 2
        PROVE  /\ p[1] \in Parsers
               /\ p \in Known => doc[p].type = "scalar"
               /\ p \in {Level, ListenPort} => doc[p].scalar \in DOMAIN IntegerOf
    <3>1. p \in Visits /\ todo = {}
      BY <2>1, EntriesVisited DEF ConfigInv, ControlInv
    <3> QED
      BY <2>1, <3>1 DEF ConfigInv, VisitedInv
  <2>2. \A f \in Flags : flags[f] = (f \in Given /\ doc[f].scalar = "true")
    BY <1>3 DEF ConfigInv, AppliedInv
  <2>3. \A t \in Texts : texts[t] = IF t \in Given THEN doc[t].scalar ELSE DefaultText
    BY <1>3 DEF ConfigInv, AppliedInv
  <2>4. listen_port = IF ListenPort \in Given THEN FilePort ELSE DefaultPort
    BY <1>3 DEF ConfigInv, AppliedInv
  <2>5. \A p \in {Level, ListenPort} \cap Given : doc[p].scalar \in DOMAIN IntegerOf
    BY <2>1 DEF Given
  <2> QED
    BY <2>1, <2>2, <2>3, <2>4, <2>5, KnownFacts DEF ReadyMeansApplied, FilePort
<1>5. LevelIsLarger
  BY <1>3 DEF LevelIsLarger, ConfigInv, AppliedInv, FileLevel
<1> QED
  BY <1>1, <1>2, <1>4, <1>5

-----------------------------------------------------------------------------
LP == INSTANCE SettingsLoaderProofs WITH enabled <- settings_enabled, uri <- settings_database_uri

-----------------------------------------------------------------------------
(* The settings of the database: SettingsLoaderProofs has the invariant of    *)
(* the loader, for an enabled and a uri that do not change.                   *)

\* The loader has not begun.
AtRest ==
    /\ table \in TableSizes /\ pc = "start" /\ retry = 0
    /\ db = L!RawHandle /\ item = 0 /\ ret = "none"

\* Nothing is dialled but a URI that was accepted, and a loader that is done has
\* an answer.
Dialled ==
    /\ pc \in {"dial", "timezone", "settings", "fetch", "parser", "loadFailed"} \/ ret = "true"
         => "accepted" \in parse_database_uri(settings_database_uri)
    /\ pc = "done" => ret \in {"true", "false"}

LoadingInv ==
    /\ LP!IInv
    /\ Dialled
    /\ stage # "ready" \/ ~settings_enabled => AtRest

\* The two instances have the same steps.
LEMMA SameNext == L!Next => LP!Next
<1> SUFFICES ASSUME L!Next PROVE LP!Next
  OBVIOUS
<1> USE DEF L!Step, LP!Step, L!SameLoop, LP!SameLoop, L!config, LP!config, L!Done, LP!Done
<1>1. L!Skip => LP!Next
  BY DEF L!Skip, LP!Skip, LP!Next
<1>2. L!Begin => LP!Next
  BY DEF L!Begin, LP!Begin, L!BeginWith, LP!BeginWith, LP!Next
<1>3. L!GiveUp => LP!Next
  BY DEF L!GiveUp, LP!GiveUp, LP!Next
<1>4. L!ConnectFailed => LP!Next
  BY DEF L!ConnectFailed, LP!ConnectFailed, L!ConnectFailedThen, LP!ConnectFailedThen,
         L!ReadError, LP!ReadError, L!Blame, LP!Blame, LP!Next
<1>5. L!LoadFailed => LP!Next
  BY DEF L!LoadFailed, LP!LoadFailed, L!LoadFailedWith, LP!LoadFailedWith,
         L!ReadError, LP!ReadError, L!Blame, LP!Blame, L!Disconnect, LP!Disconnect,
         L!Close, LP!Close, LP!Next
<1>6. L!Sleep => LP!Next
  BY DEF L!Sleep, LP!Sleep, L!SleepBefore, LP!SleepBefore, LP!Next
<1>7. L!InitHandle => LP!Next
  BY DEF L!InitHandle, LP!InitHandle, L!InitHandleIf, LP!InitHandleIf,
         L!Initialise, LP!Initialise, LP!Next
<1>8. L!ParseUri => LP!Next
  <2> SUFFICES ASSUME L!ParseUri PROVE LP!ParseUri
    BY DEF LP!Next
  <2>1. L!parse_database_uri(settings_database_uri) = LP!parse_database_uri(settings_database_uri)
    BY DEF L!parse_database_uri, LP!parse_database_uri, L!Port, LP!Port, L!validate_port_number,
           LP!validate_port_number, L!validate_ipv4_address, LP!validate_ipv4_address
  <2> QED
    BY <2>1, Zenon DEF L!ParseUri, LP!ParseUri
<1>9. L!Dial => LP!Next
  BY DEF L!Dial, LP!Dial, L!Open, LP!Open, LP!Next
<1> USE DEF L!BoostCaught, LP!BoostCaught, L!ReadError, LP!ReadError, L!Blame, LP!Blame,
            L!Close, LP!Close, L!Query, LP!Query
<1>10. L!SetTimeZone => LP!Next
  BY DEF L!SetTimeZone, LP!SetTimeZone, L!QueryFails, LP!QueryFails, LP!Next
<1>11. L!QuerySetting => LP!Next
  BY DEF L!QuerySetting, LP!QuerySetting, L!QueryFails, LP!QueryFails, LP!Next
<1>12. L!FetchSetting => LP!Next
  BY DEF L!FetchSetting, LP!FetchSetting, L!FetchFails, LP!FetchFails,
         L!StoreResult, LP!StoreResult, LP!Next
<1>13. L!ParseSetting => LP!Next
  BY DEF L!ParseSetting, LP!ParseSetting, L!FreeResult, LP!FreeResult, LP!Next
<1>14. L!ParserRejects => LP!Next
  BY DEF L!ParserRejects, LP!ParserRejects, L!Disconnect, LP!Disconnect, LP!Next
<1>15. L!ParserThrows => LP!Next
  BY DEF L!ParserThrows, LP!ParserThrows, L!ParserThrowsThen, LP!ParserThrowsThen, LP!Next
<1>16. L!Loaded => LP!Next
  BY DEF L!Loaded, LP!Loaded, L!LoadedWhen, LP!LoadedWhen, LP!Next
<1> QED
  BY <1>1, <1>2, <1>3, <1>4, <1>5, <1>6, <1>7, <1>8, <1>9, <1>10, <1>11, <1>12,
     <1>13, <1>14, <1>15, <1>16 DEF L!Next

\* A step of the loader keeps what SettingsLoaderProofs says of it.
LEMMA LoaderStep == LP!IInv /\ L!Next => LP!IInv'
BY LP!StepInv, SameNext, LoaderAssumption, UrisAssumption, IntAssumption

\* Before it begins it is in an initial state, whatever the configuration says.
LEMMA RestInv ==
    AtRest /\ settings_enabled \in BOOLEAN /\ settings_database_uri \in Uris => LP!IInv
<1>1. AtRest /\ settings_enabled \in BOOLEAN /\ settings_database_uri \in Uris => LP!Init
  BY DEF AtRest, LP!Init, L!RawHandle, LP!RawHandle
<1> QED
  BY <1>1, LP!InitInv, LoaderAssumption, UrisAssumption, IntAssumption

\* A URI is dialled only if it is accepted, and the answer comes with the end.
LEMMA DialledStep == Dialled /\ L!Next => Dialled'
<1> SUFFICES ASSUME Dialled, L!Next PROVE Dialled'
  OBVIOUS
<1> DEFINE accepted == "accepted" \in parse_database_uri(settings_database_uri)
<1>1. UNCHANGED <<settings_enabled, settings_database_uri>>
  BY DEF L!Next, L!Step, L!SameLoop, L!config, L!Done, L!Skip, L!Begin, L!BeginWith, L!GiveUp,
         L!ConnectFailed, L!ConnectFailedThen, L!LoadFailed, L!LoadFailedWith, L!Sleep,
         L!SleepBefore, L!InitHandle, L!InitHandleIf, L!ParseUri, L!Dial, L!SetTimeZone,
         L!QuerySetting, L!FetchSetting, L!ParseSetting, L!ParserRejects, L!ParserThrows,
         L!ParserThrowsThen, L!Loaded, L!LoadedWhen
<1>2. accepted' = accepted
  BY <1>1
<1>3. L!parse_database_uri(settings_database_uri) = parse_database_uri(settings_database_uri)
  BY DEF L!parse_database_uri, parse_database_uri, L!Port, Port, L!validate_port_number,
         validate_port_number, L!validate_ipv4_address, validate_ipv4_address
<1>4. CASE L!ParseUri
  <2>1. PICK outcome \in parse_database_uri(settings_database_uri) :
            pc' = CASE outcome = "accepted" -> "dial"
                    [] outcome = "refused" -> "connectFailed"
                    [] outcome = "out_of_range" -> "terminated"
    BY <1>3, <1>4 DEF L!ParseUri
  <2>2. outcome \in {"accepted", "refused", "out_of_range"}
    BY DEF parse_database_uri, Port
  <2>3. ret' = ret
    BY <1>4 DEF L!ParseUri, L!SameLoop
  <2> QED
    BY <1>2, <2>1, <2>2, <2>3 DEF Dialled
<1> HIDE DEF accepted
<1>5. CASE ~L!ParseUri
  BY <1>2, <1>5
     DEF Dialled, accepted, L!Next, L!Step, L!SameLoop, L!config, L!Done, L!Skip, L!Begin, L!BeginWith,
         L!GiveUp, L!ConnectFailed, L!ConnectFailedThen, L!LoadFailed, L!LoadFailedWith, L!Sleep,
         L!SleepBefore, L!InitHandle, L!InitHandleIf, L!Dial, L!SetTimeZone, L!BoostCaught,
         L!QuerySetting, L!FetchSetting, L!ParseSetting, L!ParserRejects, L!ParserThrows,
         L!ParserThrowsThen, L!Loaded, L!LoadedWhen
<1> QED
  BY <1>4, <1>5

-----------------------------------------------------------------------------
(* The startup as a whole. *)

StartupInv == ConfigInv /\ LoadingInv

\* What the loader of the settings is given always has its type.
LEMMA GivenTypes ==
    ConfigInv => settings_enabled \in BOOLEAN /\ settings_database_uri \in Uris
<1> SUFFICES ASSUME ConfigInv PROVE settings_enabled \in BOOLEAN /\ settings_database_uri \in Uris
  OBVIOUS
<1>1. flags \in [Flags -> BOOLEAN] /\ texts \in [Texts -> Strings \cup {DefaultText}]
  BY DEF ConfigInv, ConfigTypes
<1>2. <<"settings", "enabled">> \in Flags /\ <<"settings", "database">> \in Texts
  BY DEF Flags, Texts
<1> QED
  BY <1>1, <1>2, UriOfAssumption DEF settings_enabled, settings_database_uri

\* A loader that has not begun, under whatever configuration.
LEMMA RestLoading == ConfigInv /\ AtRest => LoadingInv
<1> SUFFICES ASSUME ConfigInv, AtRest PROVE LoadingInv
  OBVIOUS
<1>1. LP!IInv
  BY GivenTypes, RestInv
<1>2. Dialled
  BY DEF AtRest, Dialled
<1> QED
  BY <1>1, <1>2 DEF LoadingInv

\* The whole startup begins well,
LEMMA StartupInit == InitStartup => StartupInv
<1> SUFFICES ASSUME InitStartup PROVE StartupInv
  OBVIOUS
<1>1. ConfigInv
  BY ConfigInit DEF InitStartup
<1>2. AtRest
  BY DEF InitStartup, L!Init, AtRest
<1> QED
  BY <1>1, <1>2, RestLoading DEF StartupInv

\* The daemon is configured before its settings are loaded.
LEMMA NotReady == NextConfig => stage # "ready"
BY DEF NextConfig, Debug, GiveConfig, Leave, TakeOption, OptionsEnd, Load, StartApplying,
       LoadFails, LoadFailsTo, Applied, Apply, ApplyLevel, ApplyLevelAs, ApplyPort, ApplyPortAs,
       ApplyFlag, ApplyFlagIf, ApplyText, SkipSetting, ApplyFails, ApplyFailsThen,
       TakenScalar, Taken, Visited

\* The invariant of the configuration is about its variables alone.
LEMMA ConfigStutter == ConfigInv /\ UNCHANGED configVars => ConfigInv'
<1> SUFFICES ASSUME ConfigInv, UNCHANGED configVars PROVE ConfigInv'
  OBVIOUS
<1>1. YamlInv' /\ doc' = doc /\ loader' = loader
  BY YamlStutter DEF ConfigInv, configVars, yamlVars
<1>2. UNCHANGED <<stage, options, debugFlags, config, todo, debug_level, listen_port, flags, texts>>
  BY DEF configVars, optionVars, settingVars
<1>3. ConfigTypes'
  BY <1>2 DEF ConfigInv, ConfigTypes
<1>4. ControlInv' /\ VisitedInv'
  BY <1>1, <1>2 DEF ConfigInv, ControlInv, VisitedInv, Visits
<1>5. AppliedInv'
  <2>1. Put' = Put /\ FileLevel' = FileLevel /\ FilePort' = FilePort
    BY <1>1, <1>2 DEF Put, Given, FileLevel, FilePort
  <2> QED
    BY <1>1, <1>2, <2>1 DEF ConfigInv, AppliedInv
<1> QED
  BY <1>1, <1>3, <1>4, <1>5 DEF ConfigInv

\* and every step of it keeps its invariant,
LEMMA StartupStep == StartupInv /\ [NextStartup]_startupVars => StartupInv'
<1> SUFFICES ASSUME StartupInv, [NextStartup]_startupVars PROVE StartupInv'
  OBVIOUS
<1>1. CASE Configure
  <2>1. ConfigInv'
    BY <1>1, ConfigStep DEF Configure, StartupInv
  <2>2. AtRest /\ UNCHANGED loadVars
    BY <1>1, NotReady DEF Configure, StartupInv, LoadingInv
  <2>3. AtRest'
    BY <2>2 DEF AtRest, loadVars, L!RawHandle
  <2>4. LoadingInv'
    BY <2>1, <2>3, RestLoading, PTL
  <2> QED
    BY <2>1, <2>4 DEF StartupInv
<1>2. CASE LoadSettings
  <2>1. stage = "ready" /\ settings_enabled /\ UNCHANGED configVars /\ L!Next
    BY <1>2 DEF LoadSettings
  <2>2. ConfigInv'
    BY <2>1, ConfigStutter DEF StartupInv
  <2>3. LP!IInv'
    BY <2>1, LoaderStep DEF StartupInv, LoadingInv
  <2>4. Dialled'
    BY <2>1, DialledStep DEF StartupInv, LoadingInv
  <2>5. stage' = "ready" /\ settings_enabled'
    BY <2>1 DEF configVars, optionVars, settingVars, settings_enabled
  <2> QED
    BY <2>2, <2>3, <2>4, <2>5 DEF StartupInv, LoadingInv
<1>3. CASE UNCHANGED startupVars
  <2>1. UNCHANGED configVars /\ UNCHANGED loadVars
    BY <1>3 DEF startupVars
  <2>2. ConfigInv'
    BY <2>1, ConfigStutter DEF StartupInv
  <2>3. stage' = stage /\ flags' = flags /\ texts' = texts
    BY <2>1 DEF configVars, optionVars, settingVars
  <2>4. UNCHANGED <<settings_enabled, settings_database_uri>>
    BY <2>3 DEF settings_enabled, settings_database_uri
  <2>5. LP!IInv'
    <3>1. UNCHANGED LP!vars
      BY <2>1, <2>4 DEF LP!vars, LP!config, loadVars
    <3> QED
      BY <3>1, LP!StepInv, LoaderAssumption, UrisAssumption, IntAssumption DEF StartupInv, LoadingInv
  <2>6. Dialled'
    BY <2>1, <2>4 DEF Dialled, loadVars, StartupInv, LoadingInv
  <2>7. (stage # "ready" \/ ~settings_enabled => AtRest)'
    BY <2>1, <2>3, <2>4 DEF AtRest, loadVars, L!RawHandle, StartupInv, LoadingInv
  <2> QED
    BY <2>2, <2>5, <2>6, <2>7 DEF StartupInv, LoadingInv
<1> QED
  BY <1>1, <1>2, <1>3 DEF NextStartup

\* so the invariant holds of every behaviour.
LEMMA StartupInvariance == StartupSpec => []StartupInv
BY StartupInit, StartupStep, PTL DEF StartupSpec

-----------------------------------------------------------------------------
(* Theorems. *)

\* Every variable keeps its type: no counter wraps, and no port is stored that
\* does not fit its field.
THEOREM StartupTypes == StartupSpec => []StartupTypeOK
<1>1. StartupInv => ConfigTypeOK
  BY ConfigProps DEF StartupInv
<1>2. LP!TypeOK => L!TypeOK
  BY DEF L!TypeOK, LP!TypeOK, L!Handles, LP!Handles, L!HandleStates, LP!HandleStates, L!Faults, LP!Faults
<1>3. StartupInv => LP!TypeOK
  BY DEF StartupInv, LoadingInv, LP!IInv
<1> QED
  BY <1>1, <1>2, <1>3, StartupInvariance, PTL DEF StartupTypeOK

\* While load_file reads a file whose keys are scalars, its activations are the
\* collections open in the file, for files of every depth and length.
THEOREM LoaderInStep == StartupSpec => []InStep
<1>1. StartupInv => InStep
  BY ConfigProps DEF StartupInv
<1> QED
  BY <1>1, StartupInvariance, PTL

\* load_file returns only at the end of the file's first collection, with every
\* node read and no collection taken for a key.
THEOREM LoaderCompletes == StartupSpec => []LoadedIsComplete
<1>1. StartupInv => LoadedIsComplete
  BY ConfigProps DEF StartupInv
<1> QED
  BY <1>1, StartupInvariance, PTL

\* parse_cmdline goes on only with the flags, the texts and the port of the file in
\* force, and with a parser for each section that has entries.
THEOREM ConfigurationApplied == StartupSpec => []ReadyMeansApplied
<1>1. StartupInv => ReadyMeansApplied
  BY ConfigProps DEF StartupInv
<1> QED
  BY <1>1, StartupInvariance, PTL

\* The debug level is the larger one of the file's and the number of -D.
THEOREM DebugLevelWins == StartupSpec => []LevelIsLarger
<1>1. StartupInv => LevelIsLarger
  BY ConfigProps DEF StartupInv
<1> QED
  BY <1>1, StartupInvariance, PTL

\* Sessions are open only with a loader that has begun and dialled.
LEMMA SessionFacts ==
    StartupInv /\ db.sessions > 0 =>
        stage = "ready" /\ settings_enabled /\ "accepted" \in parse_database_uri(settings_database_uri)
<1> SUFFICES ASSUME StartupInv, db.sessions > 0
             PROVE  /\ stage = "ready" /\ settings_enabled
                    /\ "accepted" \in parse_database_uri(settings_database_uri)
  OBVIOUS
<1>1. ~AtRest
  BY DEF AtRest, L!RawHandle
<1>2. LP!TypeOK /\ LP!HandleAt /\ LP!Counts /\ LP!Loop /\ Dialled
  BY DEF StartupInv, LoadingInv, LP!IInv
<1>3. db.state = "open"
  BY <1>2 DEF LP!Counts
<1>4. pc \in {"timezone", "settings", "fetch", "parser", "loadFailed"} \/ ret = "true"
  BY <1>2, <1>3 DEF LP!TypeOK, LP!HandleAt, LP!Loop, Dialled
<1> QED
  BY <1>1, <1>2, <1>4 DEF Dialled, StartupInv, LoadingInv

\* A database is connected to only if the file, as a whole, says so.
THEOREM FileRules == StartupSpec => []OnlyAsTheFileSays
<1>1. ASSUME StartupInv PROVE OnlyAsTheFileSays
  <2> SUFFICES ASSUME db.sessions > 0 PROVE OnlyAsTheFileSays
    BY DEF OnlyAsTheFileSays
  <2> DEFINE enabled == <<"settings", "enabled">>
             database == <<"settings", "database">>
  <2>1. /\ stage = "ready" /\ flags[enabled]
        /\ "accepted" \in parse_database_uri(UriOf[texts[database]])
    BY <1>1, SessionFacts DEF settings_enabled, settings_database_uri
  <2>2. enabled \in Flags /\ database \in Texts
    BY DEF Flags, Texts
  <2>3. ReadyMeansApplied /\ LoadedIsComplete /\ ControlInv
    BY <1>1, ConfigProps DEF StartupInv, ConfigInv
  <2>4. enabled \in Given /\ doc[enabled].scalar = "true"
    BY <2>1, <2>2, <2>3 DEF ReadyMeansApplied
  <2>5. texts[database] # DefaultText
    <3>1. "accepted" \notin parse_database_uri(UriOf[DefaultText])
      BY UriOfAssumption DEF parse_database_uri
    <3> QED
      BY <2>1, <3>1
  <2>6. database \in Given /\ texts[database] = doc[database].scalar
    BY <2>1, <2>2, <2>3, <2>5 DEF ReadyMeansApplied
  <2>7. config /\ loader = "loaded"
    BY <2>1, <2>3, <2>4 DEF Given, ControlInv
  <2>8. nest = <<>> /\ \A p \in DOMAIN doc : Len(p) = 2 => p[1] \in Parsers
    BY <2>1, <2>3, <2>7 DEF ReadyMeansApplied, LoadedIsComplete
  <2> QED
    BY <2>1, <2>4, <2>6, <2>8 DEF OnlyAsTheFileSays
<1> QED
  BY <1>1, StartupInvariance, PTL

\* A daemon that starts has closed its file, and it has a session if and only if
\* its settings are loaded; it does without them only after the last attempt.
THEOREM WholeStart == StartupSpec => []StartsWhole
<1>1. ASSUME StartupInv PROVE StartsWhole
  <2> SUFFICES ASSUME Started PROVE StartsWhole
    BY DEF StartsWhole
  <2>1. stage = "ready" /\ (settings_enabled => pc = "done")
    BY DEF Started
  <2>2. file = "closed"
    <3>1. loader \in {"idle", "loaded"}
      BY <1>1, <2>1 DEF StartupInv, ConfigInv, ControlInv, ConfigTypes
    <3> QED
      BY <1>1, <3>1 DEF StartupInv, ConfigInv, YamlInv
  <2>3. settings_enabled \in BOOLEAN /\ LP!Counts /\ LP!Loop /\ LP!TypeOK /\ Dialled
    BY <1>1, GivenTypes DEF StartupInv, LoadingInv, LP!IInv
  <2>4. ret = "true" <=> db.sessions > 0
    <3>1. CASE settings_enabled
      <4>1. pc = "done" /\ ret \in {"true", "false"}
        BY <2>1, <2>3, <3>1 DEF Dialled
      <4> QED
        BY <2>3, <4>1 DEF LP!Counts, LP!Loop
    <3>2. CASE ~settings_enabled
      <4>1. AtRest
        BY <1>1, <3>2 DEF StartupInv, LoadingInv
      <4> QED
        BY <4>1 DEF AtRest, L!RawHandle
    <3> QED
      BY <3>1, <3>2
  <2>5. settings_enabled /\ ret # "true" => retry = Attempts
    BY <2>1, <2>3 DEF LP!Loop, Dialled
  <2> QED
    BY <2>2, <2>4, <2>5 DEF StartsWhole
<1> QED
  BY <1>1, StartupInvariance, PTL

\* Only load_file touches the variables of the loader of the file.
LEMMA YamlAlone ==
    [NextStartup]_startupVars => Open \/ OpenFails \/ NextLoader \/ UNCHANGED yamlVars
<1> SUFFICES ASSUME [NextStartup]_startupVars, ~ UNCHANGED yamlVars
             PROVE  Open \/ OpenFails \/ NextLoader
  OBVIOUS
<1>1. NextConfig
  BY DEF NextStartup, Configure, LoadSettings, startupVars, configVars
<1>2. CASE Load
  BY <1>2 DEF Load
<1>3. CASE Debug \/ GiveConfig \/ Leave \/ OptionsEnd \/ StartApplying \/ LoadFails \/ Applied
  BY <1>3 DEF Debug, GiveConfig, Leave, OptionsEnd, StartApplying, LoadFails, LoadFailsTo, Applied
<1>4. CASE \E s \in todo : Apply(s)
  BY <1>4 DEF Apply, ApplyLevel, ApplyLevelAs, ApplyPort, ApplyPortAs, ApplyFlag, ApplyFlagIf,
              ApplyText, SkipSetting, ApplyFails, ApplyFailsThen
<1> QED
  BY <1>1, <1>2, <1>3, <1>4 DEF NextConfig

\* A value that was read from the file stays what it was until the daemon exits, and
\* a key is taken once in its mapping (yaml.cpp:171-174), at both levels of settings
\* and whatever the file has in place of a key.
THEOREM ReadOnce == StartupSpec => NeverOverwritten
<1>1. InitStartup => SectionKeys
  BY DEF InitStartup, InitConfig, InitLoader, SectionKeys
<1>2. StartupInv /\ SectionKeys /\ [NextStartup]_startupVars => SectionKeys' /\ [Keeps]_doc
  <2> SUFFICES ASSUME StartupInv, SectionKeys, [NextStartup]_startupVars
               PROVE  SectionKeys' /\ [Keeps]_doc
    OBVIOUS
  <2>1. CASE Open \/ OpenFails \/ NextLoader
    BY <2>1, YamlKeeps DEF StartupInv, ConfigInv
  <2>2. CASE UNCHANGED yamlVars
    BY <2>2 DEF yamlVars, SectionKeys
  <2> QED
    BY <2>1, <2>2, YamlAlone
<1> QED
  BY <1>1, <1>2, StartupInvariance, PTL DEF StartupSpec, NeverOverwritten

-----------------------------------------------------------------------------
(* Progress: whatever the file has, the startup has a branch for it.          *)

\* The loader asks for no event beyond the file: inside of its first collection
\* the document cannot end, outside of it no collection can.
WithinFile ==
    /\ loader = "nested" => \A e \in Offers : e.type \notin {"document", "stream_end"}
    /\ loader = "top" => \A e \in Offers : e \notin Ends

\* The guards of the branches for a setting that is visited.
HasBranch(s) ==
    \/ Rejected(s)
    \/ /\ s[1] \in Parsers /\ Value(s).type = "scalar"
       /\ s \in {Level, ListenPort} => IsInteger(s)
       /\ s \in Known
    \/ s[1] \in Parsers /\ s \notin Known /\ Value(s) # Empty

\* The guards of the steps at each stage.
StartupCanStep ==
    \/ stage = "options"
    \/ stage = "loading" /\ loader \in Loaders
    \/ stage = "applying" /\ (todo = {} \/ \E s \in todo : Visited(s) /\ HasBranch(s))
    \/ stage = "ready" /\ settings_enabled /\ LP!CanStep

Over == stage \in {"exit_0", "exit_1"} \/ Started \/ pc = "terminated"

StartupCanMove == Over \/ StartupCanStep

\* The recursion of the loader is over when the first collection of the file is: its
\* two loops never run on past the end of the document, whatever the file has in
\* place of a key (yaml.cpp:156-223).
THEOREM NeverPastTheEnd == StartupSpec => []WithinFile
<1>1. YamlInv => WithinFile
  <2> SUFFICES ASSUME YamlInv PROVE WithinFile
    OBVIOUS
  <2>1. ASSUME loader = "nested", NEW e \in Offers
        PROVE  e.type \notin {"document", "stream_end"}
    <3>1. nest \in Seq(Expectations) /\ frames \in Seq(Activations) /\ Len(frames) > 0
      BY <2>1 DEF YamlInv, DataInv, YamlType, StackInv
    <3>2. PICK d \in 0 .. Len(frames), g \in Nat : Aligned(d, g)
      BY <2>1 DEF YamlInv, StackInv
    <3>3. Len(nest) > 0 /\ Len(nest) \in Nat
      BY <3>1, <3>2 DEF Aligned
    <3>4. Last(nest) \in Expectations
      BY <3>1, <3>3 DEF Last
    <3>5. nest # <<>>
      BY <3>1, <3>3
    <3>6. e \in Starts \cup Leaves(NextKeys) \cup Leaves(NextValues) \cup Ends
      BY <3>4, <3>5 DEF Offers, Expectations, Ends
    <3> QED
      BY <3>6 DEF Starts, Leaves, Ends, Event, Text
  <2>2. ASSUME loader = "top", NEW e \in Offers
        PROVE  e \notin Ends
    <3>1. nest = <<>>
      BY <2>2 DEF YamlInv, StackInv
    <3>2. e \in Starts \cup Leaves(NextValues) \cup {Event("document"), Event("stream_end")}
      BY <2>2, <3>1 DEF Offers
    <3> QED
      BY <3>2 DEF Starts, Leaves, Ends, Event, Text
  <2> QED
    BY <2>1, <2>2 DEF WithinFile
<1> QED
  BY <1>1, StartupInvariance, PTL DEF StartupInv, ConfigInv

\* A set of numbers has a least one.
LEMMA LeastNumber ==
    ASSUME NEW T \in SUBSET Nat, T # {}
    PROVE  \E x \in T : \A y \in T : x <= y
<1>1. IsWellFoundedOn(OpToRel(<, Nat), Nat)
  BY NatLessThanWellFounded, Zenon
<1>2. PICK x \in T : \A y \in T : ~ (<<y, x>> \in OpToRel(<, Nat))
  BY <1>1, WFMin, Zenon
<1>3. \A y \in Nat : <<y, x>> \in OpToRel(<, Nat) <=> y < x
  BY DEF OpToRel
<1>4. \A y \in T : ~ (y < x)
  BY <1>2, <1>3, Zenon
<1> QED
  BY <1>4

\* Every string of a file has its place in the order.
LEMMA RankNat == \A k \in Strings : Rank(k) \in Nat
<1> SUFFICES ASSUME NEW k \in Strings PROVE Rank(k) \in Nat
  OBVIOUS
<1>1. PICK i \in 1 .. Len(KeyOrder) : KeyOrder[i] = k
  BY OrderAssumption
<1>2. DOMAIN KeyOrder = 1 .. Len(KeyOrder)
  BY OrderAssumption
<1>3. Rank(k) \in DOMAIN KeyOrder
  BY <1>1, <1>2, Zenon DEF Rank
<1> QED
  BY <1>2, <1>3, OrderAssumption

\* A least member by a rank.
LEMMA LeastBy ==
    ASSUME NEW S, S # {}, NEW f, \A s \in S : f[s] \in Nat
    PROVE  \E s \in S : \A t \in S : f[s] <= f[t]
<1>1. {f[s] : s \in S} \subseteq Nat /\ {f[s] : s \in S} # {}
  OBVIOUS
<1>2. PICK x \in {f[s] : s \in S} : \A y \in {f[s] : s \in S} : x <= y
  BY <1>1, LeastNumber
<1> QED
  BY <1>2

\* As long as a setting is left there is a next one in the order of the keys.
LEMMA NextVisited ==
    ASSUME stage = "applying", todo # {},
           \A s \in todo : s[1] \in Strings /\ s[2] \in Strings
    PROVE  \E s \in todo : Visited(s)
<1> DEFINE first == [s \in todo |-> Rank(s[1])]
           second == [s \in todo |-> Rank(s[2])]
<1>1. \A s \in todo : first[s] \in Nat /\ second[s] \in Nat
  BY RankNat
<1>2. PICK s \in todo : \A t \in todo : first[s] <= first[t]
  BY <1>1, LeastBy
<1> DEFINE S == {t \in todo : t[1] = s[1]}
<1>3. PICK u \in S : \A t \in S : second[u] <= second[t]
  <2>1. S # {} /\ \A t \in S : second[t] \in Nat
    BY <1>1
  <2> HIDE DEF S, second
  <2> QED
    BY <2>1, LeastBy
<1>4. ASSUME NEW t \in todo, Before(t, u)
      PROVE  FALSE
  <2>1. Rank(t[1]) \in Nat /\ Rank(t[2]) \in Nat /\ Rank(u[1]) \in Nat /\ Rank(u[2]) \in Nat
    BY RankNat
  <2>2. Rank(u[1]) <= Rank(t[1])
    BY <1>2, <1>3
  <2>3. t[1] = u[1] => Rank(u[2]) <= Rank(t[2])
    BY <1>3
  <2> QED
    BY ONLY <1>4, <2>1, <2>2, <2>3 DEF Before
<1> QED
  BY <1>3, <1>4 DEF Visited

\* What is visited has a branch: the cases of the parsers leave none out.
LEMMA EveryBranch == \A s : HasBranch(s)
BY DEF HasBranch, Rejected, Known

\* The keys of what is visited are strings of the file.
LEMMA VisitStrings ==
    ASSUME YamlInv, NEW s \in Visits
    PROVE  s[1] \in Strings /\ s[2] \in Strings
<1>1. DOMAIN doc \subseteq Paths
  BY DEF YamlInv, DataInv, YamlType
<1>2. CASE s \in DOMAIN doc /\ Len(s) = 2
  <2>1. s \in Seq(Strings) /\ 1 \in 1 .. Len(s) /\ 2 \in 1 .. Len(s)
    BY <1>1, <1>2 DEF Paths
  <2> QED
    BY ONLY <2>1, ElementOfSeq
<1>3. ASSUME NEW q \in DOMAIN doc, Len(q) = 1, s = <<q[1], q[1]>>
      PROVE  s[1] \in Strings /\ s[2] \in Strings
  <2>1. q \in Seq(Strings) /\ 1 \in 1 .. Len(q)
    BY <1>1, <1>3 DEF Paths
  <2>2. q[1] \in Strings
    BY ONLY <2>1, ElementOfSeq
  <2> QED
    BY <1>3, <2>2
<1> QED
  BY <1>2, <1>3 DEF Visits

\* The loader of the database stays within its table.
LEMMA LoaderInTable == StartupSpec => []LP!InTable
<1>1. InitStartup => LP!InTable
  BY DEF InitStartup, L!Init, LP!InTable
<1>2. StartupInv /\ LP!InTable /\ [NextStartup]_startupVars => LP!InTable'
  <2> SUFFICES ASSUME StartupInv, LP!InTable, [NextStartup]_startupVars
               PROVE  LP!InTable'
    OBVIOUS
  <2>1. CASE UNCHANGED loadVars
    BY <2>1 DEF loadVars, LP!InTable
  <2>2. CASE L!Next
    <3>1. LP!Next
      BY <2>2, SameNext
    <3>2. LP!TypeOK
      BY DEF StartupInv, LoadingInv, LP!IInv
    <3> QED
      BY <3>1, <3>2, LP!InTableStep, LoaderAssumption, UrisAssumption, IntAssumption
  <2> QED
    BY <2>1, <2>2 DEF NextStartup, Configure, LoadSettings, startupVars
<1> QED
  BY <1>1, <1>2, StartupInvariance, PTL DEF StartupSpec

\* The startup never comes to a stop half-way: until the daemon exits, aborts or goes on
\* to its main loop there is a branch for what it meets.
THEOREM StartupNeverStuck == StartupSpec => []StartupCanMove
<1>1. StartupInv /\ LP!InTable => StartupCanMove
  <2> SUFFICES ASSUME StartupInv, LP!InTable, ~Over
               PROVE  StartupCanStep
    BY DEF StartupCanMove
  <2>1. stage \in Stages /\ loader \in Loaders
    BY DEF StartupInv, ConfigInv, ConfigTypes, YamlInv, DataInv, YamlType
  <2>2. CASE stage \in {"options", "loading"}
    BY <2>1, <2>2 DEF StartupCanStep, Loaders
  <2>3. CASE stage = "applying"
    <3>1. CASE todo = {}
      BY <2>3, <3>1 DEF StartupCanStep
    <3>2. CASE todo # {}
      <4>1. YamlInv /\ todo \subseteq Visits
        BY <2>3 DEF StartupInv, ConfigInv, ControlInv
      <4>2. \E s \in todo : Visited(s)
        BY <2>3, <3>2, <4>1, VisitStrings, NextVisited
      <4> QED
        BY <2>3, <4>2, EveryBranch DEF StartupCanStep
    <3> QED
      BY <3>1, <3>2
  <2>4. CASE stage = "ready"
    <3>1. settings_enabled /\ pc # "done" /\ pc # "terminated"
      BY <2>4 DEF Over, Started
    <3>2. LP!IInv
      BY DEF StartupInv, LoadingInv
    <3>3. LP!LoaderCanMove
      BY <3>2, LP!CanMove, LoaderAssumption, UrisAssumption, IntAssumption
    <3> QED
      BY <2>4, <3>1, <3>3 DEF StartupCanStep, LP!LoaderCanMove
  <2> QED
    BY <2>1, <2>2, <2>3, <2>4 DEF Stages, Over
<1> QED
  BY <1>1, LoaderInTable, StartupInvariance, PTL

\* What is left of the file: an event that is still to come is worth one more than the
\* node that it may add to the tree.
LoaderLeft ==
    CASE loader = "idle"             -> 2
      [] loader \in {"top", "nested"} -> 1
      [] OTHER                       -> 0

FileLeft == 2 * (MaxEvents - events) + Cardinality(DOMAIN doc) + LoaderLeft

\* What is left of the configuration: once the file is loaded, its settings.
ConfigLeft ==
    CASE stage = "options"  -> MaxOptions - options + FileLeft + 3
      [] stage = "loading"  -> FileLeft + 2
      [] stage = "applying" -> Cardinality(todo) + 1
      [] OTHER              -> 0

StartupLeft == ConfigLeft + LP!StepsLeft

StartupLeftFall == StartupLeft' < StartupLeft

FiniteTree == IsFiniteSet(DOMAIN doc)

\* The arithmetic of an event: one event less, at most one node more.
LEMMA EventSpent ==
    ASSUME NEW m \in Nat, NEW e \in 0 .. m, NEW f \in 0 .. m, e < m, f = e + 1,
           NEW c \in Nat, NEW d \in Nat, d <= c + 1, NEW l \in 0 .. 1
    PROVE  2 * (m - f) + d + l < 2 * (m - e) + c + 1
OBVIOUS

\* A set that has at most one member more is finite if the other is.
LEMMA OneMore ==
    ASSUME NEW S, IsFiniteSet(S), NEW x, NEW T, T = S \/ T = S \cup {x}
    PROVE  /\ IsFiniteSet(T) /\ Cardinality(S) \in Nat /\ Cardinality(T) \in Nat
           /\ Cardinality(T) <= Cardinality(S) + 1
<1>1. Cardinality(S) \in Nat
  BY FS_CardinalityType
<1>2. CASE T = S
  BY <1>1, <1>2
<1>3. CASE T = S \cup {x}
  BY <1>1, <1>3, FS_AddElement
<1> QED
  BY <1>2, <1>3

\* A node of the file is one path of the tree, or none.
LEMMA NodePath ==
    ASSUME NEW e, NEW seqFrames, LoadNodeWith(e, seqFrames)
    PROVE  \E p : DOMAIN doc' = DOMAIN doc \/ DOMAIN doc' = DOMAIN doc \cup {p}
<1>1. \A node : \E p : \/ DOMAIN Store(frames, node) = DOMAIN doc
                       \/ DOMAIN Store(frames, node) = DOMAIN doc \cup {p}
  BY DEF Store
<1> QED
  BY <1>1 DEF LoadNodeWith, Throw

\* An event is one more event, and one path or none.
LEMMA EventPath ==
    ASSUME YamlInv, LoadTop \/ LoadKey \/ LoadValue \/ LoadItem
    PROVE  /\ loader \in {"top", "nested"} /\ loader' # "idle"
           /\ events < MaxEvents /\ events' = events + 1
           /\ \E p : DOMAIN doc' = DOMAIN doc \/ DOMAIN doc' = DOMAIN doc \cup {p}
<1>1. \A e : Parse(e) => events < MaxEvents /\ events' = events + 1
  BY DEF Parse
<1>2. \A fs, node : \E p : \/ DOMAIN Store(fs, node) = DOMAIN doc
                           \/ DOMAIN Store(fs, node) = DOMAIN doc \cup {p}
  BY DEF Store
<1>3. CASE LoadTop
  <2>1. loader = "top" /\ loader' # "idle" /\ \E e : Parse(e)
    BY <1>3 DEF LoadTop
  <2>2. doc' = doc \/ \E node : doc' = Store(<<>>, node)
    BY <1>3 DEF LoadTop
  <2>3. \E p : DOMAIN doc' = DOMAIN doc \/ DOMAIN doc' = DOMAIN doc \cup {p}
    BY ONLY <1>2, <2>2
  <2> QED
    BY <1>1, <2>1, <2>3
<1>4. CASE LoadKey
  <2>1. loader = "nested"
    BY <1>4 DEF LoadKey, LoadKeyUnless, InMapping
  <2>2. PICK e \in Offers :
            /\ Parse(e)
            /\ \/ e.type = "mapping_end" /\ Return
               \/ e.type # "mapping_end" /\ Throw
               \/ /\ e.type # "mapping_end"
                  /\ e.value \notin Last(frames).keys
                  /\ frames' = KeyTaken(e.value)
                  /\ doc' = Store(frames', Empty) /\ UNCHANGED <<loader, file>>
    BY <1>4, KeyCases
  <2>3. loader' # "idle"
    BY <2>1, <2>2 DEF Return, Throw
  <2>4. doc' = doc \/ \E fs : doc' = Store(fs, Empty)
    BY <2>2 DEF Return, Throw
  <2>5. \E p : DOMAIN doc' = DOMAIN doc \/ DOMAIN doc' = DOMAIN doc \cup {p}
    BY ONLY <1>2, <2>4
  <2> QED
    BY <1>1, <2>1, <2>2, <2>3, <2>5
<1>5. CASE LoadValue \/ LoadItem
  <2>1. loader = "nested"
    BY <1>5 DEF LoadValue, LoadItem, InMapping
  <2>2. PICK e : Parse(e) /\ (Return \/ \E seqFrames : LoadNodeWith(e, seqFrames))
    BY <1>5 DEF LoadValue, LoadItem, LoadNode
  <2>3. CASE Return
    BY <1>1, <2>1, <2>2, <2>3 DEF Return
  <2>4. CASE \E seqFrames : LoadNodeWith(e, seqFrames)
    <3>1. PICK seqFrames : LoadNodeWith(e, seqFrames)
      BY <2>4
    <3>2. loader' # "idle"
      BY <2>1, <3>1 DEF LoadNodeWith, Throw
    <3> QED
      BY <1>1, <2>1, <2>2, <3>1, <3>2, NodePath
  <2> QED
    BY <2>2, <2>3, <2>4
<1> QED
  BY <1>3, <1>4, <1>5

\* Each step of load_file leaves less of the file.
LEMMA FileFalls ==
    ASSUME YamlInv, YamlInv', FiniteTree, Open \/ OpenFails \/ NextLoader
    PROVE  FiniteTree' /\ FileLeft' < FileLeft
<1>1. /\ events \in 0 .. MaxEvents /\ events' \in 0 .. MaxEvents /\ MaxEvents \in Nat
      /\ Cardinality(DOMAIN doc) \in Nat
      /\ loader \in Loaders /\ loader' \in Loaders
  BY EventsAssumption, FS_CardinalityType DEF YamlInv, DataInv, YamlType, FiniteTree
<1>2. CASE Open \/ OpenFails \/ ParserFails
  <2>1. UNCHANGED <<doc, events>>
    BY <1>2 DEF Open, OpenFails, ParserFails, Throw
  <2>2. LoaderLeft \in Nat /\ LoaderLeft' \in Nat /\ LoaderLeft' < LoaderLeft
    BY <1>2 DEF Open, OpenFails, ParserFails, Throw, LoaderLeft
  <2> QED
    BY <1>1, <2>1, <2>2 DEF FiniteTree, FileLeft
<1>3. CASE LoadTop \/ LoadKey \/ LoadValue \/ LoadItem
  <2>1. PICK p : DOMAIN doc' = DOMAIN doc \/ DOMAIN doc' = DOMAIN doc \cup {p}
    BY <1>3, EventPath
  <2>2. /\ IsFiniteSet(DOMAIN doc') /\ Cardinality(DOMAIN doc') \in Nat
        /\ Cardinality(DOMAIN doc') <= Cardinality(DOMAIN doc) + 1
    BY <2>1, OneMore, Zenon DEF FiniteTree
  <2>3. /\ loader \in {"top", "nested"} /\ loader' # "idle"
        /\ events < MaxEvents /\ events' = events + 1
    BY <1>3, EventPath
  <2>4. LoaderLeft = 1 /\ LoaderLeft' \in 0 .. 1
    BY <1>1, <2>3 DEF LoaderLeft
  <2>5. 2 * (MaxEvents - events') + Cardinality(DOMAIN doc') + LoaderLeft'
           < 2 * (MaxEvents - events) + Cardinality(DOMAIN doc) + 1
    BY <1>1, <2>2, <2>3, <2>4, EventSpent
  <2> QED
    BY <2>2, <2>4, <2>5, Zenon DEF FiniteTree, FileLeft
<1> QED
  BY <1>2, <1>3 DEF NextLoader

\* A settings file visits no more than it has nodes.
LEMMA VisitsFinite ==
    ASSUME FiniteTree
    PROVE  IsFiniteSet(Visits) /\ Cardinality(Visits) \in Nat
           /\ Cardinality(DOMAIN doc) \in Nat /\ Cardinality(Visits) <= Cardinality(DOMAIN doc)
<1> DEFINE f == [p \in DOMAIN doc |-> IF Len(p) = 2 THEN p ELSE <<p[1], p[1]>>]
           T == {f[p] : p \in DOMAIN doc}
<1>1. f \in Surjection(DOMAIN doc, T)
  BY DEF Surjection
<1>2. Visits \subseteq T
  <2>1. ASSUME NEW p \in DOMAIN doc, Len(p) = 2
        PROVE  p \in T
    <3>1. f[p] = p
      BY <2>1
    <3> QED
      BY <3>1
  <2>2. ASSUME NEW p \in DOMAIN doc, Len(p) = 1
        PROVE  <<p[1], p[1]>> \in T
    <3>1. f[p] = <<p[1], p[1]>>
      BY <2>2
    <3> QED
      BY <3>1
  <2> HIDE DEF T
  <2> QED
    BY <2>1, <2>2 DEF Visits
<1> HIDE DEF f, T
<1>3. IsFiniteSet(T) /\ Cardinality(T) <= Cardinality(DOMAIN doc)
  BY <1>1, FS_Surjection, Zenon DEF FiniteTree
<1>4. IsFiniteSet(Visits) /\ Cardinality(Visits) <= Cardinality(T)
  BY <1>2, <1>3, FS_Subset
<1>5. /\ Cardinality(T) \in Nat /\ Cardinality(Visits) \in Nat
      /\ Cardinality(DOMAIN doc) \in Nat
  BY <1>3, <1>4, FS_CardinalityType DEF FiniteTree
<1> QED
  BY <1>3, <1>4, <1>5

\* What is left of the configuration is a natural number.
LEMMA ConfigLeftNat ==
    ConfigInv /\ FiniteTree =>
        /\ FileLeft \in Nat /\ ConfigLeft \in Nat
        /\ stage = "applying" => IsFiniteSet(todo) /\ Cardinality(todo) \in Nat
<1> SUFFICES ASSUME ConfigInv, FiniteTree
             PROVE  /\ FileLeft \in Nat /\ ConfigLeft \in Nat
                    /\ stage = "applying" => IsFiniteSet(todo) /\ Cardinality(todo) \in Nat
  OBVIOUS
<1>1. /\ events \in 0 .. MaxEvents /\ MaxEvents \in Nat
      /\ options \in 0 .. MaxOptions /\ MaxOptions \in Nat
      /\ stage = "applying" => todo \subseteq Visits
  BY EventsAssumption, OptionsAssumption
     DEF ConfigInv, ConfigTypes, ControlInv, YamlInv, DataInv, YamlType
<1>2. LoaderLeft \in Nat /\ Cardinality(DOMAIN doc) \in Nat
  BY FS_CardinalityType DEF LoaderLeft, FiniteTree
<1>3. FileLeft \in Nat
  BY <1>1, <1>2 DEF FileLeft
<1>4. stage = "applying" => IsFiniteSet(todo) /\ Cardinality(todo) \in Nat
  BY <1>1, VisitsFinite, FS_Subset, FS_CardinalityType
<1>5. MaxOptions - options + FileLeft + 3 \in Nat
  BY <1>1, <1>3
<1>6. ConfigLeft \in Nat
  BY <1>3, <1>4, <1>5 DEF ConfigLeft
<1> QED
  BY <1>3, <1>4, <1>6

\* Each step of the configuration leaves less of it.
LEMMA ConfigFalls ==
    ASSUME ConfigInv, ConfigInv', FiniteTree, NextConfig
    PROVE  FiniteTree' /\ ConfigLeft' < ConfigLeft
<1>1. /\ FileLeft \in Nat /\ ConfigLeft \in Nat
      /\ options \in 0 .. MaxOptions /\ MaxOptions \in Nat
  BY ConfigLeftNat, OptionsAssumption DEF ConfigInv, ConfigTypes
<1>2. UNCHANGED yamlVars => FiniteTree' /\ FileLeft' = FileLeft
  BY DEF yamlVars, FiniteTree, FileLeft, LoaderLeft
<1>3. stage \in {"options", "loading", "applying"} => ConfigLeft > 0
  BY <1>1, ConfigLeftNat DEF ConfigLeft
<1>4. stage' \in {"ready", "exit_0", "exit_1"} => ConfigLeft' = 0
  BY DEF ConfigLeft
<1>5. CASE Debug \/ GiveConfig
  <2>1. /\ stage = "options" /\ stage' = "options"
        /\ options' = options + 1 /\ UNCHANGED yamlVars
    BY <1>5 DEF Debug, GiveConfig, TakeOption
  <2>2. /\ ConfigLeft = MaxOptions - options + FileLeft + 3
        /\ ConfigLeft' = MaxOptions - options' + FileLeft' + 3
    BY <2>1 DEF ConfigLeft
  <2>3. MaxOptions - (options + 1) + FileLeft + 3 < MaxOptions - options + FileLeft + 3
    BY <1>1
  <2> QED
    BY <1>2, <2>1, <2>2, <2>3, Zenon
<1>6. CASE OptionsEnd \/ Leave
  <2>1. /\ stage = "options" /\ UNCHANGED yamlVars
        /\ stage' \in {"loading", "ready", "exit_0", "exit_1"}
    BY <1>6 DEF OptionsEnd, Leave, TakeOption
  <2>2. CASE stage' = "loading"
    <3>1. ConfigLeft = MaxOptions - options + FileLeft + 3 /\ ConfigLeft' = FileLeft' + 2
      BY <2>1, <2>2 DEF ConfigLeft
    <3>2. FileLeft + 2 < MaxOptions - options + FileLeft + 3
      BY <1>1
    <3> QED
      BY <1>2, <2>1, <3>1, <3>2, Zenon
  <2>3. CASE stage' # "loading"
    BY <1>2, <1>3, <1>4, <2>1, <2>3
  <2> QED
    BY <2>2, <2>3
<1>7. CASE Load
  <2>1. stage = "loading" /\ stage' = "loading" /\ (Open \/ OpenFails \/ NextLoader)
    BY <1>7 DEF Load, optionVars
  <2>2. YamlInv /\ YamlInv'
    BY DEF ConfigInv
  <2>3. FiniteTree' /\ FileLeft' < FileLeft
    BY <2>1, <2>2, FileFalls
  <2>4. ConfigLeft = FileLeft + 2 /\ ConfigLeft' = FileLeft' + 2
    BY <2>1 DEF ConfigLeft
  <2>5. FileLeft' \in Nat
    <3>1. (ConfigInv /\ FiniteTree =>
             /\ FileLeft \in Nat /\ ConfigLeft \in Nat
             /\ stage = "applying" => IsFiniteSet(todo) /\ Cardinality(todo) \in Nat)'
      BY ConfigLeftNat, PTL
    <3> QED
      BY <2>3, <3>1
  <2>6. \A a, b \in Nat : a < b => a + 2 < b + 2
    OBVIOUS
  <2> QED
    BY <1>1, <2>3, <2>4, <2>5, <2>6, Zenon
<1>8. CASE StartApplying
  <2>1. /\ stage = "loading" /\ stage' = "applying" /\ todo' = Visits /\ UNCHANGED yamlVars
        /\ loader = "loaded"
    BY <1>8 DEF StartApplying
  <2>2. FileLeft >= Cardinality(DOMAIN doc)
    <3>1. LoaderLeft = 0 /\ events \in 0 .. MaxEvents /\ MaxEvents \in Nat
      BY <2>1, EventsAssumption DEF LoaderLeft, ConfigInv, YamlInv, DataInv, YamlType
    <3>2. Cardinality(DOMAIN doc) \in Nat
      BY VisitsFinite
    <3> QED
      BY <3>1, <3>2 DEF FileLeft
  <2>3. ConfigLeft = FileLeft + 2 /\ ConfigLeft' = Cardinality(Visits) + 1
    BY <2>1 DEF ConfigLeft
  <2>4. Cardinality(Visits) + 1 < FileLeft + 2
    BY <1>1, <2>2, VisitsFinite
  <2> QED
    BY <1>2, <2>1, <2>3, <2>4
<1>9. CASE LoadFails \/ Applied
  <2>1. /\ stage \in {"loading", "applying"} /\ stage' \in {"exit_1", "ready"}
        /\ UNCHANGED yamlVars
    BY <1>9 DEF LoadFails, LoadFailsTo, Applied
  <2> QED
    BY <1>2, <1>3, <1>4, <2>1
<1>10. ASSUME NEW s \in todo, Apply(s)
       PROVE  FiniteTree' /\ ConfigLeft' < ConfigLeft
  <2>1. /\ stage = "applying" /\ UNCHANGED yamlVars
        /\ \/ stage' = "exit_1"
           \/ stage' = "applying" /\ todo' = todo \ {s}
    BY <1>10
       DEF Apply, ApplyLevel, ApplyLevelAs, ApplyPort, ApplyPortAs, ApplyFlag, ApplyFlagIf,
           ApplyText, SkipSetting, ApplyFails, ApplyFailsThen, TakenScalar, Taken, Visited
  <2>2. CASE stage' = "exit_1"
    BY <1>2, <1>3, <1>4, <2>1, <2>2
  <2>3. CASE stage' = "applying" /\ todo' = todo \ {s}
    <3>1. IsFiniteSet(todo) /\ Cardinality(todo) \in Nat
      BY <2>1, ConfigLeftNat
    <3>2. Cardinality(todo \ {s}) = Cardinality(todo) - 1
      BY <1>10, <3>1, FS_RemoveElement
    <3>3. ConfigLeft = Cardinality(todo) + 1 /\ ConfigLeft' = Cardinality(todo \ {s}) + 1
      BY <2>1, <2>3 DEF ConfigLeft
    <3> QED
      BY <1>2, <2>1, <3>1, <3>2, <3>3
  <2> QED
    BY <2>1, <2>2, <2>3
<1> QED
  BY <1>5, <1>6, <1>7, <1>8, <1>9, <1>10 DEF NextConfig

\* The tree is finite at any time.
LEMMA TreeFinite == StartupSpec => []FiniteTree
<1>1. InitStartup => FiniteTree
  <2>1. InitStartup => DOMAIN doc = {<<>>}
    BY DEF InitStartup, InitConfig, InitLoader
  <2> QED
    BY <2>1, FS_Singleton DEF FiniteTree
<1>2. StartupInv /\ StartupInv' /\ FiniteTree /\ [NextStartup]_startupVars => FiniteTree'
  <2> SUFFICES ASSUME StartupInv, StartupInv', FiniteTree, [NextStartup]_startupVars
               PROVE  FiniteTree'
    OBVIOUS
  <2>1. CASE Configure
    BY <2>1, ConfigFalls DEF Configure, StartupInv
  <2>2. CASE UNCHANGED configVars
    BY <2>2 DEF configVars, yamlVars, FiniteTree
  <2> QED
    BY <2>1, <2>2 DEF NextStartup, LoadSettings, startupVars
<1> QED
  BY <1>1, <1>2, StartupInvariance, PTL DEF StartupSpec

\* The startup is a finite affair: options, events of the file, settings and attempts
\* all run out, whatever the file nests and however the database fails.
THEOREM StartupIsFinite == StartupSpec => [](StartupLeft \in Nat) /\ [][StartupLeftFall]_startupVars
<1> DEFINE Inv == StartupInv /\ LP!InTable /\ FiniteTree
<1>1. Inv => ConfigLeft \in Nat /\ LP!StepsLeft \in Nat
  <2> SUFFICES ASSUME StartupInv, LP!InTable, FiniteTree
               PROVE  ConfigLeft \in Nat /\ LP!StepsLeft \in Nat
    OBVIOUS
  <2>1. ConfigLeft \in Nat
    BY ConfigLeftNat DEF StartupInv
  <2>2. LP!IInv
    BY DEF StartupInv, LoadingInv
  <2>3. LP!StepsLeft \in Nat
    BY <2>2, LP!LeftNat, LoaderAssumption, UrisAssumption, IntAssumption
  <2> QED
    BY <2>1, <2>3
<1>2. Inv => StartupLeft \in Nat
  BY <1>1 DEF StartupLeft
<1>3. Inv /\ Inv' /\ [NextStartup]_startupVars => [StartupLeftFall]_startupVars
  <2> SUFFICES ASSUME Inv, Inv', NextStartup
               PROVE  StartupLeft' < StartupLeft
    BY DEF StartupLeftFall
  <2>1. /\ ConfigLeft \in Nat /\ LP!StepsLeft \in Nat
        /\ ConfigLeft' \in Nat /\ LP!StepsLeft' \in Nat
    <3>1. (Inv => ConfigLeft \in Nat /\ LP!StepsLeft \in Nat)'
      BY <1>1, PTL
    <3> QED
      BY <1>1, <3>1
  <2>2. \A a, b, c, d \in Nat : (c < a /\ d = b) \/ (c = a /\ d < b) => c + d < a + b
    OBVIOUS
  <2>3. CASE Configure
    <3>1. ConfigLeft' < ConfigLeft
      BY <2>3, ConfigFalls DEF Configure, StartupInv
    <3>2. LP!StepsLeft' = LP!StepsLeft
      BY <2>3 DEF Configure, loadVars, LP!StepsLeft, LP!Round, LP!Left
    <3> QED
      BY <2>1, <2>2, <3>1, <3>2, Zenon DEF StartupLeft
  <2>4. CASE LoadSettings
    <3>1. ConfigLeft' = ConfigLeft
      BY <2>4 DEF LoadSettings, configVars, optionVars, ConfigLeft
    <3>2. LP!Next
      BY <2>4, SameNext DEF LoadSettings
    <3>3. LP!StepsLeft' < LP!StepsLeft
      BY <3>2, LP!StepsStep, LoaderAssumption, UrisAssumption, IntAssumption
         DEF StartupInv, LoadingInv
    <3> QED
      BY <2>1, <2>2, <3>1, <3>3, Zenon DEF StartupLeft
  <2> QED
    BY <2>3, <2>4 DEF NextStartup
<1> QED
  BY <1>2, <1>3, StartupInvariance, LoaderInTable, TreeFinite, PTL DEF StartupSpec

=============================================================================
