------------------------- MODULE AddressPortProofs -------------------------
(* The length of a prefix, proved for every width of an address, that of the  *)
(* code, 32, among them.  The powers of two are a recursive function, so what *)
(* they are comes first: by induction, from the least element of a set.       *)
EXTENDS AddressPort, TLAPS, WellFoundedInduction

\* A set of numbers has a least one.
LEMMA LeastNumber ==
    ASSUME NEW T \in SUBSET Nat, T # {}
    PROVE  \E x \in T : \A y \in T : x <= y
<1>1. IsWellFoundedOn(OpToRel(<, Nat), Nat)
  BY NatLessThanWellFounded
<1>2. PICK x \in T : \A y \in T : ~ (<<y, x>> \in OpToRel(<, Nat))
  BY <1>1, WFMin
<1>3. \A y \in Nat : <<y, x>> \in OpToRel(<, Nat) <=> y < x
  BY DEF OpToRel
<1>4. \A y \in T : ~ (y < x)
  BY <1>2, <1>3, Zenon
<1> QED
  BY <1>4

\* Induction, said of a set: one with 0 and with what follows each of its members
\* has every number.
LEMMA Induction ==
    ASSUME NEW S \in SUBSET Nat, 0 \in S, \A k \in S : k + 1 \in S
    PROVE  S = Nat
<1> SUFFICES ASSUME Nat \ S # {}
             PROVE  FALSE
  OBVIOUS
<1>1. PICK x \in Nat \ S : \A y \in Nat \ S : x <= y
  BY LeastNumber
<1>2. x # 0
  BY <1>1
<1>3. x - 1 \in S
  BY <1>1, <1>2
<1> QED
  BY <1>1, <1>3

-----------------------------------------------------------------------------
(* The powers of two: a table of the first n of them exists, two tables agree  *)
(* where both are defined, so that one function is all of them.                *)

IsTable(g, last) ==
    /\ g \in [0 .. last -> Nat]
    /\ g[0] = 1
    /\ \A k \in 1 .. last : g[k] = 2 * g[k - 1]

\* A table goes on for one more place.
LEMMA TableExtended ==
    ASSUME NEW m \in Nat, NEW g, IsTable(g, m)
    PROVE  \E h : IsTable(h, m + 1)
<1> DEFINE h == [k \in 0 .. m + 1 |-> IF k = m + 1 THEN 2 * g[m] ELSE g[k]]
<1>1. g \in [0 .. m -> Nat] /\ g[0] = 1 /\ g[m] \in Nat
  BY DEF IsTable
<1>2. h \in [0 .. m + 1 -> Nat] /\ h[0] = 1
  BY <1>1
<1>3. ASSUME NEW k \in 1 .. m + 1
      PROVE  h[k] = 2 * h[k - 1]
  <2>1. CASE k = m + 1
    <3>1. h[k] = 2 * g[m] /\ h[k - 1] = g[m]
      BY <2>1
    <3> QED
      BY <3>1
  <2>2. CASE k \in 1 .. m
    <3>1. h[k] = g[k] /\ h[k - 1] = g[k - 1]
      BY <2>2
    <3>2. g[k] = 2 * g[k - 1]
      BY <2>2 DEF IsTable
    <3> QED
      BY <3>1, <3>2
  <2> QED
    BY <2>1, <2>2
<1>4. IsTable(h, m + 1)
  BY <1>2, <1>3 DEF IsTable
<1> HIDE DEF h
<1> QED
  BY <1>4

\* There is a table of every length.
LEMMA TableExists == \A m \in Nat : \E g : IsTable(g, m)
<1> DEFINE S == {m \in Nat : \E g : IsTable(g, m)}
<1>1. 0 \in S
  <2>1. IsTable([k \in 0 .. 0 |-> 1], 0)
    BY DEF IsTable
  <2> QED
    BY <2>1
<1>2. ASSUME NEW m \in S
      PROVE  m + 1 \in S
  BY TableExtended
<1> HIDE DEF S
<1>3. S \in SUBSET Nat
  BY DEF S
<1>4. S = Nat
  BY <1>1, <1>2, <1>3, Induction
<1> QED
  BY <1>4 DEF S

\* Two tables have the same entries.
LEMMA TableUnique ==
    ASSUME NEW l \in Nat, NEW m \in Nat, NEW g, NEW h, IsTable(g, l), IsTable(h, m)
    PROVE  \A k \in Nat : k <= l /\ k <= m => g[k] = h[k]
<1> DEFINE S == {k \in Nat : k <= l /\ k <= m => g[k] = h[k]}
<1>1. 0 \in S
  BY DEF IsTable
<1>2. ASSUME NEW k \in S
      PROVE  k + 1 \in S
  <2> SUFFICES ASSUME k + 1 <= l, k + 1 <= m
               PROVE  g[k + 1] = h[k + 1]
    OBVIOUS
  <2>1. k + 1 \in 1 .. l /\ k + 1 \in 1 .. m /\ (k + 1) - 1 = k
    OBVIOUS
  <2>2. g[k + 1] = 2 * g[k] /\ h[k + 1] = 2 * h[k]
    BY <2>1 DEF IsTable
  <2> QED
    BY <2>2
<1> HIDE DEF S
<1>3. S \in SUBSET Nat
  BY DEF S
<1>4. S = Nat
  BY <1>1, <1>2, <1>3, Induction
<1> QED
  BY <1>4 DEF S

\* The function the model declares is the one its equation describes.
LEMMA PowersExist ==
    \A k \in Nat : PowerOfTwo[k] = IF k = 0 THEN 1 ELSE 2 * PowerOfTwo[k - 1]
<1> DEFINE t(m) == CHOOSE g : IsTable(g, m)
           f == [m \in Nat |-> t(m)[m]]
           Doubled(F) == [k \in Nat |-> IF k = 0 THEN 1 ELSE 2 * F[k - 1]]
<1>1. \A m \in Nat : IsTable(t(m), m)
  BY TableExists, Zenon
<1> HIDE DEF t
<1>2. f \in [Nat -> Nat] /\ f[0] = 1
  BY <1>1 DEF IsTable
<1>3. ASSUME NEW k \in Nat
      PROVE  f[k + 1] = 2 * f[k]
  <2>1. t(k)[k] = t(k + 1)[k]
    BY <1>1, TableUnique
  <2>2. IsTable(t(k + 1), k + 1)
    BY <1>1
  <2>3. k + 1 \in 1 .. k + 1 /\ (k + 1) - 1 = k
    OBVIOUS
  <2>4. t(k + 1)[k + 1] = 2 * t(k + 1)[k]
    BY <2>2, <2>3 DEF IsTable
  <2> QED
    BY <2>1, <2>4
<1> HIDE DEF f
<1>4. f = Doubled(f)
  <2>1. ASSUME NEW k \in Nat
        PROVE  f[k] = Doubled(f)[k]
    <3>1. CASE k = 0
      BY <3>1, <1>2
    <3>2. CASE k # 0
      <4>1. k - 1 \in Nat /\ (k - 1) + 1 = k
        BY <3>2
      <4>2. f[k] = 2 * f[k - 1]
        BY <4>1, <1>3
      <4> QED
        BY <4>2, <3>2
    <3> QED
      BY <3>1, <3>2
  <2> QED
    BY <2>1, <1>2
<1>5. PowerOfTwo = Doubled(PowerOfTwo)
  <2>1. \E F : F = Doubled(F)
    BY <1>4
  <2>2. PowerOfTwo = CHOOSE F : F = Doubled(F)
    BY DEF PowerOfTwo
  <2> HIDE DEF Doubled
  <2> QED
    BY <2>1, <2>2, Zenon
<1> QED
  BY <1>5, Zenon

\* The first power of two is 1, and the next one is twice the last.
LEMMA PowersDouble ==
    /\ PowerOfTwo[0] = 1
    /\ \A k \in Nat : PowerOfTwo[k + 1] = 2 * PowerOfTwo[k]
<1>1. PowerOfTwo[0] = 1
  BY PowersExist
<1>2. ASSUME NEW k \in Nat
      PROVE  PowerOfTwo[k + 1] = 2 * PowerOfTwo[k]
  <2>1. k + 1 \in Nat /\ k + 1 # 0 /\ (k + 1) - 1 = k
    OBVIOUS
  <2> QED
    BY <2>1, PowersExist
<1> QED
  BY <1>1, <1>2

\* Every power of two is a positive number.
LEMMA PowersPositive == \A k \in Nat : PowerOfTwo[k] \in Nat \ {0}
<1> DEFINE S == {k \in Nat : PowerOfTwo[k] \in Nat \ {0}}
<1>1. 0 \in S
  BY PowersDouble
<1>2. ASSUME NEW k \in S
      PROVE  k + 1 \in S
  BY PowersDouble
<1>3. S = Nat
  BY <1>1, <1>2, Induction
<1> QED
  BY <1>3

\* A greater exponent gives a greater power: no two masks are the same.
LEMMA PowersGrow == \A j, k \in Nat : j < k => PowerOfTwo[j] < PowerOfTwo[k]
<1> TAKE j \in Nat
<1> DEFINE S == {k \in Nat : j < k => PowerOfTwo[j] < PowerOfTwo[k]}
<1>1. 0 \in S
  OBVIOUS
<1>2. ASSUME NEW k \in S
      PROVE  k + 1 \in S
  <2>1. PowerOfTwo[k + 1] = 2 * PowerOfTwo[k] /\ PowerOfTwo[k] \in Nat \ {0}
    BY PowersDouble, PowersPositive
  <2>2. CASE j < k
    BY <2>1, <2>2, PowersPositive
  <2>3. CASE ~ (j < k)
    <3>1. j < k + 1 => j = k
      BY <2>3
    <3> QED
      BY <2>1, <3>1
  <2> QED
    BY <2>2, <2>3
<1>3. S = Nat
  BY <1>1, <1>2, Induction
<1> QED
  BY <1>3

-----------------------------------------------------------------------------
(* The mask of each turn of the loop.                                          *)

\* A number below the modulus is its own remainder, and the modulus leaves none.
LEMMA Remainder ==
    ASSUME NEW m \in Nat \ {0}
    PROVE  /\ m % m = 0
           /\ \A x \in 0 .. m - 1 : x % m = x
OBVIOUS

\* Line 193, turn by turn: below the width the mask leaves out the last n bits; at
\* the width it is the empty one, or that of a host where the shift went round.
LEMMA MaskOfTurn ==
    ASSUME n \in 0 .. Width, pastEnd \in {0, 1}
    PROVE  /\ n < Width => mask = PrefixMask(Width - n)
           /\ n = Width => \/ pastEnd = 0 /\ mask = PrefixMask(0)
                           \/ pastEnd = 1 /\ mask = PrefixMask(Width)
<1> DEFINE all == PowerOfTwo[Width]
<1>1. Width \in Nat \ {0}
  BY WidthAssumption
<1>2. all \in Nat \ {0} /\ PowerOfTwo[0] = 1
  BY <1>1, PowersPositive, PowersDouble
<1>3. CASE n < Width
  <2>1. PowerOfTwo[n] \in Nat \ {0} /\ PowerOfTwo[n] < all
    BY <1>1, <1>3, PowersPositive, PowersGrow
  <2>2. all - 1 - (PowerOfTwo[n] - 1) = all - PowerOfTwo[n] /\ all - PowerOfTwo[n] \in 0 .. all - 1
    BY <1>2, <2>1
  <2>3. mask = all - PowerOfTwo[n]
    BY <1>2, <1>3, <2>2, Remainder DEF mask, Shifted
  <2>4. PrefixMask(Width - n) = all - PowerOfTwo[n]
    <3>1. Width - (Width - n) = n
      BY <1>1
    <3> QED
      BY <3>1 DEF PrefixMask
  <2> QED
    BY <1>3, <2>3, <2>4
<1>4. CASE n = Width
  <2>1. CASE pastEnd = 0
    <3>1. all - 1 - (0 - 1) = all
      BY <1>2
    <3>2. mask = 0
      BY <1>2, <1>4, <2>1, <3>1, Remainder DEF mask, Shifted
    <3>3. PrefixMask(0) = 0
      BY <1>1, <1>2 DEF PrefixMask
    <3> QED
      BY <1>4, <2>1, <3>2, <3>3
  <2>2. CASE pastEnd = 1
    <3>1. all - 1 - (1 - 1) = all - 1 /\ all - 1 \in 0 .. all - 1
      BY <1>2
    <3>2. mask = all - 1
      BY <1>2, <1>4, <2>2, <3>1, Remainder DEF mask, Shifted
    <3>3. PrefixMask(Width) = all - 1
      BY <1>1, <1>2 DEF PrefixMask
    <3> QED
      BY <1>4, <2>2, <3>2, <3>3
  <2> QED
    BY <2>1, <2>2
<1> QED
  BY <1>1, <1>3, <1>4

-----------------------------------------------------------------------------
(* The call.                                                                   *)

TypeOK ==
    /\ netmask \in Masks \cup {Any, Malformed}
    /\ pastEnd \in {0, 1}
    /\ pc \in {"start", "loop", "port", "done", "failed"}
    /\ n \in 0 .. Width + 1
    /\ ss \in [ip : BOOLEAN, length : {None} \cup 0 .. Width - 1, port : BOOLEAN]
    /\ ip \in BOOLEAN /\ port \in BOOLEAN

\* The turns made so far have not found the netmask; the empty mask and that of a
\* host are left out, which the last turn finds or not.
Missed(turns) == \A k \in 1 .. Width - 1 : k < turns => netmask # PrefixMask(Width - k)

\* What the text has before the loop, during it and after it.
AddressInv ==
    /\ TypeOK
    /\ pc = "start" => n = 0 /\ ss.length = None
    /\ pc = "loop" => netmask # Any /\ ss.length = None /\ Missed(n)
    /\ pc = "failed" => Missed(Width + 1) /\ ss.length = None
    /\ pc \in {"port", "done"} => (ss.length = None <=> netmask = Any)
    /\ ss.length # None =>
          \/ netmask = PrefixMask(ss.length)
          \/ netmask = PrefixMask(Width) /\ ss.length = 0

\* The invariant is established by the arguments.
LEMMA AddressInit == Init => AddressInv
BY WidthAssumption DEF Init, AddressInv, TypeOK, None

\* A turn of the loop whose mask is not the netmask leaves one more mask behind.
LEMMA TryNextKeepsInv == AddressInv /\ TryNext => AddressInv'
<1> SUFFICES ASSUME AddressInv, TryNext
             PROVE  AddressInv'
  OBVIOUS
<1>1. pc = "loop" /\ n \in 0 .. Width /\ n' = n + 1 /\ (mask # netmask \/ n = 0)
  BY WidthAssumption DEF TryNext, AddressInv, TypeOK
<1>2. UNCHANGED <<pc, ss, ip, port, netmask, pastEnd>>
  BY DEF TryNext, SameArguments
<1>3. TypeOK'
  BY <1>1, <1>2, WidthAssumption DEF AddressInv, TypeOK, Masks
<1>4. Missed(n)'
  <2> SUFFICES ASSUME NEW k \in 1 .. Width - 1, k < n + 1
               PROVE  netmask # PrefixMask(Width - k)
    BY <1>1, <1>2 DEF Missed, PrefixMask
  <2>1. CASE k < n
    BY <1>1, <2>1 DEF AddressInv, Missed
  <2>2. CASE k = n
    <3>1. mask = PrefixMask(Width - n) /\ mask # netmask
      BY <1>1, <2>2, MaskOfTurn, WidthAssumption DEF AddressInv, TypeOK
    <3> QED
      BY <2>2, <3>1
  <2> QED
    BY <1>1, <2>1, <2>2
<1> QED
  BY <1>1, <1>2, <1>3, <1>4 DEF AddressInv, PrefixMask

\* A match writes the length that stands for the netmask.
LEMMA MatchKeepsInv == AddressInv /\ Match => AddressInv'
<1> SUFFICES ASSUME AddressInv, Match
             PROVE  AddressInv'
  OBVIOUS
<1> DEFINE len == Width - n
<1>1. pc = "loop" /\ n \in 1 .. Width /\ mask = netmask /\ pc' = "port"
  BY DEF Match
<1>2. UNCHANGED <<n, ip, port, netmask, pastEnd>>
  BY DEF Match, SameArguments
<1>3. Width \in Nat \ {0} /\ len \in 0 .. Width - 1
  BY <1>1, WidthAssumption
<1>4. ss' = [ss EXCEPT !.length = len]
  BY DEF Match
<1>5. TypeOK' /\ ss'.length = len /\ len # None
  BY <1>1, <1>2, <1>3, <1>4 DEF AddressInv, TypeOK, Masks, None
<1>6. netmask # Any
  BY <1>1 DEF AddressInv
<1>7. netmask = PrefixMask(len) \/ (netmask = PrefixMask(Width) /\ len = 0)
  <2>1. n \in 0 .. Width /\ pastEnd \in {0, 1}
    BY <1>1, <1>3 DEF AddressInv, TypeOK
  <2>2. CASE n < Width
    <3>1. mask = PrefixMask(Width - n)
      BY <2>1, <2>2, MaskOfTurn
    <3> QED
      BY <1>1, <3>1
  <2>3. CASE n = Width
    <3>1. len = 0
      BY <1>3, <2>3
    <3> QED
      BY <1>1, <2>1, <2>3, <3>1, MaskOfTurn
  <2> QED
    BY <1>3, <2>1, <2>2, <2>3
<1> HIDE DEF len
<1> QED
  BY <1>1, <1>2, <1>5, <1>6, <1>7 DEF AddressInv, PrefixMask

\* Every step keeps the invariant.
LEMMA AddressNext == AddressInv /\ [Next]_vars => AddressInv'
<1> SUFFICES ASSUME AddressInv, [Next]_vars
             PROVE  AddressInv'
  OBVIOUS
<1>1. CASE Begin
  <2>1. pc = "start" /\ UNCHANGED <<n, ip, port, netmask, pastEnd>> /\ n = 0
    BY <1>1 DEF Begin, SameArguments, AddressInv
  <2>2. ss' = [ss EXCEPT !.ip = ip] /\ pc' = IF netmask = Any THEN "port" ELSE "loop"
    BY <1>1 DEF Begin
  <2>3. ss'.length = ss.length /\ ss.length = None
    BY <2>1, <2>2 DEF AddressInv, TypeOK
  <2>4. TypeOK'
    BY <2>1, <2>2 DEF AddressInv, TypeOK, Masks
  <2>5. Missed(0)'
    BY DEF Missed
  <2> QED
    BY <2>1, <2>2, <2>3, <2>4, <2>5 DEF AddressInv
<1>2. CASE Match
  BY <1>2, MatchKeepsInv
<1>3. CASE TryNext
  BY <1>3, TryNextKeepsInv
<1>4. CASE GiveUp
  <2>1. pc = "loop" /\ pc' = "failed" /\ n = Width + 1
    BY <1>4, WidthAssumption DEF GiveUp, AddressInv, TypeOK
  <2>2. UNCHANGED <<n, ip, port, netmask, pastEnd>>
    BY <1>4 DEF GiveUp, SameArguments
  <2>3. ss' = [ip |-> FALSE, length |-> None, port |-> FALSE]
    BY <1>4 DEF GiveUp
  <2>4. TypeOK'
    BY <2>1, <2>2, <2>3 DEF AddressInv, TypeOK, Masks
  <2>5. Missed(Width + 1)'
    BY <2>1, <2>2 DEF AddressInv, Missed, PrefixMask
  <2> QED
    BY <2>1, <2>3, <2>4, <2>5 DEF AddressInv
<1>5. CASE AppendPort
  <2>1. pc = "port" /\ pc' = "done" /\ UNCHANGED <<n, ip, port, netmask, pastEnd>>
    BY <1>5 DEF AppendPort, SameArguments
  <2>2. ss' = [ss EXCEPT !.port = port]
    BY <1>5 DEF AppendPort
  <2>3. ss'.length = ss.length
    BY <2>2 DEF AddressInv, TypeOK
  <2>4. TypeOK'
    BY <2>1, <2>2 DEF AddressInv, TypeOK, Masks
  <2> QED
    BY <2>1, <2>3, <2>4 DEF AddressInv, PrefixMask
<1>6. CASE UNCHANGED vars
  BY <1>6 DEF vars, AddressInv, TypeOK, Masks, Missed, PrefixMask
<1> QED
  BY <1>1, <1>2, <1>3, <1>4, <1>5, <1>6 DEF Next

\* The invariant holds in every state.
LEMMA AddressInvariant == Spec => []AddressInv
<1> QED
  BY AddressInit, AddressNext, PTL DEF Spec

\* The invariant says of the length what the property asks: a mask that no turn
\* has found is no prefix.
LEMMA AddressInvImpliesLengthExact == AddressInv => LengthExact
<1> SUFFICES ASSUME AddressInv
             PROVE  LengthExact
  OBVIOUS
<1>1. pc = "failed" =>
        \A length \in 0 .. Width - 1 : validate_netmask(length) => netmask # PrefixMask(length)
  <2> SUFFICES ASSUME pc = "failed", NEW length \in 0 .. Width - 1, validate_netmask(length)
               PROVE  netmask # PrefixMask(length)
    OBVIOUS
  <2>1. Width - length \in 1 .. Width - 1 /\ Width - (Width - length) = length
    BY WidthAssumption DEF validate_netmask
  <2>2. Width - length < Width + 1
    BY <2>1, WidthAssumption
  <2> QED
    BY <2>1, <2>2 DEF AddressInv, Missed
<1> QED
  BY <1>1 DEF AddressInv, LengthExact

\* For every width, and whatever the shift by the width gives: the length in the text
\* stands for the netmask (options.cpp:189-206), and only a netmask that is no prefix,
\* or an end of the range, gives the empty text.
THEOREM LengthIsExact == Spec => []LengthExact
<1> QED
  BY AddressInvariant, AddressInvImpliesLengthExact, PTL

\* No two lengths have one mask.
LEMMA PrefixesDiffer ==
    ASSUME NEW l \in 0 .. Width, NEW m \in 0 .. Width, PrefixMask(l) = PrefixMask(m)
    PROVE  l = m
<1>1. Width - l \in Nat /\ Width - m \in Nat
  BY WidthAssumption
<1>2. PowerOfTwo[Width - l] = PowerOfTwo[Width - m]
  BY <1>1, WidthAssumption, PowersPositive DEF PrefixMask
<1>3. ~ (Width - l < Width - m) /\ ~ (Width - m < Width - l)
  BY <1>1, <1>2, PowersGrow, PowersPositive
<1> QED
  BY <1>1, <1>3, WidthAssumption

\* The mask of a prefix, neither empty nor that of a host, comes out as its own
\* length: a call that reaches its end with it has found that length and no other.
ComesOutAsItself ==
    \A length \in 1 .. Width - 1 :
        netmask = PrefixMask(length) /\ netmask # Any =>
            pc # "failed" /\ (pc = "done" => ss.length = length)

\* The masks of prefixes come out as their lengths (options.cpp:197-202), for every
\* width: what a caller that passes a valid netmask gets.
THEOREM PrefixComesOut == Spec => []ComesOutAsItself
<1>1. AddressInv => ComesOutAsItself
  <2> SUFFICES ASSUME AddressInv, NEW length \in 1 .. Width - 1,
                      netmask = PrefixMask(length), netmask # Any
               PROVE  pc # "failed" /\ (pc = "done" => ss.length = length)
    BY DEF ComesOutAsItself
  <2>1. pc # "failed"
    BY AddressInvImpliesLengthExact, WidthAssumption DEF LengthExact, validate_netmask
  <2>2. ASSUME pc = "done"
        PROVE  ss.length = length
    <3>1. ss.length # None /\ ss.length \in 0 .. Width
      BY <2>2, WidthAssumption DEF AddressInv, TypeOK
    <3>2. length \in 0 .. Width /\ Width \in 0 .. Width /\ length # Width
      BY WidthAssumption
    <3>3. PrefixMask(length) # PrefixMask(Width)
      BY <3>2, PrefixesDiffer
    <3>4. PrefixMask(length) = PrefixMask(ss.length)
      BY <3>1, <3>3 DEF AddressInv
    <3> QED
      BY <3>1, <3>2, <3>4, PrefixesDiffer
  <2> QED
    BY <2>1, <2>2
<1> QED
  BY <1>1, AddressInvariant, PTL

-----------------------------------------------------------------------------
(* Progress: the loop ends.                                                   *)

Over == pc \in {"done", "failed"}

\* The guards of the steps.
AddressCanStep ==
    \/ pc \in {"start", "port"}
    \/ pc = "loop" /\ n \in 1 .. Width /\ mask = netmask
    \/ pc = "loop" /\ n <= Width /\ (mask # netmask \/ n = 0)
    \/ pc = "loop" /\ n > Width

TurnsLeft ==
    CASE pc = "start" -> Width + 4
      [] pc = "loop"  -> Width - n + 3
      [] pc = "port"  -> 1
      [] Over         -> 0

TurnsLeftFall == TurnsLeft' < TurnsLeft

\* The loop tries at most one mask more than an address has bits, so that it never
\* shifts farther than by the width, and comes to an end with a text or without one
\* (options.cpp:190-206).
THEOREM AddressIsFinite ==
    Spec => []((Over \/ AddressCanStep) /\ n <= Width + 1 /\ TurnsLeft \in Nat)
            /\ [][TurnsLeftFall]_vars
<1>1. AddressInv => (Over \/ AddressCanStep) /\ n <= Width + 1 /\ TurnsLeft \in Nat
  BY WidthAssumption DEF AddressInv, TypeOK, Over, AddressCanStep, TurnsLeft
<1>2. AddressInv /\ AddressInv' /\ [Next]_vars => [TurnsLeftFall]_vars
  <2> SUFFICES ASSUME AddressInv, AddressInv', Next
               PROVE  TurnsLeft' < TurnsLeft
    BY DEF TurnsLeftFall
  <2>1. n \in 0 .. Width + 1 /\ Width \in Nat /\ (pc = "start" => n = 0)
    BY WidthAssumption DEF AddressInv, TypeOK
  <2> QED
    BY <2>1 DEF Next, Begin, Match, TryNext, GiveUp, AppendPort, TurnsLeft, Over
<1> QED
  BY <1>1, <1>2, AddressInvariant, AddressNext, PTL DEF Spec

=============================================================================
