------------------------- MODULE SNIListenerProofs -------------------------
(***************************************************************************)
(* A connection comes to the same end in whatever pieces it is read: what  *)
(* the parsers of the PROXY header and of the ClientHello say of a part of *)
(* a stream agrees with what they say of all of it.                        *)
(***************************************************************************)
EXTENDS SNIListener, SequenceTheorems, WellFoundedInduction, TLAPS

-----------------------------------------------------------------------------
(***************************************************************************)
(* Beginnings of sequences                                                 *)
(***************************************************************************)

\* d is what was read so far of w.
Begins(d, w) == Len(d) <= Len(w) /\ \A i \in 1 .. Len(d) : d[i] = w[i]

\* A non-empty set of positions has a first one.
LEMMA LeastExists ==
    ASSUME NEW T, T \subseteq Nat, T # {}
    PROVE  \E i \in T : \A j \in T : i <= j
<1>1. \E i \in T : \A j \in T : ~(<<j, i>> \in OpToRel(<, Nat))
  BY NatLessThanWellFounded, WFMin
<1>2. PICK i \in T : \A j \in T : ~(<<j, i>> \in OpToRel(<, Nat))
  BY <1>1
<1>3. \A j \in T : ~(j < i)
  BY <1>2 DEF OpToRel
<1> QED BY <1>3

\* A set of positions that is closed downwards and not empty has 0 in it.  It
\* stands for an induction from the end of the data to its beginning.
LEMMA DownToZero ==
    ASSUME NEW K, K \subseteq Nat, K # {}, \A k \in K : k > 0 => k - 1 \in K
    PROVE  0 \in K
<1>1. PICK i \in K : \A j \in K : i <= j
  BY LeastExists
<1>2. ASSUME i > 0 PROVE FALSE
  <2>1. i - 1 \in K
    BY <1>2
  <2> QED BY <1>1, <2>1
<1> QED BY <1>2

\* Parts of a sequence and of a beginning of it are the same.
LEMMA SamePart ==
    ASSUME NEW s \in Seq(Nat), NEW t \in Seq(Nat), Begins(s, t),
           NEW m \in Nat, NEW n \in Nat, 1 <= m, n <= Len(s)
    PROVE  SubSeq(s, m, n) = SubSeq(t, m, n)
<1>1. CASE m <= n + 1
  <2>1. /\ SubSeq(s, m, n) \in Seq(Nat) /\ SubSeq(t, m, n) \in Seq(Nat)
        /\ Len(SubSeq(s, m, n)) = n - m + 1 /\ Len(SubSeq(t, m, n)) = n - m + 1
    BY <1>1 DEF Begins
  <2>2. \A i \in 1 .. n - m + 1 : SubSeq(s, m, n)[i] = s[m + i - 1]
    BY <1>1
  <2>3. \A i \in 1 .. n - m + 1 : SubSeq(t, m, n)[i] = t[m + i - 1]
    BY <1>1 DEF Begins
  <2>4. \A i \in 1 .. n - m + 1 : s[m + i - 1] = t[m + i - 1]
    BY <1>1 DEF Begins
  <2>5. \A i \in 1 .. n - m + 1 : SubSeq(s, m, n)[i] = SubSeq(t, m, n)[i]
    BY <2>2, <2>3, <2>4
  <2>6. PICK x \in Seq(Nat), y \in Seq(Nat) : x = SubSeq(s, m, n) /\ y = SubSeq(t, m, n)
    BY <2>1, Zenon
  <2>7. Len(x) = n - m + 1 /\ Len(y) = n - m + 1 /\ \A i \in 1 .. n - m + 1 : x[i] = y[i]
    BY <2>1, <2>5, <2>6, Zenon
  <2>8. x = y
    BY <2>7
  <2> QED BY <2>6, <2>8, Zenon
<1>2. CASE ~(m <= n + 1)
  BY <1>2
<1> QED BY <1>1, <1>2

\* The first bytes of a sequence are a beginning of it.
LEMMA FrontBegins ==
    ASSUME NEW w \in Seq(Nat), NEW n \in Nat, n <= Len(w)
    PROVE  /\ SubSeq(w, 1, n) \in Seq(Nat)
           /\ Len(SubSeq(w, 1, n)) = n
           /\ Begins(SubSeq(w, 1, n), w)
  BY DEF Begins

\* Two beginnings of the same sequence.
LEMMA TwoBeginnings ==
    ASSUME NEW d \in Seq(Nat), NEW e \in Seq(Nat), NEW w \in Seq(Nat),
           Begins(d, w), Begins(e, w), Len(d) <= Len(e)
    PROVE  Begins(d, e)
  BY DEF Begins

\* The length of a part.
LEMMA PartLength ==
    ASSUME NEW s \in Seq(Nat), NEW m \in Nat, NEW n \in Nat, 1 <= m, m <= n + 1, n <= Len(s)
    PROVE  Len(SubSeq(s, m, n)) = n - m + 1
  OBVIOUS

\* The number in two bytes.
LEMMA SizeSame ==
    ASSUME NEW s \in Seq(Nat), NEW t \in Seq(Nat), Begins(s, t),
           NEW pos \in Nat, pos + 2 <= Len(s)
    PROVE  /\ At(s, pos) = At(t, pos) /\ At(s, pos) \in Nat
           /\ Size(s, pos) = Size(t, pos) /\ Size(s, pos) \in Nat
<1>1. /\ s[pos + 1] = t[pos + 1] /\ s[pos + 1 + 1] = t[pos + 1 + 1]
      /\ s[pos + 1] \in Nat /\ s[pos + 1 + 1] \in Nat
  BY DEF Begins
<1>2. PICK x \in Nat, y \in Nat : x = s[pos + 1] /\ y = s[pos + 1 + 1]
  BY <1>1
<1>3. 256 * x + y \in Nat
  OBVIOUS
<1> QED BY <1>1, <1>2, <1>3, Zenon DEF At, Size

-----------------------------------------------------------------------------
(***************************************************************************)
(* The recursions of the ClientHello parser are defined: every step goes   *)
(* forward and the end of the data stops it, so that a function can be     *)
(* built from the end of the data to its beginning.                        *)
(***************************************************************************)

Cut(data, pos) ==
    IF pos + 3 + Size(data, pos + 1) > Len(data) THEN Len(data)
    ELSE pos + 3 + Size(data, pos + 1)

\* One step of _parse_host_name, which goes on with f.
EntryStep(data, f, pos) ==
    IF pos + 3 >= Len(data) THEN SniError
    ELSE IF At(data, pos) # 0 THEN f[pos + 3 + Size(data, pos + 1)]
    ELSE Decode(SubSeq(data, pos + 4, Cut(data, pos)))

\* One step of _parse_extension.
ExtensionStep(data, f, pos) ==
    IF pos + 4 > Len(data) THEN SniError
    ELSE IF Size(data, pos) = 0 THEN ParseHostName(data, pos + 4)
    ELSE f[pos + 4 + Size(data, pos + 2)]

IsEntry(data, f) == f = [pos \in Nat |-> EntryStep(data, f, pos)]
IsExtension(data, f) == f = [pos \in Nat |-> ExtensionStep(data, f, pos)]
Entry(data) == CHOOSE f : IsEntry(data, f)
Extension(data) == CHOOSE f : IsExtension(data, f)

\* The step at a position looks only at later positions.
LEMMA EntryLooksAhead ==
    ASSUME NEW data \in Seq(Nat), NEW pos \in Nat, NEW f, NEW g,
           \A later \in Nat : later > pos => f[later] = g[later]
    PROVE  EntryStep(data, f, pos) = EntryStep(data, g, pos)
<1>1. CASE pos + 3 >= Len(data)
  BY <1>1, Zenon DEF EntryStep
<1>2. CASE ~(pos + 3 >= Len(data))
  <2>1. Begins(data, data) /\ pos + 1 \in Nat /\ pos + 1 + 2 <= Len(data)
    BY <1>2 DEF Begins
  <2>2. Size(data, pos + 1) \in Nat
    BY <2>1, SizeSame, Zenon
  <2>3. pos + 3 + Size(data, pos + 1) \in Nat /\ pos + 3 + Size(data, pos + 1) > pos
    BY <2>2
  <2> QED BY <2>3, Zenon DEF EntryStep
<1> QED BY <1>1, <1>2

\* The same for an extension.
LEMMA ExtensionLooksAhead ==
    ASSUME NEW data \in Seq(Nat), NEW pos \in Nat, NEW f, NEW g,
           \A later \in Nat : later > pos => f[later] = g[later]
    PROVE  ExtensionStep(data, f, pos) = ExtensionStep(data, g, pos)
<1>1. CASE pos + 4 > Len(data)
  BY <1>1, Zenon DEF ExtensionStep
<1>2. CASE ~(pos + 4 > Len(data))
  <2>1. Begins(data, data) /\ pos + 2 \in Nat /\ pos + 2 + 2 <= Len(data)
    BY <1>2 DEF Begins
  <2>2. Size(data, pos + 2) \in Nat
    BY <2>1, SizeSame, Zenon
  <2>3. pos + 4 + Size(data, pos + 2) \in Nat /\ pos + 4 + Size(data, pos + 2) > pos
    BY <2>2
  <2> QED BY <2>3, Zenon DEF ExtensionStep
<1> QED BY <1>1, <1>2

\* There is such a function, so that Entry satisfies its equation.
LEMMA EntryExists == ASSUME NEW data \in Seq(Nat) PROVE IsEntry(data, Entry(data))
<1> DEFINE Holds(f, k) == \A pos \in Nat : pos >= k => f[pos] = EntryStep(data, f, pos)
           K == {k \in Nat : \E f : f = [pos \in Nat |-> f[pos]] /\ Holds(f, k)}
<1>1. Len(data) \in K
  <2>1. PICK f : f = [pos \in Nat |-> SniError]
    OBVIOUS
  <2>2. f = [pos \in Nat |-> f[pos]] /\ \A pos \in Nat : f[pos] = SniError
    BY <2>1
  <2>3. \A pos \in Nat : pos >= Len(data) => EntryStep(data, f, pos) = SniError
    <3>1. \A pos \in Nat : pos >= Len(data) => pos + 3 >= Len(data)
      OBVIOUS
    <3> QED BY <3>1, Zenon DEF EntryStep
  <2>4. Holds(f, Len(data))
    BY <2>2, <2>3, Zenon
  <2>5. Len(data) \in Nat
    OBVIOUS
  <2> QED BY <2>2, <2>4, <2>5, Zenon
<1>2. ASSUME NEW k \in K, k > 0 PROVE k - 1 \in K
  <2>1. k \in Nat /\ k - 1 \in Nat /\ k > k - 1
    BY <1>2
  <2>2. PICK f : f = [pos \in Nat |-> f[pos]] /\ Holds(f, k)
    BY Zenon
  <2>3. PICK step : step = EntryStep(data, f, k - 1)
    OBVIOUS
  <2>4. PICK g : g = [pos \in Nat |-> IF pos = k - 1 THEN step ELSE f[pos]]
    OBVIOUS
  <2>5. /\ g = [pos \in Nat |-> g[pos]]
        /\ g[k - 1] = step
        /\ \A pos \in Nat : pos > k - 1 => g[pos] = f[pos]
    BY <2>1, <2>4
  <2>6. EntryStep(data, g, k - 1) = step
    <3>1. \A later \in Nat : later > k - 1 => g[later] = f[later]
      BY <2>5
    <3> HIDE DEF K
    <3> QED BY <2>1, <2>3, <3>1, EntryLooksAhead, Zenon
  <2>7. \A pos \in Nat : pos >= k => g[pos] = EntryStep(data, g, pos)
    <3>1. SUFFICES ASSUME NEW pos \in Nat, pos >= k PROVE g[pos] = EntryStep(data, g, pos)
      OBVIOUS
    <3>2. \A later \in Nat : later > pos => g[later] = f[later]
      BY <2>1, <2>5, <3>1
    <3>3. EntryStep(data, g, pos) = EntryStep(data, f, pos)
      BY <3>2, EntryLooksAhead, Zenon
    <3>4. g[pos] = f[pos]
      BY <2>1, <2>5, <3>1
    <3> QED BY <2>2, <3>1, <3>3, <3>4, Zenon
  <2>8. Holds(g, k - 1)
    <3>1. \A pos \in Nat : pos >= k - 1 => pos = k - 1 \/ pos >= k
      BY <2>1
    <3> QED BY <2>5, <2>6, <2>7, <3>1, Zenon
  <2> QED BY <2>1, <2>5, <2>8, Zenon
<1>3. 0 \in K
  <2>1. K \subseteq Nat /\ K # {}
    BY <1>1
  <2> HIDE DEF K
  <2> QED BY <1>2, <2>1, DownToZero
<1>4. PICK f : f = [pos \in Nat |-> f[pos]] /\ Holds(f, 0)
  BY <1>3, Zenon
<1>5. \A pos \in Nat : f[pos] = EntryStep(data, f, pos)
  BY <1>4
<1>6. IsEntry(data, f)
  BY <1>4, <1>5, Zenon DEF IsEntry
<1> QED BY <1>6 DEF Entry

\* The same for the extensions.
LEMMA ExtensionExists ==
    ASSUME NEW data \in Seq(Nat) PROVE IsExtension(data, Extension(data))
<1> DEFINE Holds(f, k) == \A pos \in Nat : pos >= k => f[pos] = ExtensionStep(data, f, pos)
           K == {k \in Nat : \E f : f = [pos \in Nat |-> f[pos]] /\ Holds(f, k)}
<1>1. Len(data) \in K
  <2>1. PICK f : f = [pos \in Nat |-> SniError]
    OBVIOUS
  <2>2. f = [pos \in Nat |-> f[pos]] /\ \A pos \in Nat : f[pos] = SniError
    BY <2>1
  <2>3. \A pos \in Nat : pos >= Len(data) => ExtensionStep(data, f, pos) = SniError
    <3>1. \A pos \in Nat : pos >= Len(data) => pos + 4 > Len(data)
      OBVIOUS
    <3> QED BY <3>1, Zenon DEF ExtensionStep
  <2>4. Holds(f, Len(data))
    BY <2>2, <2>3, Zenon
  <2>5. Len(data) \in Nat
    OBVIOUS
  <2> QED BY <2>2, <2>4, <2>5, Zenon
<1>2. ASSUME NEW k \in K, k > 0 PROVE k - 1 \in K
  <2>1. k \in Nat /\ k - 1 \in Nat /\ k > k - 1
    BY <1>2
  <2>2. PICK f : f = [pos \in Nat |-> f[pos]] /\ Holds(f, k)
    BY Zenon
  <2>3. PICK step : step = ExtensionStep(data, f, k - 1)
    OBVIOUS
  <2>4. PICK g : g = [pos \in Nat |-> IF pos = k - 1 THEN step ELSE f[pos]]
    OBVIOUS
  <2>5. /\ g = [pos \in Nat |-> g[pos]]
        /\ g[k - 1] = step
        /\ \A pos \in Nat : pos > k - 1 => g[pos] = f[pos]
    BY <2>1, <2>4
  <2>6. ExtensionStep(data, g, k - 1) = step
    <3>1. \A later \in Nat : later > k - 1 => g[later] = f[later]
      BY <2>5
    <3> HIDE DEF K
    <3> QED BY <2>1, <2>3, <3>1, ExtensionLooksAhead, Zenon
  <2>7. \A pos \in Nat : pos >= k => g[pos] = ExtensionStep(data, g, pos)
    <3>1. SUFFICES ASSUME NEW pos \in Nat, pos >= k PROVE g[pos] = ExtensionStep(data, g, pos)
      OBVIOUS
    <3>2. \A later \in Nat : later > pos => g[later] = f[later]
      BY <2>1, <2>5, <3>1
    <3>3. ExtensionStep(data, g, pos) = ExtensionStep(data, f, pos)
      BY <3>2, ExtensionLooksAhead, Zenon
    <3>4. g[pos] = f[pos]
      BY <2>1, <2>5, <3>1
    <3> QED BY <2>2, <3>1, <3>3, <3>4, Zenon
  <2>8. Holds(g, k - 1)
    <3>1. \A pos \in Nat : pos >= k - 1 => pos = k - 1 \/ pos >= k
      BY <2>1
    <3> QED BY <2>5, <2>6, <2>7, <3>1, Zenon
  <2> QED BY <2>1, <2>5, <2>8, Zenon
<1>3. 0 \in K
  <2>1. K \subseteq Nat /\ K # {}
    BY <1>1
  <2> HIDE DEF K
  <2> QED BY <1>2, <2>1, DownToZero
<1>4. PICK f : f = [pos \in Nat |-> f[pos]] /\ Holds(f, 0)
  BY <1>3, Zenon
<1>5. \A pos \in Nat : f[pos] = ExtensionStep(data, f, pos)
  BY <1>4
<1>6. IsExtension(data, f)
  BY <1>4, <1>5, Zenon DEF IsExtension
<1> QED BY <1>6 DEF Extension

\* What the parsers do, in terms of these functions.
LEMMA ParsersRecur ==
    ASSUME NEW data \in Seq(Nat)
    PROVE  /\ \A from \in Nat : ParseHostName(data, from) = Entry(data)[from + 2]
           /\ \A pos \in Nat : Entry(data)[pos] = EntryStep(data, Entry(data), pos)
           /\ \A pos \in Nat : Extension(data)[pos] = ExtensionStep(data, Extension(data), pos)
           /\ \A from \in Nat :
                 ParseExtension(data, from) =
                    IF from + 2 + Size(data, from) > Len(data) THEN SniError
                    ELSE Extension(data)[from + 2]
<1>1. \A from \in Nat : ParseHostName(data, from) = Entry(data)[from + 2]
  BY DEF ParseHostName, Entry, IsEntry, EntryStep, Cut
<1>2. \A pos \in Nat : Entry(data)[pos] = EntryStep(data, Entry(data), pos)
  <2>1. PICK f : f = Entry(data)
    OBVIOUS
  <2>2. f = [pos \in Nat |-> EntryStep(data, f, pos)]
    BY <2>1, EntryExists, Zenon DEF IsEntry
  <2>3. \A pos \in Nat : f[pos] = EntryStep(data, f, pos)
    BY <2>2, Zenon
  <2> QED BY <2>1, <2>3, Zenon
<1>3. \A pos \in Nat : Extension(data)[pos] = ExtensionStep(data, Extension(data), pos)
  <2>1. PICK f : f = Extension(data)
    OBVIOUS
  <2>2. f = [pos \in Nat |-> ExtensionStep(data, f, pos)]
    BY <2>1, ExtensionExists, Zenon DEF IsExtension
  <2>3. \A pos \in Nat : f[pos] = ExtensionStep(data, f, pos)
    BY <2>2, Zenon
  <2> QED BY <2>1, <2>3, Zenon
<1>4. \A from \in Nat :
         ParseExtension(data, from) =
            IF from + 2 + Size(data, from) > Len(data) THEN SniError
            ELSE Extension(data)[from + 2]
  BY DEF ParseExtension, Extension, IsExtension, ExtensionStep
<1> QED BY <1>1, <1>2, <1>3, <1>4

-----------------------------------------------------------------------------
(***************************************************************************)
(* The name in a ClientHello does not depend on what was read after it.    *)
(***************************************************************************)

\* On data that begin alike, the search for a host name from a position ends
\* at the same entry, unless it leaves the common beginning.
EntriesAgree(r, X, pos) ==
    \/ Entry(r)[pos] = SniError
    \/ \E q \in Nat :
          /\ q + 3 < Len(r)
          /\ \A x \in X : Entry(x)[pos] = Decode(SubSeq(x, q + 4, Cut(x, q)))

\* The same of the search for the server_name extension.
ExtensionsAgree(r, X, pos) ==
    \/ Extension(r)[pos] = SniError
    \/ \E q \in Nat : \A x \in X : Extension(x)[pos] = ParseHostName(x, q)

\* Every position is decided by a later one, or by itself.
LEMMA EntriesAgreeEverywhere ==
    ASSUME NEW r \in Seq(Nat), NEW X, X \subseteq Seq(Nat), r \in X,
           \A x \in X : Begins(r, x)
    PROVE  \A pos \in Nat : EntriesAgree(r, X, pos)
<1> DEFINE K == {k \in Nat : \A pos \in Nat : pos >= k => EntriesAgree(r, X, pos)}
<1>1. \A x \in X, pos \in Nat : Entry(x)[pos] = EntryStep(x, Entry(x), pos)
  BY ParsersRecur, Zenon
<1>2. ASSUME NEW pos \in Nat, pos + 3 >= Len(r) PROVE EntriesAgree(r, X, pos)
  <2>1. Entry(r)[pos] = SniError
    BY <1>1, <1>2, Zenon DEF EntryStep
  <2> QED BY <2>1, Zenon DEF EntriesAgree
<1>3. Len(r) \in K
  <2>1. \A pos \in Nat : pos >= Len(r) => pos + 3 >= Len(r)
    OBVIOUS
  <2>2. Len(r) \in Nat
    OBVIOUS
  <2> QED BY <1>2, <2>1, <2>2, Zenon
<1>4. ASSUME NEW k \in K, k > 0 PROVE k - 1 \in K
  <2>1. k \in Nat /\ k - 1 \in Nat
    BY <1>4
  <2>2. PICK pos \in Nat : pos = k - 1
    BY <2>1, Zenon
  <2>3. EntriesAgree(r, X, pos)
    <3>1. CASE pos + 3 >= Len(r)
      BY <1>2, <3>1, Zenon
    <3>2. CASE ~(pos + 3 >= Len(r))
      <4>1. pos + 1 \in Nat /\ pos + 2 <= Len(r) /\ pos + 1 + 2 <= Len(r)
        BY <3>2
      <4>2. \A x \in X : At(x, pos) = At(r, pos) /\ Size(x, pos + 1) = Size(r, pos + 1)
        BY <4>1, SizeSame, Zenon
      <4>3. \A x \in X : ~(pos + 3 >= Len(x))
        BY <3>2 DEF Begins
      <4>4. PICK next : next = pos + 3 + Size(r, pos + 1)
        OBVIOUS
      <4>5. next \in Nat /\ next >= k
        <5>1. Size(r, pos + 1) \in Nat
          BY <4>1, SizeSame, Zenon
        <5> QED BY <2>1, <2>2, <4>4, <5>1
      <4>6. CASE At(r, pos) # 0
        <5>1. ASSUME NEW x \in X PROVE Entry(x)[pos] = Entry(x)[next]
          <6>1. At(x, pos) # 0 /\ ~(pos + 3 >= Len(x)) /\ next = pos + 3 + Size(x, pos + 1)
            BY <4>2, <4>3, <4>4, <4>6, Zenon
          <6>2. EntryStep(x, Entry(x), pos) = Entry(x)[next]
            BY <6>1, Zenon DEF EntryStep
          <6> QED BY <1>1, <6>2, Zenon
        <5>2. EntriesAgree(r, X, next)
          BY <4>5, Zenon
        <5> QED BY <5>1, <5>2, Zenon DEF EntriesAgree
      <4>7. CASE At(r, pos) = 0
        <5>1. \A x \in X : Entry(x)[pos] = Decode(SubSeq(x, pos + 4, Cut(x, pos)))
          BY <1>1, <4>2, <4>3, <4>7, Zenon DEF EntryStep
        <5>2. pos + 3 < Len(r)
          BY <3>2
        <5> QED BY <5>1, <5>2, Zenon DEF EntriesAgree
      <4> QED BY <4>6, <4>7, Zenon
    <3> QED BY <3>1, <3>2, Zenon
  <2>4. \A later \in Nat : later >= k - 1 => later = pos \/ later >= k
    BY <2>1, <2>2
  <2>5. \A later \in Nat : later >= k => EntriesAgree(r, X, later)
    BY Zenon
  <2> QED BY <2>1, <2>3, <2>4, <2>5, Zenon
<1>5. 0 \in K
  <2>1. K \subseteq Nat /\ K # {}
    BY <1>3
  <2> HIDE DEF K
  <2> QED BY <1>4, <2>1, DownToZero
<1>6. \A pos \in Nat : pos >= 0
  OBVIOUS
<1> QED BY <1>5, <1>6, Zenon

\* The same of the extensions.
LEMMA ExtensionsAgreeEverywhere ==
    ASSUME NEW r \in Seq(Nat), NEW X, X \subseteq Seq(Nat), r \in X,
           \A x \in X : Begins(r, x)
    PROVE  \A pos \in Nat : ExtensionsAgree(r, X, pos)
<1> DEFINE K == {k \in Nat : \A pos \in Nat : pos >= k => ExtensionsAgree(r, X, pos)}
<1>1. \A x \in X, pos \in Nat : Extension(x)[pos] = ExtensionStep(x, Extension(x), pos)
  BY ParsersRecur, Zenon
<1>2. ASSUME NEW pos \in Nat, pos + 4 > Len(r) PROVE ExtensionsAgree(r, X, pos)
  <2>1. Extension(r)[pos] = SniError
    BY <1>1, <1>2, Zenon DEF ExtensionStep
  <2> QED BY <2>1, Zenon DEF ExtensionsAgree
<1>3. Len(r) \in K
  <2>1. \A pos \in Nat : pos >= Len(r) => pos + 4 > Len(r)
    OBVIOUS
  <2>2. Len(r) \in Nat
    OBVIOUS
  <2> QED BY <1>2, <2>1, <2>2, Zenon
<1>4. ASSUME NEW k \in K, k > 0 PROVE k - 1 \in K
  <2>1. k \in Nat /\ k - 1 \in Nat
    BY <1>4
  <2>2. PICK pos \in Nat : pos = k - 1
    BY <2>1, Zenon
  <2>3. ExtensionsAgree(r, X, pos)
    <3>1. CASE pos + 4 > Len(r)
      BY <1>2, <3>1, Zenon
    <3>2. CASE ~(pos + 4 > Len(r))
      <4>1. pos + 2 \in Nat /\ pos + 4 \in Nat /\ pos + 2 <= Len(r) /\ pos + 2 + 2 <= Len(r)
        BY <3>2
      <4>2. \A x \in X : Size(x, pos) = Size(r, pos) /\ Size(x, pos + 2) = Size(r, pos + 2)
        BY <4>1, SizeSame, Zenon
      <4>3. \A x \in X : ~(pos + 4 > Len(x))
        BY <3>2 DEF Begins
      <4>4. PICK next : next = pos + 4 + Size(r, pos + 2)
        OBVIOUS
      <4>5. next \in Nat /\ next >= k
        <5>1. Size(r, pos + 2) \in Nat
          BY <4>1, SizeSame, Zenon
        <5> QED BY <2>1, <2>2, <4>4, <5>1
      <4>6. CASE Size(r, pos) # 0
        <5>1. \A x \in X : Extension(x)[pos] = Extension(x)[next]
          BY <1>1, <4>2, <4>3, <4>4, <4>6, Zenon DEF ExtensionStep
        <5>2. ExtensionsAgree(r, X, next)
          BY <4>5, Zenon
        <5> QED BY <5>1, <5>2, Zenon DEF ExtensionsAgree
      <4>7. CASE Size(r, pos) = 0
        <5>1. \A x \in X : Extension(x)[pos] = ParseHostName(x, pos + 4)
          BY <1>1, <4>2, <4>3, <4>7, Zenon DEF ExtensionStep
        <5> QED BY <4>1, <5>1, Zenon DEF ExtensionsAgree
      <4> QED BY <4>6, <4>7, Zenon
    <3> QED BY <3>1, <3>2, Zenon
  <2>4. \A later \in Nat : later >= k - 1 => later = pos \/ later >= k
    BY <2>1, <2>2
  <2>5. \A later \in Nat : later >= k => ExtensionsAgree(r, X, later)
    BY Zenon
  <2> QED BY <2>1, <2>3, <2>4, <2>5, Zenon
<1>5. 0 \in K
  <2>1. K \subseteq Nat /\ K # {}
    BY <1>3
  <2> HIDE DEF K
  <2> QED BY <1>4, <2>1, DownToZero
<1>6. \A pos \in Nat : pos >= 0
  OBVIOUS
<1> QED BY <1>5, <1>6, Zenon

\* d has the record r, and w is all that there is.
Between(r, d, w) ==
    /\ r \in Seq(Nat) /\ d \in Seq(Nat) /\ w \in Seq(Nat)
    /\ Begins(r, d) /\ Begins(d, w) /\ Begins(r, w)

\* The entry at a position has the name.
Named(data, pos, name) == Decode(SubSeq(data, pos + 4, Cut(data, pos))) = Host(name)

\* A name that is the same in the record and in all of the data is the same
\* in any part that has the record: its end is in the record.
LEMMA DecodeSame ==
    ASSUME NEW r, NEW d, NEW w, Between(r, d, w),
           NEW q \in Nat, q + 3 < Len(r), NEW name
    PROVE  /\ Named(r, q, name)
           /\ Named(w, q, name)
           => Named(d, q, name)
<1>f. /\ r \in Seq(Nat) /\ d \in Seq(Nat) /\ w \in Seq(Nat)
      /\ Begins(r, d) /\ Begins(d, w) /\ Begins(r, w)
  BY DEF Between
<1>h. HAVE /\ Named(r, q, name)
           /\ Named(w, q, name)
<1>g. \A m \in Nat, n \in Nat : 1 <= m /\ n <= Len(r) => SubSeq(r, m, n) = SubSeq(d, m, n)
  BY <1>f, SamePart, Zenon
<1>1. PICK size \in Nat : size = Size(r, q + 1)
  <2>1. q + 1 \in Nat /\ q + 1 + 2 <= Len(r) /\ Begins(r, r)
    BY <1>f DEF Begins
  <2> QED BY <1>f, <2>1, SizeSame, Zenon
<1>2. Size(d, q + 1) = size /\ Size(w, q + 1) = size
  <2>1. q + 1 \in Nat /\ q + 1 + 2 <= Len(r)
    OBVIOUS
  <2>2. ASSUME NEW x \in Seq(Nat), Begins(r, x) PROVE Size(r, q + 1) = Size(x, q + 1)
    BY <1>f, <2>1, <2>2, SizeSame, SMT
  <2> QED BY <1>f, <1>1, <2>2, Zenon
<1>0. PICK i \in Nat, j \in Nat, k \in Nat :
         i = Len(r) /\ j = Len(d) /\ k = Len(w) /\ i <= j /\ j <= k /\ q + 3 < i
  BY <1>f DEF Begins
<1>3. /\ Cut(r, q) = IF q + 3 + size > i THEN i ELSE q + 3 + size
      /\ Cut(d, q) = IF q + 3 + size > j THEN j ELSE q + 3 + size
      /\ Cut(w, q) = IF q + 3 + size > k THEN k ELSE q + 3 + size
  BY <1>0, <1>1, <1>2, Zenon DEF Cut
<1>4. PICK a \in Nat, b \in Nat, c \in Nat : a = Cut(r, q) /\ b = Cut(d, q) /\ c = Cut(w, q)
  <2>1. PICK c0 : c0 = q + 3 + size
    OBVIOUS
  <2>2. c0 \in Nat
    BY <2>1
  <2> QED BY <1>0, <1>3, <2>1, <2>2, Zenon
<1>5. /\ a <= b /\ b <= c
      /\ q + 3 <= a /\ a <= i /\ b <= j /\ c <= k
  <2>1. /\ a = IF q + 3 + size > i THEN i ELSE q + 3 + size
        /\ b = IF q + 3 + size > j THEN j ELSE q + 3 + size
        /\ c = IF q + 3 + size > k THEN k ELSE q + 3 + size
    BY <1>3, <1>4, Zenon
  <2>2. i <= j /\ j <= k /\ q + 3 < i
    BY <1>0, Zenon
  <2> QED BY <2>1, <2>2, SMT
<1>6. SubSeq(r, q + 4, a) = name /\ SubSeq(w, q + 4, c) = name
  <2>1. \A n : Decode(n) = Host(name) => n = name
    BY DEF Decode, Host, SniError
  <2> QED BY <1>h, <1>4, <2>1, Zenon DEF Named
<1>7. Len(SubSeq(r, q + 4, a)) = a - q - 3 /\ Len(SubSeq(w, q + 4, c)) = c - q - 3
  <2>1. q + 4 \in Nat /\ 1 <= q + 4 /\ q + 4 <= a + 1 /\ q + 4 <= c + 1 /\ a <= Len(r) /\ c <= Len(w)
    BY <1>0, <1>5
  <2>2. /\ a - (q + 4) + 1 = a - q - 3
        /\ c - (q + 4) + 1 = c - q - 3
    OBVIOUS
  <2>3. Len(SubSeq(r, q + 4, a)) = a - (q + 4) + 1
    BY <1>f, <2>1, PartLength, Zenon
  <2>4. Len(SubSeq(w, q + 4, c)) = c - (q + 4) + 1
    BY <1>f, <2>1, PartLength, Zenon
  <2> QED BY <2>2, <2>3, <2>4, Zenon
<1>8. a - q - 3 = c - q - 3
  BY <1>6, <1>7, Zenon
<1>9. a = b
  BY <1>5, <1>8
<1>10. SubSeq(r, q + 4, a) = SubSeq(d, q + 4, a)
  <2>1. q + 4 \in Nat /\ 1 <= q + 4 /\ a <= Len(r)
    BY <1>0, <1>5
  <2> QED BY <1>g, <2>1, Zenon
<1> QED BY <1>h, <1>4, <1>9, <1>10, Zenon DEF Named

ExtensionNames(data, pos, name) == ParseExtension(data, pos) = Host(name)
Finds(data, name) == ParseTlsSni(data) = Host(name)

\* The same of the host names of the server_name extension, and of the
\* extensions.
LEMMA ExtensionSame ==
    ASSUME NEW r, NEW d, NEW w, Between(r, d, w),
           NEW pos \in Nat, pos + 2 <= Len(r), NEW name
    PROVE  /\ ExtensionNames(r, pos, name)
           /\ ExtensionNames(w, pos, name)
           => ExtensionNames(d, pos, name)
<1>f. /\ r \in Seq(Nat) /\ d \in Seq(Nat) /\ w \in Seq(Nat)
      /\ Begins(r, d) /\ Begins(d, w) /\ Begins(r, w)
  BY DEF Between
<1>g. \A q \in Nat :
         /\ q + 3 < Len(r)
         /\ Named(r, q, name)
         /\ Named(w, q, name)
         => Named(d, q, name)
  BY DecodeSame, Zenon
<1>h. HAVE /\ ExtensionNames(r, pos, name)
           /\ ExtensionNames(w, pos, name)
<1> DEFINE X == {r, d, w}
<1>1. X \subseteq Seq(Nat) /\ r \in X /\ \A x \in X : Begins(r, x)
  BY <1>f DEF Begins
<1>2. Host(name) # SniError
  BY DEF Host, SniError
<1>3. pos + 2 \in Nat
  OBVIOUS
<1>4. Size(d, pos) = Size(r, pos) /\ Size(r, pos) \in Nat
  BY <1>f, SizeSame, Zenon
<1>5. /\ Extension(r)[pos + 2] = Host(name)
      /\ Extension(w)[pos + 2] = Host(name)
      /\ ~(pos + 2 + Size(r, pos) > Len(r))
  BY <1>f, <1>h, <1>2, ParsersRecur, Zenon DEF ExtensionNames
<1>6. ~(pos + 2 + Size(d, pos) > Len(d))
  <2>1. PICK i \in Nat, j \in Nat, size \in Nat :
           i = Len(r) /\ j = Len(d) /\ size = Size(r, pos) /\ i <= j
    BY <1>f, <1>4 DEF Begins
  <2>2. ~(pos + 2 + size > i) => ~(pos + 2 + size > j)
    BY <2>1
  <2> QED BY <1>4, <1>5, <2>1, <2>2, Zenon
<1>7. PICK q \in Nat : \A x \in X : Extension(x)[pos + 2] = ParseHostName(x, q)
  <2>1. ExtensionsAgree(r, X, pos + 2)
    BY <1>1, <1>3, ExtensionsAgreeEverywhere, Zenon
  <2> QED BY <1>2, <1>5, <2>1, Zenon DEF ExtensionsAgree
<1>8. q + 2 \in Nat
  OBVIOUS
<1>9. \A x \in X : Extension(x)[pos + 2] = Entry(x)[q + 2]
  <2>1. SUFFICES ASSUME NEW x \in X PROVE Extension(x)[pos + 2] = Entry(x)[q + 2]
    OBVIOUS
  <2>2. x \in Seq(Nat)
    BY <1>1, Zenon
  <2>3. ParseHostName(x, q) = Entry(x)[q + 2]
    BY <2>2, ParsersRecur, Zenon
  <2> QED BY <1>7, <2>3, Zenon
<1>10. PICK e \in Nat :
          /\ e + 3 < Len(r)
          /\ \A x \in X : Entry(x)[q + 2] = Decode(SubSeq(x, e + 4, Cut(x, e)))
  <2>1. EntriesAgree(r, X, q + 2)
    BY <1>1, <1>8, EntriesAgreeEverywhere, Zenon
  <2>2. Entry(r)[q + 2] # SniError
    BY <1>1, <1>2, <1>5, <1>9, Zenon
  <2> QED BY <2>1, <2>2, Zenon DEF EntriesAgree
<1>11. /\ Named(r, e, name)
       /\ Named(w, e, name)
  <2>1. r \in X /\ w \in X
    OBVIOUS
  <2> HIDE DEF X
  <2> QED BY <1>5, <1>9, <1>10, <2>1, Zenon DEF Named
<1>12. Named(d, e, name)
  BY <1>g, <1>10, <1>11, Zenon
<1>13. Extension(d)[pos + 2] = Host(name)
  <2>1. d \in X
    OBVIOUS
  <2> HIDE DEF X
  <2> QED BY <1>9, <1>10, <1>12, <2>1, Zenon DEF Named
<1> QED BY <1>f, <1>6, <1>13, ParsersRecur, Zenon DEF ExtensionNames

\* Where the extensions begin.
LEMMA ExtensionsSame ==
    ASSUME NEW r \in Seq(Nat), NEW d \in Seq(Nat), Begins(r, d), Extensions(r) \in Nat
    PROVE  Extensions(d) = Extensions(r) /\ Len(r) > 43
<1> DEFINE a == TLS_HEADER_LEN + 38
           b == AfterByte(r, a)
           c == AfterWord(r, b)
<1>1. a = 43
  BY DEF TLS_HEADER_LEN
<1>2. -1 \notin Nat
  OBVIOUS
<1>3. /\ \A pos : pos \notin 0 .. Len(r) - 1 => AfterByte(r, pos) = -1
      /\ \A pos : pos \notin 0 .. Len(r) - 2 => AfterWord(r, pos) = -1
  BY Zenon DEF AfterByte, AfterWord
<1>4. c \in 0 .. Len(r) - 1
  BY <1>2, <1>3, Zenon DEF Extensions
<1>5. b \in 0 .. Len(r) - 2
  <2>1. c # -1
    BY <1>4
  <2> QED BY <1>3, <2>1, Zenon
<1>6. a \in 0 .. Len(r) - 1
  <2>1. b # -1
    BY <1>5
  <2> QED BY <1>3, <2>1, Zenon
<1>7. \A pos \in 0 .. Len(r) - 1 : AfterByte(d, pos) = AfterByte(r, pos)
  <2>1. SUFFICES ASSUME NEW pos \in 0 .. Len(r) - 1 PROVE AfterByte(d, pos) = AfterByte(r, pos)
    OBVIOUS
  <2>2. pos \in 0 .. Len(d) - 1 /\ pos + 1 \in 1 .. Len(r)
    BY DEF Begins
  <2>3. d[pos + 1] = r[pos + 1]
    BY <2>2, Zenon DEF Begins
  <2> QED BY <2>2, <2>3, Zenon DEF AfterByte, At
<1>8. \A pos \in 0 .. Len(r) - 2 : AfterWord(d, pos) = AfterWord(r, pos)
  <2>1. SUFFICES ASSUME NEW pos \in 0 .. Len(r) - 2 PROVE AfterWord(d, pos) = AfterWord(r, pos)
    OBVIOUS
  <2>2. pos \in Nat /\ pos + 2 <= Len(r) /\ pos \in 0 .. Len(d) - 2
    BY DEF Begins
  <2>3. Size(r, pos) = Size(d, pos)
    BY <2>2, SizeSame, Zenon
  <2> QED BY <2>2, <2>3, Zenon DEF AfterWord
<1>9. AfterByte(d, a) = b /\ AfterWord(d, b) = c /\ AfterByte(d, c) = AfterByte(r, c)
  BY <1>4, <1>5, <1>6, <1>7, <1>8, Zenon
<1>10. Extensions(d) = Extensions(r)
  BY <1>9, Zenon DEF Extensions
<1> QED BY <1>1, <1>6, <1>10

\* What data must be for parse_tls_sni to find a name in it.
LEMMA HostFound ==
    ASSUME NEW data, NEW name, Finds(data, name)
    PROVE  /\ ~(Len(data) < TLS_HEADER_LEN) /\ At(data, 0) = HANDSHAKE /\ ~(At(data, 1) < 3)
           /\ ~(Len(data) < TlsSize(data))
           /\ At(data, TLS_HEADER_LEN) = CLIENT_HELLO
           /\ Extensions(data) \in 0 .. Len(data) - 2
           /\ ExtensionNames(data, Extensions(data), name)
<1>1. Host(name) # SniError /\ Host(name) # SniIncomplete /\ Host(name) # SniCrash
  BY DEF Host, SniError, SniIncomplete, SniCrash
<1> QED BY <1>1, Zenon DEF ParseTlsSni, Finds, ExtensionNames

\* A record with a name, and the bytes that were read of it and after it.
LEMMA SniSame ==
    ASSUME NEW r, NEW d, NEW w, Between(r, d, w), NEW name,
           Finds(r, name), Finds(w, name)
    PROVE  Finds(d, name)
<1>f. /\ r \in Seq(Nat) /\ d \in Seq(Nat) /\ w \in Seq(Nat)
      /\ Begins(r, d) /\ Begins(d, w) /\ Begins(r, w)
  BY DEF Between
<1>1. PICK pos : pos = Extensions(r)
  OBVIOUS
<1>2. /\ pos \in 0 .. Len(r) - 2
      /\ ExtensionNames(r, pos, name)
      /\ At(r, 0) = HANDSHAKE /\ ~(At(r, 1) < 3) /\ At(r, TLS_HEADER_LEN) = CLIENT_HELLO
      /\ ~(Len(r) < TlsSize(r))
  BY <1>1, HostFound, Zenon
<1>3. pos \in Nat /\ pos + 2 <= Len(r)
  BY <1>f, <1>2
<1>4. Extensions(d) = pos /\ Extensions(w) = pos /\ Len(r) > 43
  BY <1>f, <1>1, <1>3, ExtensionsSame, Zenon
<1>5. ExtensionNames(w, pos, name)
  BY <1>4, HostFound, Zenon
<1>6. ExtensionNames(d, pos, name)
  BY <1>2, <1>3, <1>5, ExtensionSame, Zenon
<1>7. /\ At(d, 0) = At(r, 0) /\ At(d, 1) = At(r, 1) /\ At(d, 5) = At(r, 5)
      /\ Size(d, 3) = Size(r, 3) /\ Size(r, 3) \in Nat
  <2>1. /\ 0 \in Nat /\ 1 \in Nat /\ 3 \in Nat /\ 5 \in Nat
        /\ 0 + 2 <= Len(r) /\ 1 + 2 <= Len(r) /\ 3 + 2 <= Len(r) /\ 5 + 2 <= Len(r)
    BY <1>f, <1>4
  <2>2. ASSUME NEW i \in Nat, i + 2 <= Len(r)
        PROVE  At(r, i) = At(d, i) /\ Size(r, i) = Size(d, i) /\ Size(r, i) \in Nat
    BY <1>f, <2>2, SizeSame, SMT
  <2> QED BY <2>1, <2>2
<1>8. TlsSize(d) = TlsSize(r)
  BY <1>7, Zenon DEF TlsSize
<1>9. PICK i \in Nat, j \in Nat : i = Len(r) /\ j = Len(d) /\ i <= j /\ i > 43
  BY <1>f, <1>4 DEF Begins
<1>10. PICK k \in Nat : k = TlsSize(r)
  BY <1>7 DEF TlsSize, TLS_HEADER_LEN
<1>11. ~(j < k) /\ ~(j < TLS_HEADER_LEN) /\ j # TLS_HEADER_LEN /\ pos \in 0 .. j - 2
  <2>1. ~(i < k) /\ pos \in 0 .. i - 2
    BY <1>2, <1>9, <1>10, Zenon
  <2>2. i <= j /\ i > 43
    BY <1>9, Zenon
  <2> QED BY <2>1, <2>2 DEF TLS_HEADER_LEN
<1>12. At(d, TLS_HEADER_LEN) = CLIENT_HELLO /\ At(d, 0) = HANDSHAKE /\ ~(At(d, 1) < 3)
  BY <1>2, <1>7, Zenon DEF TLS_HEADER_LEN
<1> QED BY <1>4, <1>6, <1>8, <1>9, <1>10, <1>11, <1>12, Zenon
        DEF ParseTlsSni, Finds, ExtensionNames

\* A payload with a name, as HasName says.
Greets(p, name) ==
    /\ p \in Seq(Nat)
    /\ Finds(p, name)
    /\ Finds(SubSeq(p, 1, TlsSize(p)), name)
    /\ TlsSize(p) <= MAX_BUFFER_SIZE

\* What is read of such a payload is told apart by its length alone: it is too
\* short for the header of a record, for the record, or enough (sni.py:18-115).
THEOREM HelloIsFinal ==
    ASSUME NEW p, NEW name, Greets(p, name), NEW d \in Seq(Nat), Begins(d, p)
    PROVE  /\ TlsSize(p) \in 44 .. Len(p)
           /\ Len(d) > 0 => d[1] = HANDSHAKE
           /\ Len(d) < TlsSize(p) => /\ PayloadReader(d) = "more"
                                     /\ Len(d) < 5 => ParseTlsSni(d) = SniError
                                     /\ ~(Len(d) < 5) => ParseTlsSni(d) = SniIncomplete
           /\ ~(Len(d) < TlsSize(p)) => /\ PayloadReader(d) = "complete"
                                        /\ Finds(d, name)
<1>f. /\ p \in Seq(Nat) /\ Finds(p, name)
      /\ Finds(SubSeq(p, 1, TlsSize(p)), name) /\ TlsSize(p) <= MAX_BUFFER_SIZE
  BY DEF Greets
<1>1. /\ At(p, 0) = HANDSHAKE /\ ~(At(p, 1) < 3) /\ At(p, TLS_HEADER_LEN) = CLIENT_HELLO
      /\ ~(Len(p) < TlsSize(p)) /\ Extensions(p) \in 0 .. Len(p) - 2
  BY <1>f, HostFound, Zenon
<1>2. Begins(p, p) /\ Extensions(p) \in Nat /\ Len(p) \in Nat /\ Len(d) \in Nat
  BY <1>f, <1>1 DEF Begins
<1>3. Len(p) > 43
  BY <1>f, <1>2, ExtensionsSame, Zenon
<1>4. PICK k \in Nat : k = TlsSize(p) /\ 5 <= k /\ k <= Len(p)
  <2>1. 3 \in Nat /\ 3 + 2 <= Len(p)
    BY <1>2, <1>3
  <2>2. Size(p, 3) \in Nat
    BY <1>f, <1>2, <2>1, SizeSame, Zenon
  <2> QED BY <1>1, <1>2, <2>2 DEF TlsSize, TLS_HEADER_LEN
<1>5. PICK r \in Seq(Nat) : r = SubSeq(p, 1, k) /\ Len(r) = k /\ Begins(r, p)
  BY <1>f, <1>4, FrontBegins, Zenon
<1>6. k > 43
  <2>1. Finds(r, name)
    BY <1>f, <1>4, <1>5, Zenon
  <2>2. Extensions(r) \in 0 .. Len(r) - 2
    BY <2>1, HostFound, Zenon
  <2>3. Extensions(r) \in Nat
    BY <1>4, <1>5, <2>2
  <2>4. Len(r) > 43
    BY <1>f, <1>5, <2>3, ExtensionsSame, Zenon
  <2> QED BY <1>5, <2>4, Zenon
<1>7. \A i \in Nat : i < Len(d) => At(d, i) = At(p, i)
  BY <1>f DEF Begins, At
<1>8. \A i \in Nat : i + 2 <= Len(d) => Size(d, i) = Size(p, i)
  BY <1>f, SizeSame, Zenon
<1>9. ~(Len(d) < 5) => TlsSize(d) = k
  <2>1. 3 \in Nat /\ (~(Len(d) < 5) => 3 + 2 <= Len(d))
    BY <1>2
  <2> QED BY <1>4, <1>8, <2>1, Zenon DEF TlsSize
<1>10. Len(d) > 0 => d[1] = HANDSHAKE
  <2>1. Len(d) > 0 => At(d, 0) = At(p, 0)
    BY <1>2, <1>7
  <2>2. At(d, 0) = d[1]
    BY DEF At
  <2> QED BY <1>1, <2>1, <2>2, Zenon
<1>11. ASSUME Len(d) < k PROVE PayloadReader(d) = "more"
  <2>1. CASE Len(d) < 6
    BY <2>1 DEF PayloadReader
  <2>2. CASE ~(Len(d) < 6)
    <3>1. /\ At(d, 0) = At(p, 0) /\ At(d, 5) = At(p, 5)
          /\ ~(Len(d) < 5) /\ Len(d) <= MAX_BUFFER_SIZE
      BY <1>f, <1>2, <1>4, <1>7, <1>11, <2>2, HelloAssumption
    <3> QED BY <1>1, <1>9, <1>11, <2>2, <3>1, Zenon DEF PayloadReader, TLS_HEADER_LEN
  <2> QED BY <2>1, <2>2
<1>12. Len(d) < 5 => ParseTlsSni(d) = SniError
  BY Zenon DEF ParseTlsSni, TLS_HEADER_LEN
<1>13. ASSUME ~(Len(d) < 5) PROVE At(d, 0) = HANDSHAKE /\ ~(At(d, 1) < 3)
  <2>1. At(d, 0) = At(p, 0) /\ At(d, 1) = At(p, 1)
    BY <1>2, <1>7, <1>13
  <2> QED BY <1>1, <2>1, Zenon
<1>14. ASSUME ~(Len(d) < 5), Len(d) < k PROVE ParseTlsSni(d) = SniIncomplete
  BY <1>9, <1>13, <1>14, Zenon DEF ParseTlsSni, TLS_HEADER_LEN
<1>15. ASSUME ~(Len(d) < k) PROVE PayloadReader(d) = "complete" /\ Finds(d, name)
  <2>1. /\ At(d, 0) = At(p, 0) /\ At(d, 5) = At(p, 5)
        /\ ~(Len(d) < 5) /\ ~(Len(d) < 6)
    BY <1>2, <1>6, <1>7, <1>15
  <2>2. PayloadReader(d) = "complete"
    BY <1>1, <1>9, <1>15, <2>1, Zenon DEF PayloadReader, TLS_HEADER_LEN
  <2>3. Begins(r, d)
    <3>1. Len(r) <= Len(d)
      BY <1>2, <1>5, <1>15
    <3> QED BY <1>f, <1>5, <3>1, TwoBeginnings, Zenon
  <2>4. Between(r, d, p)
    BY <1>f, <1>5, <2>3, Zenon DEF Between
  <2>5. Finds(r, name)
    BY <1>f, <1>4, <1>5, Zenon
  <2> QED BY <1>f, <2>2, <2>4, <2>5, SniSame, Zenon
<1>16. TlsSize(p) \in 44 .. Len(p)
  BY <1>2, <1>4, <1>6
<1> QED BY <1>4, <1>10, <1>11, <1>12, <1>14, <1>15, <1>16, Zenon

-----------------------------------------------------------------------------
(***************************************************************************)
(* What the parser says of a PROXY header is final, unless it says         *)
(* incomplete; and it says so only of less than the header.                *)
(***************************************************************************)

\* IsPrefix compares parts; here bytes are compared.
LEMMA PrefixBegins ==
    ASSUME NEW a \in Seq(Nat), NEW d \in Seq(Nat)
    PROVE  IsPrefix(a, d) <=> Begins(a, d)
<1>1. SubSeq(a, 1, Len(a)) = a
  OBVIOUS
<1>2. CASE ~(Len(a) <= Len(d))
  BY <1>2, Zenon DEF IsPrefix, Begins
<1>3. CASE Len(a) <= Len(d)
  <2>1. PICK f \in Seq(Nat) : f = SubSeq(d, 1, Len(a)) /\ Len(f) = Len(a) /\ Begins(f, d)
    <3>1. Len(a) \in Nat
      OBVIOUS
    <3> QED BY <1>3, <3>1, FrontBegins, Zenon
  <2>2. IsPrefix(a, d) <=> a = f
    BY <1>1, <1>3, <2>1, Zenon DEF IsPrefix
  <2>3. \A i \in 1 .. Len(a) : f[i] = d[i]
    BY <2>1, Zenon DEF Begins
  <2>4. Begins(a, d) <=> \A i \in 1 .. Len(a) : a[i] = f[i]
    BY <1>3, <2>3, Zenon DEF Begins
  <2>5. (\A i \in 1 .. Len(a) : a[i] = f[i]) => a = f
    BY <2>1
  <2> QED BY <2>2, <2>4, <2>5, Zenon
<1> QED BY <1>2, <1>3

\* A beginning of a beginning.
LEMMA BeginsTransitive ==
    ASSUME NEW a \in Seq(Nat), NEW b \in Seq(Nat), NEW c \in Seq(Nat), Begins(a, b), Begins(b, c)
    PROVE  Begins(a, c)
  BY DEF Begins

\* The signatures.
LEMMA Signatures ==
    /\ V1_PREFIX \in Seq(Nat) /\ Len(V1_PREFIX) = 6 /\ V1_PREFIX[1] = 80
    /\ \A i \in 1 .. 6 : V1_PREFIX[i] # CR
    /\ V2_SIGNATURE \in Seq(Nat) /\ Len(V2_SIGNATURE) = 12 /\ V2_SIGNATURE[1] = 13
<1>1. /\ V1_PREFIX \in Seq(Nat) /\ Len(V1_PREFIX) = 6 /\ V1_PREFIX[1] = 80
      /\ \A i \in 1 .. 6 : V1_PREFIX[i] # CR
  BY DEF V1_PREFIX, SPACE, CR
<1>2. V2_SIGNATURE \in Seq(Nat) /\ Len(V2_SIGNATURE) = 12 /\ V2_SIGNATURE[1] = 13
  BY DEF V2_SIGNATURE, CR, LF
<1> QED BY <1>1, <1>2

\* A header, as a result of the parsers.
IsHeader(found, n) == found.is = "header" /\ found.size \in 1 .. n

\* Results that are not a header.
LEMMA Outcomes ==
    /\ Incomplete.is = "incomplete" /\ Malformed.is = "malformed" /\ NotProxy.is = "none"
    /\ Incomplete.size = 0 /\ Malformed.size = 0 /\ NotProxy.size = 0
    /\ \A s, n : Header(s, n).is = "header" /\ Header(s, n).size = n
  BY DEF Incomplete, Malformed, NotProxy, Raised, Header

\* The line ends in data.
Ends(data) == {i \in 1 .. Len(data) - 1 : data[i] = CR /\ data[i + 1] = LF}

\* The first one.
LEMMA FirstEnd ==
    ASSUME NEW data \in Seq(Nat), Ends(data) # {}
    PROVE  /\ Min(Ends(data)) \in Ends(data)
           /\ \A i \in Ends(data) : Min(Ends(data)) <= i
<1>1. Ends(data) \subseteq Nat
  BY DEF Ends
<1>2. \E i \in Ends(data) : \A j \in Ends(data) : i <= j
  BY <1>1, LeastExists, Zenon
<1> HIDE DEF Ends
<1> QED BY <1>2 DEF Min

\* The line ends in what was read are those of all that come before its end.
LEMMA EndsSame ==
    ASSUME NEW d \in Seq(Nat), NEW w \in Seq(Nat), Begins(d, w)
    PROVE  \A i : i \in Ends(d) <=> i \in Ends(w) /\ i \in 1 .. Len(d) - 1
<1>1. \A i \in 1 .. Len(d) - 1 : /\ i \in 1 .. Len(w) - 1
                                 /\ i \in 1 .. Len(d) /\ i + 1 \in 1 .. Len(d)
  BY DEF Begins
<1>2. \A i \in 1 .. Len(d) - 1 : d[i] = w[i] /\ d[i + 1] = w[i + 1]
  BY <1>1, Zenon DEF Begins
<1> QED BY <1>1, <1>2, Zenon DEF Ends

\* The parser of a v1 header, by where the first line ends.
LEMMA V1Cases ==
    ASSUME NEW data \in Seq(Nat)
    PROVE  /\ Ends(data) = {} => ParseV1(data) = IF Len(data) >= V1_MAX_LEN THEN Malformed
                                                 ELSE Incomplete
           /\ Ends(data) # {} =>
                 ParseV1(data) =
                    IF Min(Ends(data)) - 1 + 2 > V1_MAX_LEN THEN Malformed
                    ELSE ParseV1Line(Fields(SubSeq(data, 1, Min(Ends(data)) - 1)),
                                     Min(Ends(data)) - 1 + 2)
  BY Zenon DEF ParseV1, Ends

\* A header of the size, or none at all.
Judges(found, size) ==
    /\ found.is = "header" \/ found.is = "malformed"
    /\ found.is = "header" => found.size = size

\* The other results.
LEMMA MalformedJudges ==
    \A n : Judges(Malformed, n) /\ \A s : Judges(Header(s, n), n)
  BY Outcomes DEF Judges

\* What a v1 line may be.
LEMMA LineCases ==
    ASSUME NEW fields, NEW size
    PROVE  Judges(ParseV1Line(fields, size), size)
<1>1. \/ ParseV1Line(fields, size) = Malformed
      \/ \E s : ParseV1Line(fields, size) = Header(s, size)
  BY Zenon DEF ParseV1Line
<1> QED BY <1>1, MalformedJudges, Zenon

\* A v1 header.
LEMMA V1Stable ==
    ASSUME NEW d \in Seq(Nat), NEW w \in Seq(Nat), Begins(d, w)
    PROVE  ParseV1(d) # Incomplete => ParseV1(w) = ParseV1(d)
<1>h. HAVE ParseV1(d) # Incomplete
<1>1. Len(d) \in Nat /\ Len(w) \in Nat /\ Len(d) <= Len(w) /\ V1_MAX_LEN \in Nat
  BY ProxyAssumption DEF Begins
<1>2. CASE Ends(d) = {}
  <2>1. Len(d) >= V1_MAX_LEN /\ ParseV1(d) = Malformed
    BY <1>h, <1>2, V1Cases, Zenon
  <2>2. CASE Ends(w) = {}
    <3>1. Len(w) >= V1_MAX_LEN
      BY <1>1, <2>1
    <3> QED BY <2>1, <2>2, <3>1, V1Cases, Zenon
  <2>3. CASE Ends(w) # {}
    <3>1. PICK e : e = Min(Ends(w)) /\ e \in Ends(w)
      BY <2>3, FirstEnd, Zenon
    <3>2. e \in 1 .. Len(w) - 1 /\ e \notin 1 .. Len(d) - 1
      BY <1>2, <3>1, EndsSame, Zenon DEF Ends
    <3>3. e - 1 + 2 > V1_MAX_LEN
      BY <1>1, <2>1, <3>2
    <3> QED BY <2>1, <2>3, <3>1, <3>3, V1Cases, Zenon
  <2> QED BY <2>2, <2>3
<1>3. CASE Ends(d) # {}
  <2>1. PICK e : /\ e = Min(Ends(d)) /\ e \in Ends(d)
                 /\ \A i \in Ends(d) : e <= i
    BY <1>3, FirstEnd, Zenon
  <2>2. e \in Ends(w) /\ e \in 1 .. Len(d) - 1
    BY <2>1, EndsSame, Zenon
  <2>3. PICK f : /\ f = Min(Ends(w)) /\ f \in Ends(w)
                 /\ \A i \in Ends(w) : f <= i
    BY <2>2, FirstEnd, Zenon
  <2>4. e = f
    <3>1. f <= e /\ f \in 1 .. Len(w) - 1
      BY <2>2, <2>3, Zenon DEF Ends
    <3>2. f \in 1 .. Len(d) - 1
      BY <1>1, <2>2, <3>1
    <3>3. e <= f
      BY <2>1, <2>3, <3>2, EndsSame, Zenon
    <3> QED BY <1>1, <2>2, <3>1, <3>3
  <2>5. SubSeq(d, 1, e - 1) = SubSeq(w, 1, e - 1)
    <3>1. e - 1 \in Nat /\ 1 \in Nat /\ 1 <= 1 /\ e - 1 <= Len(d)
      BY <1>1, <2>2
    <3> QED BY <3>1, SamePart, Zenon
  <2>6. Ends(w) # {}
    BY <2>2, Zenon
  <2>7. PICK line : line = SubSeq(d, 1, e - 1)
    OBVIOUS
  <2>8. PICK result : result = IF e - 1 + 2 > V1_MAX_LEN THEN Malformed
                               ELSE ParseV1Line(Fields(line), e - 1 + 2)
    OBVIOUS
  <2>9. ParseV1(w) = result
    <3>1. line = SubSeq(w, 1, e - 1) /\ e = Min(Ends(w))
      BY <2>3, <2>4, <2>5, <2>7, Zenon
    <3> QED BY <2>6, <2>8, <3>1, V1Cases, Zenon
  <2>10. ParseV1(d) = result
    BY <1>3, <2>1, <2>7, <2>8, V1Cases, Zenon
  <2> QED BY <2>9, <2>10, Zenon
<1> QED BY <1>2, <1>3

\* Its size, and that nothing longer is incomplete.
LEMMA V1Size ==
    ASSUME NEW w \in Seq(Nat), Begins(V1_PREFIX, w), ParseV1(w).is = "header"
    PROVE  /\ ParseV1(w).size \in 8 .. Len(w)
           /\ \A d \in Seq(Nat) : Begins(d, w) /\ ParseV1(w).size <= Len(d)
                 => ParseV1(d) # Incomplete
<1>1. Len(w) \in Nat
  OBVIOUS
<1>2. Ends(w) # {}
  BY V1Cases, Outcomes, Zenon
<1>3. PICK e : e = Min(Ends(w)) /\ e \in Ends(w)
  BY <1>2, FirstEnd, Zenon
<1>4. e \in 1 .. Len(w) - 1 /\ w[e] = CR
  BY <1>3, Zenon DEF Ends
<1>5. e \notin 1 .. 6
  <2>1. \A i \in 1 .. 6 : w[i] = V1_PREFIX[i]
    BY Signatures, Zenon DEF Begins
  <2> QED BY <1>4, <2>1, Signatures, Zenon
<1>6. ParseV1(w).size = e - 1 + 2
  <2>1. ParseV1(w) = Malformed
          \/ \E fields : ParseV1(w) = ParseV1Line(fields, e - 1 + 2)
    BY <1>2, <1>3, V1Cases, Zenon
  <2>2. Judges(ParseV1(w), e - 1 + 2)
    BY <2>1, LineCases, MalformedJudges, Zenon
  <2> QED BY <2>2, Zenon DEF Judges
<1>7. e - 1 + 2 = e + 1 /\ e + 1 \in 8 .. Len(w)
  BY <1>1, <1>4, <1>5
<1>8. ASSUME NEW d \in Seq(Nat), Begins(d, w), e + 1 <= Len(d)
      PROVE  ParseV1(d) # Incomplete
  <2>1. e \in 1 .. Len(d) - 1
    BY <1>4, <1>8
  <2>2. e \in Ends(d)
    BY <1>3, <1>8, <2>1, EndsSame, Zenon
  <2>3. Ends(d) # {}
    BY <2>2, Zenon
  <2>4. ParseV1(d) = Malformed \/ \E fields, size : ParseV1(d) = ParseV1Line(fields, size)
    BY <2>3, V1Cases, Zenon
  <2>5. \E size : Judges(ParseV1(d), size)
    BY <2>4, LineCases, MalformedJudges, Zenon
  <2> QED BY <2>5, Outcomes DEF Judges
<1> QED BY <1>6, <1>7, <1>8, Zenon

\* A v2 header, by what is in its first 16 bytes.
LEMMA V2Fields ==
    ASSUME NEW d \in Seq(Nat), NEW w \in Seq(Nat), Begins(d, w), ~(Len(d) < 16)
    PROVE  /\ d[13] = w[13] /\ d[14] = w[14]
           /\ Word(d, 15) = Word(w, 15) /\ Word(d, 15) \in Nat
<1>0. 13 \in 1 .. Len(d) /\ 14 \in 1 .. Len(d) /\ 15 \in 1 .. Len(d) /\ 15 + 1 \in 1 .. Len(d)
  OBVIOUS
<1>1. /\ d[13] = w[13] /\ d[14] = w[14] /\ d[15] = w[15] /\ d[15 + 1] = w[15 + 1]
      /\ d[15] \in Nat /\ d[15 + 1] \in Nat
  <2>1. \A i \in 1 .. Len(d) : d[i] = w[i]
    BY Zenon DEF Begins
  <2>2. \A i \in 1 .. Len(d) : d[i] \in Nat
    OBVIOUS
  <2> QED BY <1>0, <2>1, <2>2, Zenon
<1>2. PICK x \in Nat, y \in Nat : x = d[15] /\ y = d[15 + 1]
  BY <1>1
<1>3. 256 * x + y \in Nat
  OBVIOUS
<1> QED BY <1>1, <1>2, <1>3, Zenon DEF Word

\* What a v2 block may be.
LEMMA BlockCases ==
    ASSUME NEW family, NEW block, NEW size
    PROVE  Judges(ParseV2Block(family, block, size), size)
<1>1. \/ ParseV2Block(family, block, size) = Malformed
      \/ \E s : ParseV2Block(family, block, size) = Header(s, size)
  BY DEF ParseV2Block
<1> QED BY <1>1, MalformedJudges, Zenon

\* A v2 header.
LEMMA V2Stable ==
    ASSUME NEW d \in Seq(Nat), NEW w \in Seq(Nat), Begins(d, w)
    PROVE  ParseV2(d) # Incomplete => ParseV2(w) = ParseV2(d)
<1>h. HAVE ParseV2(d) # Incomplete
<1>1. Len(d) \in Nat /\ Len(w) \in Nat /\ Len(d) <= Len(w)
  BY DEF Begins
<1>2. ~(Len(d) < 16)
  BY <1>h, Zenon DEF ParseV2, V2_HEADER_LEN
<1>3. ~(Len(w) < 16)
  BY <1>1, <1>2
<1>4. PICK k \in Nat : k = Word(d, 15) /\ k = Word(w, 15) /\ d[13] = w[13] /\ d[14] = w[14]
  BY <1>2, V2Fields, Zenon
<1>5. CASE Len(d) < 16 + k
  <2>1. d[13] \div 16 # 2 /\ ParseV2(d) = Malformed
    BY <1>h, <1>2, <1>4, <1>5, Zenon DEF ParseV2, V2_HEADER_LEN
  <2> QED BY <1>3, <1>4, <2>1, Zenon DEF ParseV2, V2_HEADER_LEN
<1>6. CASE ~(Len(d) < 16 + k)
  <2>1. ~(Len(w) < 16 + k)
    BY <1>1, <1>6
  <2>2. SubSeq(d, 16 + 1, 16 + k) = SubSeq(w, 16 + 1, 16 + k)
    <3>1. 16 + 1 \in Nat /\ 16 + k \in Nat /\ 1 <= 16 + 1 /\ 16 + k <= Len(d)
      BY <1>1, <1>6
    <3> QED BY <3>1, SamePart, Zenon
  <2> QED BY <1>2, <1>3, <1>4, <1>6, <2>1, <2>2, Zenon DEF ParseV2, V2_HEADER_LEN
<1> QED BY <1>5, <1>6

\* Its size, and that nothing longer is incomplete.
LEMMA V2Size ==
    ASSUME NEW w \in Seq(Nat), ParseV2(w).is = "header"
    PROVE  /\ ParseV2(w).size \in 16 .. Len(w)
           /\ \A d \in Seq(Nat) : Begins(d, w) /\ ParseV2(w).size <= Len(d)
                 => ParseV2(d) # Incomplete
<1>1. Len(w) \in Nat /\ Begins(w, w)
  BY DEF Begins
<1>2. ~(Len(w) < 16)
  BY Outcomes, Zenon DEF ParseV2, V2_HEADER_LEN
<1>3. PICK k \in Nat : k = Word(w, 15)
  BY <1>1, <1>2, V2Fields, Zenon
<1>4. ~(Len(w) < 16 + k)
  BY <1>2, <1>3, Outcomes, Zenon DEF ParseV2, V2_HEADER_LEN
<1>5. ParseV2(w).size = 16 + k
  <2>1. \/ ParseV2(w) = Malformed \/ ParseV2(w) = Header(NoAddress, 16 + k)
        \/ \E family, block : ParseV2(w) = ParseV2Block(family, block, 16 + k)
    BY <1>2, <1>3, <1>4, Zenon DEF ParseV2, V2_HEADER_LEN
  <2>2. Judges(ParseV2(w), 16 + k)
    BY <2>1, BlockCases, MalformedJudges, Zenon
  <2> QED BY <2>2, Zenon DEF Judges
<1>6. 16 + k \in 16 .. Len(w)
  BY <1>1, <1>4
<1>7. ASSUME NEW d \in Seq(Nat), Begins(d, w), 16 + k <= Len(d)
      PROVE  ParseV2(d) # Incomplete
  <2>1. ~(Len(d) < 16) /\ ~(Len(d) < 16 + k)
    BY <1>7
  <2>2. Word(d, 15) = k
    BY <1>3, <1>7, <2>1, V2Fields, Zenon
  <2>3. \/ ParseV2(d) = Malformed \/ ParseV2(d) = Header(NoAddress, 16 + k)
        \/ \E family, block : ParseV2(d) = ParseV2Block(family, block, 16 + k)
    BY <2>1, <2>2, Zenon DEF ParseV2, V2_HEADER_LEN
  <2>4. Judges(ParseV2(d), 16 + k)
    BY <2>3, BlockCases, MalformedJudges, Zenon
  <2> QED BY <2>4, Outcomes DEF Judges
<1> QED BY <1>5, <1>6, <1>7, Zenon

\* The cases of parse_proxy_protocol_header.
LEMMA HeaderCases ==
    ASSUME NEW data \in Seq(Nat)
    PROVE  /\ Begins(V2_SIGNATURE, data) => ParseHeader(data) = ParseV2(data)
           /\ ~Begins(V2_SIGNATURE, data) /\ Begins(V1_PREFIX, data)
                 => ParseHeader(data) = ParseV1(data)
           /\ ~Begins(V2_SIGNATURE, data) /\ ~Begins(V1_PREFIX, data)
                 => ParseHeader(data) = IF Begins(data, V2_SIGNATURE) \/ Begins(data, V1_PREFIX)
                                        THEN Incomplete ELSE NotProxy
<1>1. /\ IsPrefix(V2_SIGNATURE, data) <=> Begins(V2_SIGNATURE, data)
      /\ IsPrefix(V1_PREFIX, data) <=> Begins(V1_PREFIX, data)
      /\ IsPrefix(data, V2_SIGNATURE) <=> Begins(data, V2_SIGNATURE)
      /\ IsPrefix(data, V1_PREFIX) <=> Begins(data, V1_PREFIX)
  <2>1. V1_PREFIX \in Seq(Nat) /\ V2_SIGNATURE \in Seq(Nat)
    BY Signatures, Zenon
  <2> QED BY <2>1, PrefixBegins, Zenon
<1>2. IsPrefix(V2_SIGNATURE, data) => ParseHeader(data) = ParseV2(data)
  BY Zenon DEF ParseHeader
<1>3. ~IsPrefix(V2_SIGNATURE, data) /\ IsPrefix(V1_PREFIX, data)
         => ParseHeader(data) = ParseV1(data)
  BY Zenon DEF ParseHeader
<1>4. ~IsPrefix(V2_SIGNATURE, data) /\ ~IsPrefix(V1_PREFIX, data)
         => ParseHeader(data) = IF IsPrefix(data, V2_SIGNATURE) \/ IsPrefix(data, V1_PREFIX)
                                THEN Incomplete ELSE NotProxy
  BY Zenon DEF ParseHeader
<1> QED BY <1>1, <1>2, <1>3, <1>4

\* Beginnings have the same first byte.
LEMMA FirstByte ==
    ASSUME NEW a \in Seq(Nat), NEW b \in Seq(Nat), Begins(a, b), Len(a) > 0
    PROVE  a[1] = b[1] /\ Len(a) <= Len(b)
<1>1. 1 \in 1 .. Len(a)
  OBVIOUS
<1> QED BY <1>1, Zenon DEF Begins

\* The first byte tells the signatures apart.
LEMMA FirstBytes ==
    ASSUME NEW data \in Seq(Nat)
    PROVE  /\ Begins(V2_SIGNATURE, data) => Len(data) >= 12 /\ data[1] = 13
           /\ Begins(V1_PREFIX, data) => Len(data) >= 6 /\ data[1] = 80
           /\ Len(data) > 0 /\ Begins(data, V2_SIGNATURE) => data[1] = 13
           /\ Len(data) > 0 /\ Begins(data, V1_PREFIX) => data[1] = 80
<1>1. PICK a \in Seq(Nat) : a = V2_SIGNATURE /\ Len(a) = 12 /\ a[1] = 13
  BY Signatures, Zenon
<1>2. PICK b \in Seq(Nat) : b = V1_PREFIX /\ Len(b) = 6 /\ b[1] = 80
  BY Signatures, Zenon
<1>3. ASSUME Begins(a, data) PROVE Len(data) >= 12 /\ data[1] = 13
  <2>1. Len(a) > 0 /\ Len(a) = 12 /\ Len(data) \in Nat
    BY <1>1
  <2>2. a[1] = data[1] /\ Len(a) <= Len(data)
    BY <1>3, <2>1, FirstByte, Zenon
  <2> QED BY <1>1, <2>1, <2>2
<1>4. ASSUME Begins(b, data) PROVE Len(data) >= 6 /\ data[1] = 80
  <2>1. Len(b) > 0 /\ Len(b) = 6 /\ Len(data) \in Nat
    BY <1>2
  <2>2. b[1] = data[1] /\ Len(b) <= Len(data)
    BY <1>4, <2>1, FirstByte, Zenon
  <2> QED BY <1>2, <2>1, <2>2
<1>5. Len(data) > 0 /\ Begins(data, a) => data[1] = 13
  BY <1>1, FirstByte
<1>6. Len(data) > 0 /\ Begins(data, b) => data[1] = 80
  BY <1>2, FirstByte
<1> QED BY <1>1, <1>2, <1>3, <1>4, <1>5, <1>6, Zenon

\* A verdict on a part of a stream is the verdict on all of it
\* (proxy_protocol.py:72-163): a header is not taken for another one, nor
\* refused, when more of the stream has come.
THEOREM HeaderIsFinal ==
    ASSUME NEW d \in Seq(Nat), NEW w \in Seq(Nat), Begins(d, w), ParseHeader(d) # Incomplete
    PROVE  ParseHeader(w) = ParseHeader(d)
<1>s. V1_PREFIX \in Seq(Nat) /\ V2_SIGNATURE \in Seq(Nat)
  BY Signatures, Zenon
<1>1. CASE Begins(V2_SIGNATURE, d)
  <2>1. Begins(V2_SIGNATURE, w)
    BY <1>s, <1>1, BeginsTransitive, Zenon
  <2>2. ParseHeader(d) = ParseV2(d) /\ ParseHeader(w) = ParseV2(w)
    BY <1>1, <2>1, HeaderCases, Zenon
  <2> QED BY <2>2, V2Stable, Zenon
<1>2. CASE ~Begins(V2_SIGNATURE, d) /\ Begins(V1_PREFIX, d)
  <2>1. Begins(V1_PREFIX, w)
    BY <1>s, <1>2, BeginsTransitive, Zenon
  <2>2. ~Begins(V2_SIGNATURE, w)
    <3>1. w[1] = 80 /\ (Begins(V2_SIGNATURE, w) => w[1] = 13)
      BY <2>1, FirstBytes, Zenon
    <3> QED BY <3>1
  <2>3. ParseHeader(d) = ParseV1(d) /\ ParseHeader(w) = ParseV1(w)
    BY <1>2, <2>1, <2>2, HeaderCases, Zenon
  <2> QED BY <2>3, V1Stable, Zenon
<1>3. CASE ~Begins(V2_SIGNATURE, d) /\ ~Begins(V1_PREFIX, d)
  <2>1. ~Begins(d, V2_SIGNATURE) /\ ~Begins(d, V1_PREFIX)
    BY <1>3, HeaderCases, Zenon
  <2>2. ASSUME NEW a \in Seq(Nat), ~Begins(a, d), ~Begins(d, a)
        PROVE  ~Begins(a, w) /\ ~Begins(w, a)
    <3>1. ~Begins(w, a)
      BY <2>2, BeginsTransitive, Zenon
    <3>2. Len(a) <= Len(d) \/ Len(d) <= Len(a)
      OBVIOUS
    <3>3. ~Begins(a, w)
      BY <2>2, <3>2, TwoBeginnings, Zenon
    <3> QED BY <3>1, <3>3
  <2>3. ParseHeader(d) = NotProxy
    BY <1>3, <2>1, HeaderCases, Zenon
  <2>4. /\ ~Begins(V2_SIGNATURE, w) /\ ~Begins(V1_PREFIX, w)
        /\ ~Begins(w, V2_SIGNATURE) /\ ~Begins(w, V1_PREFIX)
    BY <1>s, <1>3, <2>1, <2>2, Zenon
  <2>5. ParseHeader(w) = NotProxy
    BY <2>4, HeaderCases, Zenon
  <2> QED BY <2>3, <2>5, Zenon
<1> QED BY <1>1, <1>2, <1>3, Zenon

\* A header begins with one of two bytes, and no part of the stream that has
\* all of it is called incomplete.
LEMMA HeaderSize ==
    ASSUME NEW w \in Seq(Nat), ParseHeader(w).is = "header"
    PROVE  /\ w[1] = 13 \/ w[1] = 80
           /\ ParseHeader(w).size \in 8 .. Len(w)
           /\ \A d \in Seq(Nat) : Begins(d, w) /\ ParseHeader(w).size <= Len(d)
                 => ParseHeader(d) # Incomplete
<1>s. /\ V1_PREFIX \in Seq(Nat) /\ V2_SIGNATURE \in Seq(Nat)
      /\ Len(V1_PREFIX) = 6 /\ Len(V2_SIGNATURE) = 12
  BY Signatures, Zenon
<1>1. CASE Begins(V2_SIGNATURE, w)
  <2>1. ParseHeader(w) = ParseV2(w)
    BY <1>1, HeaderCases, Zenon
  <2>2. PICK n : n = ParseV2(w).size
    OBVIOUS
  <2>3. /\ n \in 16 .. Len(w)
        /\ \A d \in Seq(Nat) : Begins(d, w) /\ n <= Len(d) => ParseV2(d) # Incomplete
    BY <2>1, <2>2, V2Size, Zenon
  <2>4. ASSUME NEW d \in Seq(Nat), Begins(d, w), n <= Len(d)
        PROVE  ParseHeader(d) # Incomplete
    <3>1. Len(V2_SIGNATURE) <= Len(d)
      <4>1. 12 <= Len(d)
        BY <2>3, <2>4
      <4> QED BY <1>s, <4>1, Zenon
    <3>2. Begins(V2_SIGNATURE, d)
      BY <1>s, <1>1, <2>4, <3>1, TwoBeginnings, Zenon
    <3>3. ParseHeader(d) = ParseV2(d)
      BY <3>2, HeaderCases, Zenon
    <3> QED BY <2>3, <2>4, <3>3, Zenon
  <2>5. n \in 8 .. Len(w)
    BY <2>3
  <2> QED BY <1>1, <2>1, <2>2, <2>4, <2>5, FirstBytes, Zenon
<1>2. CASE ~Begins(V2_SIGNATURE, w) /\ Begins(V1_PREFIX, w)
  <2>1. ParseHeader(w) = ParseV1(w)
    BY <1>2, HeaderCases, Zenon
  <2>2. PICK n : n = ParseV1(w).size
    OBVIOUS
  <2>3. /\ n \in 8 .. Len(w)
        /\ \A d \in Seq(Nat) : Begins(d, w) /\ n <= Len(d) => ParseV1(d) # Incomplete
    BY <1>2, <2>1, <2>2, V1Size, Zenon
  <2>4. ASSUME NEW d \in Seq(Nat), Begins(d, w), n <= Len(d)
        PROVE  ParseHeader(d) # Incomplete
    <3>1. Len(V1_PREFIX) <= Len(d)
      <4>1. 6 <= Len(d)
        BY <2>3, <2>4
      <4> QED BY <1>s, <4>1, Zenon
    <3>2. Begins(V1_PREFIX, d)
      BY <1>s, <1>2, <2>4, <3>1, TwoBeginnings, Zenon
    <3>3. ~Begins(V2_SIGNATURE, d)
      BY <1>s, <1>2, <2>4, BeginsTransitive, Zenon
    <3>4. ParseHeader(d) = ParseV1(d)
      BY <3>2, <3>3, HeaderCases, Zenon
    <3> QED BY <2>3, <2>4, <3>4, Zenon
  <2> QED BY <1>2, <2>1, <2>2, <2>3, <2>4, FirstBytes, Zenon
<1>3. CASE ~Begins(V2_SIGNATURE, w) /\ ~Begins(V1_PREFIX, w)
  <2>1. ParseHeader(w) = Incomplete \/ ParseHeader(w) = NotProxy
    BY <1>3, HeaderCases, Zenon
  <2>2. FALSE
    BY <2>1, Outcomes
  <2> QED BY <2>2
<1> QED BY <1>1, <1>2, <1>3, Zenon

\* What does not begin like a header is known for none from its first byte on.
LEMMA NoHeader ==
    ASSUME NEW d \in Seq(Nat), Len(d) > 0, d[1] # 13, d[1] # 80
    PROVE  ParseHeader(d) = NotProxy
  BY HeaderCases, FirstBytes, Zenon

\* Only what has no signature is said to have no header.
LEMMA NoneIsNotProxy ==
    ASSUME NEW w \in Seq(Nat), ParseHeader(w).is = "none"
    PROVE  ParseHeader(w) = NotProxy
<1>1. ParseV1(w).is # "none"
  <2>1. \/ ParseV1(w) = Malformed \/ ParseV1(w) = Incomplete
        \/ \E fields, size : ParseV1(w) = ParseV1Line(fields, size)
    BY V1Cases, Zenon
  <2>2. ParseV1(w) = Incomplete \/ \E size : Judges(ParseV1(w), size)
    BY <2>1, LineCases, MalformedJudges, Zenon
  <2> QED BY <2>2, Outcomes DEF Judges
<1>2. ParseV2(w).is # "none"
  <2>1. \/ ParseV2(w) = Malformed \/ ParseV2(w) = Incomplete
        \/ \E size : ParseV2(w) = Header(NoAddress, size)
        \/ \E family, block, size : ParseV2(w) = ParseV2Block(family, block, size)
    BY Zenon DEF ParseV2
  <2>2. ParseV2(w) = Incomplete \/ \E size : Judges(ParseV2(w), size)
    BY <2>1, BlockCases, MalformedJudges, Zenon
  <2> QED BY <2>2, Outcomes DEF Judges
<1>3. Incomplete.is # "none"
  BY Outcomes
<1>4. \/ ParseHeader(w) = ParseV2(w) \/ ParseHeader(w) = ParseV1(w)
      \/ ParseHeader(w) = Incomplete \/ ParseHeader(w) = NotProxy
  BY HeaderCases, Zenon
<1> QED BY <1>1, <1>2, <1>3, <1>4, Zenon

-----------------------------------------------------------------------------
(***************************************************************************)
(* What the servers do with the payload                                    *)
(***************************************************************************)

\* Results of parse_tls_sni that are not a name.
LEMMA SniOutcomes ==
    /\ SniError.is = "error" /\ SniIncomplete.is = "incomplete" /\ SniCrash.is = "crash"
    /\ \A name : Host(name).is = "host" /\ Host(name).name = name
  BY DEF SniError, SniIncomplete, SniCrash, Host

\* The ends of a connection, and what must have been read for them.
LEMMA HandleEffect ==
    ASSUME NEW data, server \in Servers, stage \in Waiting, Handle(data)
    PROVE  \/ /\ stage' = "payload" \/ stage' = "hello"
              /\ \/ data = <<>>
                 \/ PayloadReader(data) = "more" /\ server.kind # "worker"
                 \/ /\ ParseTlsSni(data).is = "incomplete" /\ server.kind = "worker"
                    /\ data[1] = HANDSHAKE
              /\ server.kind = "single" /\ stage' = "hello"
                    => stage = "hello" \/ (data # <<>> /\ data[1] = HANDSHAKE)
              /\ server.kind = "single" /\ stage' = "payload" => data = <<>>
           \/ stage' = "peer" /\ server.kind # "sni" /\ IsToken(data)
           \/ /\ stage' = "served"
              /\ ParseTlsSni(data).is = "host"
              /\ host' = ParseTlsSni(data).name /\ host' \in Available
           \/ /\ stage' = "closed"
              /\ \/ ParseTlsSni(data).is = "host" /\ ParseTlsSni(data).name \notin Available
                 \/ /\ server.kind # "worker"
                    /\ \/ PayloadReader(data) = "none"
                       \/ PayloadReader(data) = "complete" /\ ParseTlsSni(data).is # "host"
                 \/ /\ server.kind # "sni" /\ data # <<>> /\ data[1] # HANDSHAKE
                    /\ ~IsToken(data)
                 \/ /\ server.kind = "worker" /\ data # <<>> /\ data[1] = HANDSHAKE
                    /\ \/ ParseTlsSni(data).is = "error"
                       \/ /\ ParseTlsSni(data).is = "incomplete"
                          /\ Len(data) >= MAX_BUFFER_SIZE
           \/ /\ stage' = "crashed" /\ data # <<>> /\ data[1] = HANDSHAKE
              /\ ParseTlsSni(data).is = "crash"
<1>1. ASSUME ServeHello(data)
      PROVE  \/ /\ stage' = "served" /\ ParseTlsSni(data).is = "host"
                /\ host' = ParseTlsSni(data).name /\ host' \in Available
             \/ /\ stage' = "closed"
                /\ \/ ParseTlsSni(data).is = "host" /\ ParseTlsSni(data).name \notin Available
                   \/ ParseTlsSni(data).is # "host"
  BY <1>1, Zenon DEF ServeHello, ProxyTo, Becomes
<1>2. ASSUME HandleConnection(data)
      PROVE  \/ PayloadReader(data) = "more" /\ stage' = "hello"
             \/ PayloadReader(data) = "none" /\ stage' = "closed"
             \/ PayloadReader(data) = "complete" /\ ServeHello(data)
  BY <1>2, Zenon DEF HandleConnection, Becomes
<1>3. CASE server.kind = "sni"
  <2>1. HandleConnection(data) /\ server.kind # "worker"
    BY <1>3 DEF Handle
  <2>2. "payload" # "hello" /\ server.kind # "single"
    BY <1>3
  <2> QED BY <1>1, <1>2, <2>1, <2>2, Zenon
<1>4. CASE server.kind = "single"
  <2>1. SingleHandler(data) /\ server.kind # "worker" /\ server.kind # "sni"
    BY <1>4 DEF Handle
  <2>2. "payload" # "hello"
    OBVIOUS
  <2>3. CASE stage = "hello" /\ HandleConnection(data)
    BY <1>1, <1>2, <2>1, <2>2, <2>3, Zenon
  <2>4. CASE data = <<>> /\ Becomes("payload")
    BY <2>2, <2>4, Zenon DEF Becomes
  <2>5. CASE data # <<>> /\ data[1] = HANDSHAKE /\ HandleConnection(data)
    BY <1>1, <1>2, <2>1, <2>2, <2>5, Zenon
  <2>6. CASE IsToken(data) /\ Becomes("peer")
    BY <2>1, <2>6, Zenon DEF Becomes
  <2>7. CASE data # <<>> /\ data[1] # HANDSHAKE /\ ~IsToken(data) /\ Becomes("closed")
    BY <2>1, <2>7, Zenon DEF Becomes
  <2> QED BY <2>1, <2>3, <2>4, <2>5, <2>6, <2>7, Zenon DEF SingleHandler
<1>5. CASE server.kind = "worker"
  <2>1. Process(data) /\ server.kind # "single" /\ server.kind # "sni"
    BY <1>5 DEF Handle
  <2>2. CASE data = <<>> /\ Becomes("hello")
    BY <2>1, <2>2, Zenon DEF Becomes
  <2>3. CASE IsToken(data) /\ Becomes("peer")
    BY <2>1, <2>3, Zenon DEF Becomes
  <2>4. CASE data # <<>> /\ data[1] # HANDSHAKE /\ ~IsToken(data) /\ Becomes("closed")
    BY <2>1, <2>4, Zenon DEF Becomes
  <2>5. CASE /\ data # <<>> /\ data[1] = HANDSHAKE
             /\ ParseTlsSni(data).is = "incomplete"
             /\ Becomes(IF Len(data) >= MAX_BUFFER_SIZE THEN "closed" ELSE "hello")
    <3>1. stage' = IF Len(data) >= MAX_BUFFER_SIZE THEN "closed" ELSE "hello"
      BY <2>5, Zenon DEF Becomes
    <3> QED BY <1>5, <2>1, <2>5, <3>1, Zenon
  <2>6. CASE /\ data # <<>> /\ data[1] = HANDSHAKE
             /\ ParseTlsSni(data).is = "error" /\ Becomes("closed")
    BY <1>5, <2>6, Zenon DEF Becomes
  <2>7. CASE /\ data # <<>> /\ data[1] = HANDSHAKE
             /\ ParseTlsSni(data).is = "host" /\ ProxyTo(ParseTlsSni(data).name)
    BY <2>7, Zenon DEF ProxyTo
  <2>8. CASE /\ data # <<>> /\ data[1] = HANDSHAKE
             /\ ParseTlsSni(data).is = "crash" /\ Becomes("crashed")
    BY <2>8, Zenon DEF Becomes
  <2> QED BY <2>1, <2>2, <2>3, <2>4, <2>5, <2>6, <2>7, <2>8, Zenon DEF Process
<1> QED BY <1>3, <1>4, <1>5 DEF Servers

\* The bytes of a token.
LEMMA TokenBytes ==
    ASSUME NEW data \in Seq(Nat)
    PROVE  IsToken(data) <=> Len(data) > 1 /\ data[1] = 103 /\ data[2] = 65
<1>0. /\ <<103, 65>> \in Seq(Nat) /\ Len(<<103, 65>>) = 2
      /\ <<103, 65>>[1] = 103 /\ <<103, 65>>[2] = 65
  OBVIOUS
<1>1. PICK a \in Seq(Nat) : a = <<103, 65>> /\ Len(a) = 2 /\ a[1] = 103 /\ a[2] = 65
  BY <1>0, Zenon
<1>2. IsToken(data) <=> Begins(a, data)
  BY <1>1, PrefixBegins, Zenon DEF IsToken
<1>3. Begins(a, data) <=> Len(data) > 1 /\ data[1] = 103 /\ data[2] = 65
  <2>1. \A i \in 1 .. 2 : i = 1 \/ i = 2
    OBVIOUS
  <2> QED BY <1>1, <2>1 DEF Begins
<1> QED BY <1>2, <1>3, Zenon

\* The payload of a visit: it is served with its name once the record is
\* complete, and refused before only by a worker that got less than the header
\* of a record.
LEMMA VisitHandled ==
    ASSUME NEW p, NEW name, Greets(p, name), NEW data \in Seq(Nat), Begins(data, p),
           server \in Servers, stage \in Waiting, Handle(data)
    PROVE  /\ stage' = "served" => host' = name /\ name \in Available
           /\ stage' # "peer" /\ stage' # "crashed"
           /\ stage' = "closed" =>
                 \/ name \notin Available
                 \/ server.kind = "worker" /\ Len(data) < TLS_HEADER_LEN
           /\ stage' \in Waiting => Len(data) < Len(p)
<1>1. PICK k : k = TlsSize(p)
  OBVIOUS
<1>2. /\ k \in 44 .. Len(p)
      /\ Len(data) > 0 => data[1] = HANDSHAKE
      /\ Len(data) < k => /\ PayloadReader(data) = "more"
                          /\ Len(data) < 5 => ParseTlsSni(data) = SniError
                          /\ ~(Len(data) < 5) => ParseTlsSni(data) = SniIncomplete
      /\ ~(Len(data) < k) => PayloadReader(data) = "complete" /\ Finds(data, name)
  BY <1>1, HelloIsFinal, Zenon
<1>3. p \in Seq(Nat) /\ k <= MAX_BUFFER_SIZE
  BY <1>1, Zenon DEF Greets
<1>4. /\ Len(data) \in Nat /\ Len(p) \in Nat /\ k \in Nat /\ k <= Len(p) /\ 43 < k
      /\ data # <<>> => Len(data) > 0
      /\ MAX_BUFFER_SIZE \in Nat
  BY <1>2, <1>3, HelloAssumption
<1>5. ~IsToken(data)
  <2>1. IsToken(data) => data[1] = 103 /\ Len(data) > 1
    BY TokenBytes, Zenon
  <2> QED BY <1>2, <1>4, <2>1 DEF HANDSHAKE
<1>6. CASE Len(data) < k
  <2>1. ~(Len(data) >= MAX_BUFFER_SIZE)
    BY <1>3, <1>4, <1>6
  <2>2. ParseTlsSni(data).is # "host"
    BY <1>2, <1>6, SniOutcomes
  <2>3. ParseTlsSni(data).is = "error" => Len(data) < 5
    BY <1>2, <1>6, SniOutcomes
  <2>4. PayloadReader(data) # "none" /\ PayloadReader(data) # "complete"
    BY <1>2, <1>6
  <2>5. Len(data) < Len(p)
    BY <1>4, <1>6
  <2>6. stage' = "closed" => server.kind = "worker" /\ Len(data) < 5
    BY <1>2, <1>4, <2>1, <2>2, <2>3, <2>4, HandleEffect
  <2>7. stage' # "peer" /\ stage' # "served"
    BY <1>5, <2>2, HandleEffect
  <2>8. ParseTlsSni(data).is # "crash"
    BY <1>2, <1>6, SniOutcomes
  <2>9. stage' # "crashed"
    BY <2>8, HandleEffect
  <2> QED BY <2>5, <2>6, <2>7, <2>9 DEF TLS_HEADER_LEN
<1>7. CASE ~(Len(data) < k)
  <2>1. /\ PayloadReader(data) = "complete"
        /\ ParseTlsSni(data).is = "host" /\ ParseTlsSni(data).name = name
    BY <1>2, <1>7, SniOutcomes DEF Finds
  <2>2. data # <<>> /\ data[1] = HANDSHAKE
    <3>1. Len(data) > 0
      BY <1>4, <1>7
    <3>2. data # <<>>
      BY <3>1
    <3> QED BY <1>2, <3>1, <3>2, Zenon
  <2>3. stage' = "served" => host' = name /\ name \in Available
    BY <2>1, HandleEffect
  <2>4. stage' # "peer" /\ stage' # "crashed"
    BY <1>5, <2>1, HandleEffect
  <2>5. stage' = "closed" => name \notin Available
    BY <2>1, <2>2, HandleEffect
  <2>6. stage' \notin Waiting
    BY <2>1, <2>2, HandleEffect DEF Waiting
  <2> QED BY <2>3, <2>4, <2>5, <2>6, Zenon
<1> QED BY <1>6, <1>7

\* The payload of a client: the servers that have clients know the token from
\* its second byte on.
LEMMA TokenHandled ==
    ASSUME NEW p \in Seq(Nat), IsToken(p), NEW data \in Seq(Nat), Begins(data, p),
           server \in Servers, stage \in Waiting, Handle(data),
           server.kind = "single" => stage # "hello"
    PROVE  /\ stage' # "served" /\ stage' # "crashed"
           /\ stage' = "peer" => server.kind # "sni"
           /\ stage' = "closed" => server.kind = "sni" \/ Len(data) < 2
           /\ stage' \in Waiting => server.kind = "sni" \/ Len(data) < Len(p)
<1>1. Len(p) > 1 /\ p[1] = 103 /\ p[2] = 65
  BY TokenBytes, Zenon
<1>2. Len(p) \in Nat /\ Len(data) \in Nat /\ (data = <<>> <=> Len(data) = 0)
  OBVIOUS
<1>3. \A i \in 1 .. Len(data) : data[i] = p[i]
  BY Zenon DEF Begins
<1>4. Len(data) > 0 => data[1] = 103
  BY <1>1, <1>2, <1>3
<1>5. Len(data) > 1 => IsToken(data)
  <2>1. Len(data) > 1 => data[1] = 103 /\ data[2] = 65
    BY <1>1, <1>2, <1>3
  <2> QED BY <2>1, TokenBytes, Zenon
<1>6. ParseTlsSni(data) = SniError
  <2>1. Len(data) < TLS_HEADER_LEN \/ At(data, 0) # HANDSHAKE
    BY <1>2, <1>4 DEF TLS_HEADER_LEN, At, HANDSHAKE
  <2> QED BY <2>1, Zenon DEF ParseTlsSni
<1>7. ParseTlsSni(data).is = "error"
  BY <1>6, SniOutcomes, Zenon
<1>8. data # <<>> => data[1] # HANDSHAKE
  BY <1>2, <1>4 DEF HANDSHAKE
<1>9. stage' # "served" /\ stage' # "crashed"
  BY <1>7, HandleEffect
<1>10. stage' = "peer" => server.kind # "sni"
  BY HandleEffect
<1>11. ASSUME server.kind = "single"
       PROVE  /\ stage' = "closed" => Len(data) < 2
              /\ stage' \in Waiting => data = <<>>
  <2>1. SingleHandler(data)
    BY <1>11 DEF Handle
  <2>2. \/ data = <<>> /\ stage' = "payload"
        \/ IsToken(data) /\ stage' = "peer"
        \/ ~IsToken(data) /\ stage' = "closed"
    BY <1>8, <1>11, <2>1, Zenon DEF SingleHandler, Becomes
  <2> QED BY <1>2, <1>5, <2>2 DEF Waiting
<1>12. ASSUME server.kind = "worker"
       PROVE  /\ stage' = "closed" => Len(data) < 2
              /\ stage' \in Waiting => data = <<>>
  <2>1. Process(data)
    BY <1>12 DEF Handle
  <2>2. \/ data = <<>> /\ stage' = "hello"
        \/ IsToken(data) /\ stage' = "peer"
        \/ ~IsToken(data) /\ stage' = "closed"
    BY <1>8, <2>1, Zenon DEF Process, Becomes
  <2> QED BY <1>2, <1>5, <2>2 DEF Waiting
<1>13. data = <<>> => Len(data) < Len(p)
  BY <1>1, <1>2
<1>14. server.kind = "sni" \/ server.kind = "single" \/ server.kind = "worker"
  BY DEF Servers
<1> QED BY <1>9, <1>10, <1>11, <1>12, <1>13, <1>14, Zenon

\* Anything else is not served.
LEMMA NothingHandled ==
    ASSUME NEW data, ~IsToken(data), ParseTlsSni(data).is # "host",
           server \in Servers, stage \in Waiting, Handle(data)
    PROVE  stage' # "served" /\ stage' # "peer"
  BY HandleEffect

\* A header that the server does not expect is not taken for a payload.
LEMMA HeaderHandled ==
    ASSUME NEW data \in Seq(Nat), Len(data) > 0, data[1] = 13 \/ data[1] = 80,
           server \in Servers, stage \in Waiting, Handle(data)
    PROVE  stage' # "served" /\ stage' # "peer" /\ stage' # "crashed"
<1>1. ~IsToken(data)
  BY TokenBytes
<1>2. ParseTlsSni(data) = SniError
  <2>1. At(data, 0) # HANDSHAKE
    BY DEF At, HANDSHAKE
  <2> QED BY <2>1, Zenon DEF ParseTlsSni
<1>3. ParseTlsSni(data).is = "error"
  BY <1>2, SniOutcomes, Zenon
<1>4. stage' # "crashed"
  BY <1>3, HandleEffect
<1> QED BY <1>1, <1>3, <1>4, NothingHandled

-----------------------------------------------------------------------------
(***************************************************************************)
(* The invariant of the listener                                           *)
(***************************************************************************)

\* What the server takes off the stream.
Stripping == IF server.proxy THEN ParseHeader(stream.bytes) ELSE NotProxy

\* Once a server looks at the payload, it has taken off the header that is in
\* all of the stream, although it has seen only a part; and SniTunServerSingle
\* waits for the rest of a ClientHello only.
Listening ==
    /\ stream \in Streams /\ server \in Servers
    /\ received \in 0 .. Len(stream.bytes)
    /\ stage = "header" => server.proxy
    /\ stage \in {"payload", "hello"} =>
          /\ start = Stripping.size /\ source = Stripping.source
          /\ start \in 0 .. received
          /\ server.kind = "sni" => start <= MAX_HEADER_SIZE
    /\ server.kind = "single" /\ stage = "hello" =>
          start < received /\ stream.bytes[start + 1] = HANDSHAKE

\* What was read of the payload is a beginning of it.
LEMMA PayloadBegins ==
    ASSUME NEW w \in Seq(Nat), NEW b \in Nat, NEW n \in Nat, b <= n, n <= Len(w)
    PROVE  /\ SubSeq(w, b + 1, n) \in Seq(Nat) /\ SubSeq(w, b + 1, Len(w)) \in Seq(Nat)
           /\ Len(SubSeq(w, b + 1, n)) = n - b
           /\ Len(SubSeq(w, b + 1, Len(w))) = Len(w) - b
           /\ Begins(SubSeq(w, b + 1, n), SubSeq(w, b + 1, Len(w)))
           /\ b < n => SubSeq(w, b + 1, n)[1] = w[b + 1]
<1>1. /\ SubSeq(w, b + 1, n) \in Seq(Nat) /\ SubSeq(w, b + 1, Len(w)) \in Seq(Nat)
      /\ Len(SubSeq(w, b + 1, n)) = n - b
      /\ Len(SubSeq(w, b + 1, Len(w))) = Len(w) - b
  OBVIOUS
<1>2. \A i \in 1 .. n - b : SubSeq(w, b + 1, n)[i] = w[b + i]
  OBVIOUS
<1>3. \A i \in 1 .. Len(w) - b : SubSeq(w, b + 1, Len(w))[i] = w[b + i]
  OBVIOUS
<1>4. \A i \in 1 .. n - b : i \in 1 .. Len(w) - b
  OBVIOUS
<1>5. \A i \in 1 .. n - b : SubSeq(w, b + 1, n)[i] = SubSeq(w, b + 1, Len(w))[i]
  BY <1>2, <1>3, <1>4, Zenon
<1>6. n - b <= Len(w) - b
  OBVIOUS
<1>7. b < n => SubSeq(w, b + 1, n)[1] = w[b + 1]
  BY <1>2
<1> QED BY <1>1, <1>5, <1>6, <1>7, Zenon DEF Begins

\* What a stream that is not bad has in front of the payload.
LEMMA StreamHeader ==
    ASSUME NEW s, s.bytes \in Seq(Nat), HasHeader(s)
    PROVE  /\ ParseHeader(s.bytes).size = s.header /\ ParseHeader(s.bytes).source = s.source
           /\ s.header \in 0 .. Len(s.bytes) /\ s.header <= MAX_BUFFER_SIZE
           /\ \/ /\ s.header = 0 /\ s.source = NoAddress /\ ParseHeader(s.bytes) = NotProxy
              \/ /\ s.header > 0 /\ ParseHeader(s.bytes).is = "header"
                 /\ s.bytes[1] = 13 \/ s.bytes[1] = 80
<1>1. PICK w \in Seq(Nat) : w = s.bytes
  BY Zenon
<1>2. /\ ParseHeader(w).size = s.header /\ ParseHeader(w).source = s.source
      /\ s.header <= MAX_BUFFER_SIZE
      /\ ParseHeader(w).is = "header" \/ ParseHeader(w).is = "none"
  BY <1>1 DEF HasHeader
<1>3. CASE ParseHeader(w).is = "none"
  <2>1. ParseHeader(w) = NotProxy
    BY <1>3, NoneIsNotProxy, Zenon
  <2>2. NotProxy.size = 0 /\ NotProxy.source = NoAddress
    BY DEF NotProxy, Raised
  <2>3. 0 \in 0 .. Len(w)
    OBVIOUS
  <2> QED BY <1>1, <1>2, <2>1, <2>2, <2>3, Zenon
<1>4. CASE ParseHeader(w).is = "header"
  <2>1. s.header \in 8 .. Len(w) /\ (w[1] = 13 \/ w[1] = 80)
    BY <1>2, <1>4, HeaderSize, Zenon
  <2>2. s.header > 0 /\ s.header \in 0 .. Len(w)
    BY <2>1
  <2> QED BY <1>1, <1>2, <1>4, <2>1, <2>2, Zenon
<1> QED BY <1>2, <1>3, <1>4, Zenon

\* The end that a connection should come to.
LEMMA ExpectedCases ==
    ASSUME stream \in Streams, server \in Servers,
           stream.is = "bad" \/ stream.header \in Nat
    PROVE  /\ stream.is = "bad" => Expected = "closed"
           /\ ~server.proxy /\ stream.is # "bad" /\ stream.header > 0 => Expected = "closed"
           /\ /\ stream.is # "bad" /\ server.proxy /\ server.kind = "sni"
              /\ stream.header > MAX_HEADER_SIZE
              => Expected = "closed"
           /\ /\ stream.is = "visit" \/ stream.is = "token"
              /\ ~server.proxy => stream.header = 0
              /\ server.kind = "sni" => stream.header <= MAX_HEADER_SIZE
              /\ stream.header <= MAX_BUFFER_SIZE
              => Expected = IF stream.is = "token"
                            THEN IF server.kind = "sni" THEN "closed" ELSE "peer"
                            ELSE IF stream.host \in Available THEN "served" ELSE "closed"
<1>1. stream.is = "bad" => Expected = "closed"
  BY Zenon DEF Expected
<1>2. ASSUME ~server.proxy, stream.is # "bad", stream.header > 0
      PROVE  Expected = "closed"
  BY <1>2, Zenon DEF Expected
<1>3. ASSUME stream.is # "bad", server.proxy, server.kind = "sni",
             stream.header > MAX_HEADER_SIZE
      PROVE  Expected = "closed"
  BY <1>3, Zenon DEF Expected
<1>4. ASSUME stream.is = "visit" \/ stream.is = "token",
             ~server.proxy => stream.header = 0,
             server.kind = "sni" => stream.header <= MAX_HEADER_SIZE,
             stream.header <= MAX_BUFFER_SIZE
      PROVE  Expected = IF stream.is = "token"
                        THEN IF server.kind = "sni" THEN "closed" ELSE "peer"
                        ELSE IF stream.host \in Available THEN "served" ELSE "closed"
  <2>1. stream.is # "bad" /\ stream.header \in Nat
    BY <1>4
  <2>2. PICK limit : limit = IF ~server.proxy THEN 0
                             ELSE IF server.kind = "sni" THEN MAX_HEADER_SIZE
                             ELSE MAX_BUFFER_SIZE
    OBVIOUS
  <2>3. limit \in Nat /\ stream.header <= limit
    <3>1. CASE ~server.proxy
      BY <1>4, <2>1, <2>2, <3>1
    <3>2. CASE server.proxy /\ server.kind = "sni"
      BY <1>4, <2>1, <2>2, <3>2, ListenerAssumption
    <3>3. CASE server.proxy /\ server.kind # "sni"
      BY <1>4, <2>1, <2>2, <3>3, HelloAssumption
    <3> QED BY <3>1, <3>2, <3>3
  <2>4. ~(stream.header > limit)
    BY <2>1, <2>3
  <2> QED BY <2>1, <2>2, <2>4, Zenon DEF Expected
<1> QED BY <1>1, <1>2, <1>3, <1>4, Zenon

\* A step that handles the payload read so far, after b bytes of header.
HandleRead(n, b, a) ==
    /\ stage \in Waiting
    /\ n \in 1 .. Len(stream.bytes) /\ b \in 0 .. n
    /\ b = Stripping.size /\ a = Stripping.source
    /\ server.kind = "sni" => b <= MAX_HEADER_SIZE
    /\ server.kind = "single" /\ stage = "hello" => b < n /\ stream.bytes[b + 1] = HANDSHAKE
    /\ Handle(SubSeq(stream.bytes, b + 1, n))
    /\ received' = n /\ start' = b /\ source' = a
    /\ UNCHANGED <<server, stream>>

\* The claim, for a step: e is the end that is expected.
LEMMA ServedByStep ==
    ASSUME UNCHANGED <<server, stream>>,
           NEW n \in Nat, NEW b \in Nat, NEW a, received' = n, start' = b, source' = a,
           stage' = "served" =>
              /\ Expected = "served"
              /\ host' = stream.host /\ a = stream.source /\ b = stream.header,
           stage' = "peer" => Expected = "peer" /\ b = stream.header,
           stage' = "closed" =>
              \/ Expected = "closed"
              \/ n - b < (IF stream.is = "token" THEN 2
                          ELSE IF server.kind = "worker" THEN TLS_HEADER_LEN ELSE 0),
           stage' = "crashed" => stream.is = "bad",
           stage' \in Waiting /\ n = Len(stream.bytes) => Expected = "closed"
    PROVE  ServedAsSent'
<1>1. Expected' = Expected
  BY DEF Expected
<1>2. CutShort' <=> n - b < (IF stream.is = "token" THEN 2
                             ELSE IF server.kind = "worker" THEN TLS_HEADER_LEN ELSE 0)
  BY DEF CutShort, TLS_HEADER_LEN
<1>3. (stage' = "served" => /\ Expected = "served"
                            /\ <<host, source, start>>' = <<stream.host, stream.source, stream.header>>')
  BY Zenon
<1>4. (stage' = "peer" => Expected = "peer" /\ start' = stream'.header)
  BY Zenon
<1>5. (stage' \in Waiting /\ received' = Len(stream'.bytes) => Expected = "closed")
  BY Zenon
<1>6. (stage' = "closed" => Expected = "closed" \/ CutShort')
  BY <1>2
<1>7. (stage' = "crashed" => stream'.is = "bad")
  BY Zenon
<1> HIDE DEF CutShort, Expected
<1> QED BY <1>1, <1>3, <1>4, <1>5, <1>6, <1>7 DEF ServedAsSent, Waiting

\* Handling the payload keeps the invariant of the listener.
LEMMA HandleKeepsListening ==
    ASSUME stream \in Streams, server \in Servers, NEW n, NEW b, NEW a, HandleRead(n, b, a)
    PROVE  Listening'
<1>1. PICK w \in Seq(Nat) : w = stream.bytes
  BY ListenerAssumption, Zenon
<1>2. /\ stage \in Waiting
      /\ n \in 1 .. Len(w) /\ b \in 0 .. n
      /\ b = Stripping.size /\ a = Stripping.source
      /\ server.kind = "sni" => b <= MAX_HEADER_SIZE
      /\ server.kind = "single" /\ stage = "hello" => b < n /\ w[b + 1] = HANDSHAKE
      /\ Handle(SubSeq(w, b + 1, n))
      /\ received' = n /\ start' = b /\ source' = a
      /\ server' = server /\ stream' = stream
  BY <1>1, Zenon DEF HandleRead
<1>3. n \in Nat /\ b \in Nat /\ b <= n /\ n <= Len(w) /\ n \in 0 .. Len(w)
  BY <1>2
<1>4. PICK data \in Seq(Nat) : /\ data = SubSeq(w, b + 1, n) /\ Len(data) = n - b
                               /\ b < n => data[1] = w[b + 1]
  BY <1>3, PayloadBegins, Zenon
<1>5. /\ stage' # "header"
      /\ server.kind = "single" /\ stage' = "hello"
            => stage = "hello" \/ (data # <<>> /\ data[1] = HANDSHAKE)
  <2>1. Handle(data)
    BY <1>2, <1>4, Zenon
  <2> QED BY <1>2, <2>1, HandleEffect
<1>6. server.kind = "single" /\ stage' = "hello" => b < n /\ w[b + 1] = HANDSHAKE
  <2>1. data # <<>> => b < n
    <3>1. data # <<>> => Len(data) > 0
      OBVIOUS
    <3> QED BY <1>3, <1>4, <3>1
  <2> QED BY <1>2, <1>4, <1>5, <2>1, Zenon
<1>7. Stripping' = Stripping
  BY <1>2 DEF Stripping
<1> HIDE DEF Stripping
<1> QED BY <1>1, <1>2, <1>3, <1>5, <1>6, <1>7, Zenon DEF Listening

\* A bad stream is not served.
LEMMA BadHandled ==
    ASSUME stream \in Streams, server \in Servers, NEW n, NEW b, NEW a, HandleRead(n, b, a),
           HasNothing(stream)
    PROVE  stage' # "served" /\ stage' # "peer"
<1>1. /\ stage \in Waiting /\ n \in 1 .. Len(stream.bytes) /\ b \in 0 .. n
      /\ b = Stripping.size /\ Handle(SubSeq(stream.bytes, b + 1, n))
  BY Zenon DEF HandleRead
<1>2. b \in {0, ParseHeader(stream.bytes).size}
  <2>1. NotProxy.size = 0
    BY Outcomes, Zenon
  <2> QED BY <1>1, <2>1 DEF Stripping
<1>3. n \in b .. Len(stream.bytes)
  <2>1. PICK w \in Seq(Nat) : w = stream.bytes
    BY ListenerAssumption, Zenon
  <2>2. n \in b .. Len(w)
    BY <1>1, <2>1
  <2> QED BY <2>1, <2>2, Zenon
<1>4. PICK data : data = SubSeq(stream.bytes, b + 1, n)
  OBVIOUS
<1>5. ~IsToken(data) /\ ParseTlsSni(data).is # "host"
  BY <1>2, <1>3, <1>4, Zenon DEF HasNothing
<1> QED BY <1>1, <1>4, <1>5, NothingHandled, Zenon

\* Nor is a header at a server that expects none.
LEMMA ForeignHandled ==
    ASSUME stream \in Streams, server \in Servers, NEW n, NEW b, NEW a, HandleRead(n, b, a),
           ~server.proxy, stream.bytes[1] = 13 \/ stream.bytes[1] = 80
    PROVE  stage' # "served" /\ stage' # "peer" /\ stage' # "crashed"
<1>1. PICK w \in Seq(Nat) : w = stream.bytes
  BY ListenerAssumption, Zenon
<1>2. /\ stage \in Waiting /\ n \in 1 .. Len(w) /\ b = Stripping.size
      /\ Handle(SubSeq(w, b + 1, n))
  BY <1>1, Zenon DEF HandleRead
<1>3. b = 0
  BY <1>2, Outcomes DEF Stripping
<1>4. n \in Nat /\ 0 \in Nat /\ 0 <= n /\ 0 < n /\ n <= Len(w)
  BY <1>2
<1>5. PICK data \in Seq(Nat) : /\ data = SubSeq(w, 0 + 1, n)
                               /\ Len(data) = n - 0 /\ data[1] = w[0 + 1]
  BY <1>4, PayloadBegins, Zenon
<1>6. Len(data) > 0 /\ (data[1] = 13 \/ data[1] = 80)
  BY <1>1, <1>4, <1>5
<1> QED BY <1>2, <1>3, <1>5, <1>6, HeaderHandled, Zenon

\* The header was taken off as it was sent.
Taken(b, a) == b = stream.header /\ a = stream.source

\* The payload that a stream has and the part of it that was read.
LEMMA ValidHandled ==
    ASSUME stream \in Streams, server \in Servers, NEW n, NEW b, NEW a, HandleRead(n, b, a),
           HasHeader(stream), server.proxy \/ stream.header = 0
    PROVE  /\ n \in Nat /\ b \in Nat
           /\ Taken(b, a)
           /\ server.kind = "sni" => stream.header <= MAX_HEADER_SIZE
           /\ stream.header <= MAX_BUFFER_SIZE
           /\ \E data \in Seq(Nat) :
                 /\ Handle(data) /\ Begins(data, Payload(stream))
                 /\ Len(data) = n - b
                 /\ n = Len(stream.bytes) => Len(data) = Len(Payload(stream))
           /\ Payload(stream) \in Seq(Nat)
           /\ b < n => stream.bytes[b + 1] = Payload(stream)[1]
<1>1. PICK w \in Seq(Nat) : w = stream.bytes
  BY ListenerAssumption, Zenon
<1>2. /\ n \in 1 .. Len(w) /\ b \in 0 .. n
      /\ b = Stripping.size /\ a = Stripping.source
      /\ Handle(SubSeq(w, b + 1, n))
      /\ server.kind = "sni" => b <= MAX_HEADER_SIZE
  BY <1>1, Zenon DEF HandleRead
<1>3. b = stream.header /\ a = stream.source /\ stream.header <= MAX_BUFFER_SIZE
  <2>1. /\ ParseHeader(w).size = stream.header /\ ParseHeader(w).source = stream.source
        /\ stream.header <= MAX_BUFFER_SIZE
        /\ stream.header = 0 => stream.source = NoAddress
    <3>1. ~(0 > 0)
      OBVIOUS
    <3> QED BY <1>1, <3>1, StreamHeader, Zenon
  <2>2. NotProxy.size = 0 /\ NotProxy.source = NoAddress
    BY DEF NotProxy, Raised
  <2> QED BY <1>1, <1>2, <2>1, <2>2, Zenon DEF Stripping
<1>4. n \in Nat /\ b \in Nat /\ b <= n /\ n <= Len(w)
  BY <1>2
<1>5. PICK p : p = SubSeq(w, b + 1, Len(w))
  OBVIOUS
<1>6. PICK data \in Seq(Nat) : /\ data = SubSeq(w, b + 1, n) /\ Len(data) = n - b
                               /\ p \in Seq(Nat) /\ Len(p) = Len(w) - b /\ Begins(data, p)
                               /\ b < n => data[1] = w[b + 1]
  BY <1>4, <1>5, PayloadBegins, Zenon
<1>7. p = Payload(stream)
  BY <1>1, <1>3, <1>5, Zenon DEF Payload
<1>8. n = Len(w) => Len(data) = Len(p)
  BY <1>4, <1>6
<1>9. b < n => w[b + 1] = p[1]
  <2>1. b < n => Len(data) > 0
    BY <1>4, <1>6
  <2>2. b < n => data[1] = p[1]
    BY <1>6, <2>1, FirstByte, Zenon
  <2> QED BY <1>6, <2>2, Zenon
<1> QED BY <1>1, <1>2, <1>3, <1>4, <1>6, <1>7, <1>8, <1>9, Zenon DEF Taken

\* Handling the payload keeps the claim, whatever the stream is.
LEMMA HandleKeepsServed ==
    ASSUME stream \in Streams, server \in Servers, NEW n, NEW b, NEW a, HandleRead(n, b, a)
    PROVE  ServedAsSent'
<1>1. /\ stage \in Waiting /\ n \in 1 .. Len(stream.bytes) /\ b \in 0 .. n
      /\ received' = n /\ start' = b /\ source' = a /\ UNCHANGED <<server, stream>>
      /\ server.kind = "single" /\ stage = "hello" => b < n /\ stream.bytes[b + 1] = HANDSHAKE
  BY Zenon DEF HandleRead
<1>2. stream.bytes \in Seq(Nat)
  BY ListenerAssumption, Zenon
<1>3. n \in Nat /\ b \in Nat
  BY <1>1, <1>2
<1>4. ASSUME stage' # "served", stage' # "peer", Expected = "closed",
             stage' = "crashed" => stream.is = "bad"
      PROVE  ServedAsSent'
  BY <1>1, <1>3, <1>4, ServedByStep
<1>5. CASE stream.is = "bad" /\ HasNothing(stream)
  <2>1. stage' # "served" /\ stage' # "peer"
    BY <1>5, BadHandled, Zenon
  <2>2. Expected = "closed"
    BY <1>5, ExpectedCases, Zenon
  <2> QED BY <1>4, <1>5, <2>1, <2>2, Zenon
<1>6. ASSUME stream.is # "bad", HasHeader(stream), ~server.proxy, stream.header # 0
      PROVE  ServedAsSent'
  <2>1. stream.header \in 0 .. Len(stream.bytes) /\ stream.header > 0
          /\ (stream.bytes[1] = 13 \/ stream.bytes[1] = 80)
    BY <1>2, <1>6, StreamHeader, Zenon
  <2>2. stage' # "served" /\ stage' # "peer" /\ stage' # "crashed"
    BY <1>6, <2>1, ForeignHandled, Zenon
  <2>3. stream.header \in Nat
    BY <1>2, <2>1
  <2>4. Expected = "closed"
    BY <1>6, <2>1, <2>3, ExpectedCases, Zenon
  <2> QED BY <1>4, <2>2, <2>4, Zenon
<1>7. ASSUME stream.is = "visit", HasHeader(stream), HasName(stream),
             server.proxy \/ stream.header = 0
      PROVE  ServedAsSent'
  <2>1. PICK p : p = Payload(stream)
    OBVIOUS
  <2>2. PICK data \in Seq(Nat) : /\ Handle(data) /\ Begins(data, p)
                                 /\ Len(data) = n - b
                                 /\ n = Len(stream.bytes) => Len(data) = Len(p)
    BY <1>7, <2>1, ValidHandled, Zenon
  <2>3. /\ b = stream.header /\ a = stream.source
        /\ server.kind = "sni" => stream.header <= MAX_HEADER_SIZE
        /\ stream.header <= MAX_BUFFER_SIZE
        /\ p \in Seq(Nat)
    <3>1. Payload(stream) \in Seq(Nat)
      BY <1>7, ValidHandled, Zenon
    <3>2. Taken(b, a) /\ stream.header <= MAX_BUFFER_SIZE
      BY <1>7, ValidHandled, Zenon
    <3>3. server.kind = "sni" => stream.header <= MAX_HEADER_SIZE
      BY <1>7, ValidHandled, Zenon
    <3> QED BY <2>1, <3>1, <3>2, <3>3, Zenon DEF Taken
  <2>4. Greets(p, stream.host)
    BY <1>7, <2>1, <2>3, Zenon DEF HasName, Greets, Finds
  <2>5. /\ stage' = "served" => host' = stream.host /\ stream.host \in Available
        /\ stage' # "peer" /\ stage' # "crashed"
        /\ stage' = "closed" =>
              \/ stream.host \notin Available
              \/ server.kind = "worker" /\ Len(data) < TLS_HEADER_LEN
        /\ stage' \in Waiting => Len(data) < Len(p)
    <3>1. PICK name : name = stream.host
      OBVIOUS
    <3>2. Greets(p, name)
      BY <2>4, <3>1, Zenon
    <3>3. /\ stage' = "served" => host' = name /\ name \in Available
          /\ stage' # "peer" /\ stage' # "crashed"
          /\ stage' = "closed" =>
                \/ name \notin Available
                \/ server.kind = "worker" /\ Len(data) < TLS_HEADER_LEN
          /\ stage' \in Waiting => Len(data) < Len(p)
      BY <1>1, <2>2, <3>2, VisitHandled, Zenon
    <3> QED BY <3>1, <3>3, Zenon
  <2>6. stream.is # "token" /\ stream.header \in Nat
    BY <1>3, <1>7, <2>3
  <2>7. Expected = IF stream.host \in Available THEN "served" ELSE "closed"
    BY <1>7, <2>3, <2>6, ExpectedCases, Zenon
  <2>8. ~(stage' \in Waiting /\ n = Len(stream.bytes))
    <3>1. Len(p) \in Nat
      BY <2>3
    <3>2. ~(Len(p) < Len(p))
      BY <3>1
    <3> QED BY <2>2, <2>5, <3>2, Zenon
  <2>9. stage' = "closed" =>
              \/ Expected = "closed"
              \/ n - b < (IF stream.is = "token" THEN 2
                          ELSE IF server.kind = "worker" THEN TLS_HEADER_LEN ELSE 0)
    BY <2>2, <2>5, <2>6, <2>7, Zenon
  <2>10. stage' = "served" =>
              /\ Expected = "served"
              /\ host' = stream.host /\ a = stream.source /\ b = stream.header
    BY <2>3, <2>5, <2>7, Zenon
  <2> QED BY <1>1, <1>3, <2>5, <2>8, <2>9, <2>10, ServedByStep, Zenon
<1>8. ASSUME stream.is = "token", HasHeader(stream), IsToken(Payload(stream)),
             server.proxy \/ stream.header = 0
      PROVE  ServedAsSent'
  <2>1. PICK p : p = Payload(stream)
    OBVIOUS
  <2>2. PICK data \in Seq(Nat) : /\ Handle(data) /\ Begins(data, p)
                                 /\ Len(data) = n - b
                                 /\ n = Len(stream.bytes) => Len(data) = Len(p)
    BY <1>8, <2>1, ValidHandled, Zenon
  <2>3. /\ b = stream.header /\ a = stream.source
        /\ server.kind = "sni" => stream.header <= MAX_HEADER_SIZE
        /\ stream.header <= MAX_BUFFER_SIZE
        /\ p \in Seq(Nat)
        /\ b < n => stream.bytes[b + 1] = p[1]
    <3>1. Payload(stream) \in Seq(Nat) /\ (b < n => stream.bytes[b + 1] = Payload(stream)[1])
      BY <1>8, ValidHandled, Zenon
    <3>2. Taken(b, a) /\ stream.header <= MAX_BUFFER_SIZE
      BY <1>8, ValidHandled, Zenon
    <3>3. server.kind = "sni" => stream.header <= MAX_HEADER_SIZE
      BY <1>8, ValidHandled, Zenon
    <3> QED BY <2>1, <3>1, <3>2, <3>3, Zenon DEF Taken
  <2>4. p[1] = 103
    BY <1>8, <2>1, <2>3, TokenBytes, Zenon
  <2>5. server.kind = "single" => stage # "hello"
    <3>1. 103 # HANDSHAKE
      BY DEF HANDSHAKE
    <3> QED BY <1>1, <2>3, <2>4, <3>1, Zenon
  <2>6. /\ stage' # "served" /\ stage' # "crashed"
        /\ stage' = "peer" => server.kind # "sni"
        /\ stage' = "closed" => server.kind = "sni" \/ Len(data) < 2
        /\ stage' \in Waiting => server.kind = "sni" \/ Len(data) < Len(p)
    BY <1>1, <1>8, <2>1, <2>2, <2>3, <2>5, TokenHandled, Zenon
  <2>7. stream.header \in Nat
    BY <1>3, <2>3, Zenon
  <2>8. Expected = IF server.kind = "sni" THEN "closed" ELSE "peer"
    BY <1>8, <2>3, <2>7, ExpectedCases, Zenon
  <2>9. stage' \in Waiting /\ n = Len(stream.bytes) => Expected = "closed"
    <3>1. Len(p) \in Nat
      BY <2>3
    <3>2. ~(Len(p) < Len(p))
      BY <3>1
    <3> QED BY <2>2, <2>6, <2>8, <3>2, Zenon
  <2>10. stage' = "closed" =>
              \/ Expected = "closed"
              \/ n - b < (IF stream.is = "token" THEN 2
                          ELSE IF server.kind = "worker" THEN TLS_HEADER_LEN ELSE 0)
    BY <1>8, <2>2, <2>6, <2>8, Zenon
  <2>11. stage' = "peer" => Expected = "peer" /\ b = stream.header
    BY <2>3, <2>6, <2>8, Zenon
  <2> QED BY <1>1, <1>3, <2>6, <2>9, <2>10, <2>11, ServedByStep, Zenon
<1>9. "visit" # "bad" /\ "token" # "bad"
  OBVIOUS
<1> QED BY <1>5, <1>6, <1>7, <1>8, <1>9, StreamAssumption, Zenon

-----------------------------------------------------------------------------
(***************************************************************************)
(* A step that looks for the header                                        *)
(***************************************************************************)

\* A stream that is not bad is not empty, and one without a header does not
\* begin like one.
LEMMA ValidBeginning ==
    ASSUME NEW s, s.bytes \in Seq(Nat), HasHeader(s), HasName(s) \/ IsToken(Payload(s))
    PROVE  /\ Len(s.bytes) > 0
           /\ s.header = 0 => s.bytes[1] # 13 /\ s.bytes[1] # 80
<1>1. PICK w \in Seq(Nat) : w = s.bytes
  BY Zenon
<1>2. s.header \in 0 .. Len(w) /\ (s.header = 0 \/ s.header > 0)
  BY <1>1, StreamHeader, Zenon
<1>3. s.header > 0 => Len(w) > 0
  BY <1>2
<1>4. ASSUME s.header = 0
      PROVE  Len(w) > 0 /\ w[1] # 13 /\ w[1] # 80
  <2>1. Payload(s) = SubSeq(w, 0 + 1, Len(w))
    BY <1>1, <1>4, Zenon DEF Payload
  <2>2. SubSeq(w, 0 + 1, Len(w)) = w
    OBVIOUS
  <2>3. Payload(s) = w
    BY <2>1, <2>2, Zenon
  <2>4. CASE IsToken(w)
    <3>1. Len(w) > 1 /\ w[1] = 103
      BY <2>4, TokenBytes, Zenon
    <3> QED BY <3>1
  <2>5. CASE HasName(s)
    <3>1. Finds(w, s.host)
      BY <2>3, <2>5, Zenon DEF HasName, Finds
    <3>2. PICK name : Finds(w, name)
      BY <3>1, Zenon
    <3>3. ~(Len(w) < TLS_HEADER_LEN) /\ At(w, 0) = HANDSHAKE
      BY <3>2, HostFound, Zenon
    <3> QED BY <3>3 DEF TLS_HEADER_LEN, At, HANDSHAKE
  <2> QED BY <2>3, <2>4, <2>5, Zenon
<1>5. 0 > 0 \/ ~(0 > 0)
  OBVIOUS
<1> QED BY <1>1, <1>2, <1>3, <1>4, Zenon

\* While a server waits for the header of a stream that is not bad, the stream
\* has one, and a part of it is still to come.
LEMMA StillToCome ==
    ASSUME NEW s, s.bytes \in Seq(Nat), HasHeader(s), HasName(s) \/ IsToken(Payload(s)),
           NEW n \in 1 .. Len(s.bytes), ParseHeader(SubSeq(s.bytes, 1, n)).is = "incomplete"
    PROVE  s.header \in Nat /\ n < s.header /\ s.header <= Len(s.bytes)
<1>1. PICK w \in Seq(Nat) : w = s.bytes
  BY Zenon
<1>2. n \in Nat /\ n > 0 /\ n <= Len(w) /\ Len(w) \in Nat
  BY <1>1
<1>3. PICK d \in Seq(Nat) : d = SubSeq(w, 1, n) /\ Len(d) = n /\ Begins(d, w)
  BY <1>2, FrontBegins, Zenon
<1>4. ParseHeader(d).is = "incomplete"
  BY <1>1, <1>3, Zenon
<1>5. s.header # 0
  <2> SUFFICES ASSUME s.header = 0 PROVE FALSE
    BY Zenon
  <2>1. w[1] # 13 /\ w[1] # 80
    BY <1>1, ValidBeginning, Zenon
  <2>2. Len(d) > 0
    BY <1>2, <1>3, Zenon
  <2>3. d[1] = w[1]
    BY <1>3, <2>2, FirstByte, Zenon
  <2>4. ParseHeader(d) = NotProxy
    BY <2>1, <2>2, <2>3, NoHeader, Zenon
  <2>5. NotProxy.is = "none"
    BY Outcomes, Zenon
  <2>6. "none" # "incomplete"
    OBVIOUS
  <2> QED BY <1>4, <2>4, <2>5, <2>6, Zenon
<1>6. /\ ParseHeader(w).size = s.header /\ s.header \in 0 .. Len(w)
      /\ ParseHeader(w).is = "header"
  BY <1>1, <1>5, StreamHeader, Zenon
<1>7. ~(s.header <= Len(d))
  <2> SUFFICES ASSUME s.header <= Len(d) PROVE FALSE
    BY Zenon
  <2>1. ParseHeader(d) # Incomplete
    BY <1>3, <1>6, HeaderSize, Zenon
  <2>2. ParseHeader(w) = ParseHeader(d)
    BY <1>3, <2>1, HeaderIsFinal, Zenon
  <2>3. "header" # "incomplete"
    OBVIOUS
  <2> QED BY <1>4, <1>6, <2>2, <2>3, Zenon
<1> QED BY <1>1, <1>2, <1>3, <1>6, <1>7

\* A part of a stream that is refused, or that has its header or none.
LEMMA HeaderSeen ==
    ASSUME NEW w \in Seq(Nat), NEW n \in 1 .. Len(w),
           ParseHeader(SubSeq(w, 1, n)).is \in {"malformed", "header", "none"}
    PROVE  /\ ParseHeader(w) = ParseHeader(SubSeq(w, 1, n))
           /\ ParseHeader(w).is # "malformed" => ParseHeader(w).size \in 0 .. n
<1>2. n \in Nat /\ n > 0 /\ n <= Len(w) /\ Len(w) \in Nat
  OBVIOUS
<1>3. PICK d \in Seq(Nat) : d = SubSeq(w, 1, n) /\ Len(d) = n /\ Begins(d, w)
  BY <1>2, FrontBegins, Zenon
<1>4. ParseHeader(d).is = "malformed" \/ ParseHeader(d).is = "header" \/ ParseHeader(d).is = "none"
  BY <1>3, Zenon
<1>5. ParseHeader(d) # Incomplete
  BY <1>4, Outcomes
<1>6. ParseHeader(w) = ParseHeader(d)
  BY <1>3, <1>5, HeaderIsFinal, Zenon
<1>7. ParseHeader(d).is = "none" => ParseHeader(d).size \in 0 .. n
  <2>1. 0 \in 0 .. n
    BY <1>2
  <2> QED BY <2>1, NoneIsNotProxy, Outcomes, Zenon
<1>8. ParseHeader(d).is = "header" => ParseHeader(d).size \in 0 .. n
  <2>1. ParseHeader(d).is = "header" => ParseHeader(d).size \in 8 .. n
    BY <1>3, HeaderSize, Zenon
  <2>2. \A k : k \in 8 .. n => k \in 0 .. n
    BY <1>2
  <2> QED BY <2>1, <2>2, Zenon
<1> QED BY <1>3, <1>4, <1>6, <1>7, <1>8, Zenon

\* A server that waits for the header.
WaitsForHeader(n) ==
    /\ stream \in Streams /\ server \in Servers
    /\ stage = "header" /\ server.proxy
    /\ n \in received + 1 .. Len(stream.bytes) /\ n \in 1 .. Len(stream.bytes)
    /\ server.kind = "sni" => n <= MAX_HEADER_SIZE
    /\ received' = n /\ UNCHANGED <<server, stream>>

\* It waits for more of a header, or gives up where the header is too long.
LEMMA IncompleteKeeps ==
    ASSUME NEW n, WaitsForHeader(n), ParseHeader(SubSeq(stream.bytes, 1, n)).is = "incomplete",
           stage' = IF HeaderFull(n) THEN "closed" ELSE "header"
    PROVE  Listening' /\ ServedAsSent'
<1>1. /\ stream \in Streams /\ server \in Servers /\ server.proxy
      /\ n \in 1 .. Len(stream.bytes) /\ received' = n /\ server' = server /\ stream' = stream
  BY DEF WaitsForHeader
<1>2. stream.bytes \in Seq(Nat)
  BY <1>1, ListenerAssumption, Zenon
<1>3. n \in Nat /\ n \in 0 .. Len(stream.bytes)
  BY <1>1, <1>2
<1>4. Listening'
  <2>1. stage' = "closed" \/ stage' = "header"
    OBVIOUS
  <2>2. stage' \notin {"payload", "hello"} /\ stage' # "hello"
    BY <2>1
  <2> QED BY <1>1, <1>3, <2>2, Zenon DEF Listening
<1>5. CASE stream.is = "bad"
  <2>1. Expected = "closed"
    BY <1>1, <1>5, ExpectedCases, Zenon
  <2>2. Expected' = Expected
    BY <1>1 DEF Expected
  <2>3. stage' # "served" /\ stage' # "peer"
    OBVIOUS
  <2> QED BY <1>4, <2>1, <2>2, <2>3, Zenon DEF ServedAsSent
<1>6. ASSUME stream.is # "bad", HasHeader(stream), HasName(stream) \/ IsToken(Payload(stream))
      PROVE  ServedAsSent'
  <2>1. stream.header \in Nat /\ n < stream.header /\ stream.header <= Len(stream.bytes)
    BY <1>1, <1>2, <1>6, StillToCome, Zenon
  <2>2. stream.header <= MAX_BUFFER_SIZE
    BY <1>2, <1>6, StreamHeader, Zenon
  <2>3. n # Len(stream.bytes)
    BY <1>2, <1>3, <2>1
  <2>4. stage' = "closed" => Expected = "closed"
    <3> SUFFICES ASSUME stage' = "closed" PROVE Expected = "closed"
      BY Zenon
    <3>1. HeaderFull(n)
      BY Zenon
    <3>2. ~(n >= MAX_BUFFER_SIZE)
      BY <1>3, <2>1, <2>2, HelloAssumption
    <3>3. server.kind = "sni" /\ n >= MAX_HEADER_SIZE
      BY <3>1, <3>2, Zenon DEF HeaderFull
    <3>4. stream.header > MAX_HEADER_SIZE
      BY <1>3, <2>1, <3>3, ListenerAssumption
    <3> QED BY <1>1, <1>6, <2>1, <3>3, <3>4, ExpectedCases, Zenon
  <2>5. Expected' = Expected
    BY <1>1 DEF Expected
  <2>6. stage' # "served" /\ stage' # "peer"
    OBVIOUS
  <2> QED BY <1>1, <2>3, <2>4, <2>5, <2>6, Zenon DEF ServedAsSent
<1>7. "visit" # "bad" /\ "token" # "bad"
  OBVIOUS
<1> QED BY <1>1, <1>4, <1>5, <1>6, <1>7, StreamAssumption, Zenon

\* It refuses only what is bad.
LEMMA MalformedKeeps ==
    ASSUME NEW n, WaitsForHeader(n), ParseHeader(SubSeq(stream.bytes, 1, n)).is = "malformed",
           stage' = "closed"
    PROVE  Listening' /\ ServedAsSent'
<1>1. /\ stream \in Streams /\ server \in Servers
      /\ n \in 1 .. Len(stream.bytes) /\ received' = n /\ server' = server /\ stream' = stream
  BY DEF WaitsForHeader
<1>2. PICK w \in Seq(Nat) : w = stream.bytes
  BY <1>1, ListenerAssumption, Zenon
<1>3. n \in 0 .. Len(w)
  BY <1>1, <1>2
<1>4. ParseHeader(w).is = "malformed"
  <2>1. ParseHeader(SubSeq(w, 1, n)).is = "malformed" /\ n \in 1 .. Len(w)
    BY <1>1, <1>2, Zenon
  <2> QED BY <2>1, HeaderSeen, Zenon
<1>5. ~HasHeader(stream)
  <2>1. "malformed" \notin {"header", "none"}
    OBVIOUS
  <2> QED BY <1>2, <1>4, <2>1, Zenon DEF HasHeader
<1>6. stream.is = "bad"
  BY <1>1, <1>5, StreamAssumption, Zenon
<1>7. Expected = "closed"
  BY <1>1, <1>6, ExpectedCases, Zenon
<1>8. Expected' = Expected
  BY <1>1 DEF Expected
<1>9. stage' \notin {"payload", "hello"} /\ stage' \notin Waiting
  BY DEF Waiting
<1>10. stage' # "header" /\ stage' # "hello" /\ stage' # "served" /\ stage' # "peer"
  OBVIOUS
<1>11. Listening'
  BY <1>1, <1>2, <1>3, <1>9, <1>10, Zenon DEF Listening
<1>12. ServedAsSent'
  BY <1>7, <1>8, <1>9, <1>10, Zenon DEF ServedAsSent
<1> QED BY <1>11, <1>12

\* It goes on with the payload once it has seen the header, or that there is
\* none.
LEMMA StrippedKeeps ==
    ASSUME NEW n, WaitsForHeader(n), NEW b, NEW a,
           ParseHeader(SubSeq(stream.bytes, 1, n)).is \in {"header", "none"},
           b = ParseHeader(SubSeq(stream.bytes, 1, n)).size,
           a = ParseHeader(SubSeq(stream.bytes, 1, n)).source,
           start' = b, source' = a, Handle(SubSeq(stream.bytes, b + 1, n))
    PROVE  Listening' /\ ServedAsSent'
<1>1. /\ stream \in Streams /\ server \in Servers /\ stage = "header" /\ server.proxy
      /\ n \in 1 .. Len(stream.bytes) /\ received' = n /\ server' = server /\ stream' = stream
      /\ server.kind = "sni" => n <= MAX_HEADER_SIZE
  BY DEF WaitsForHeader
<1>2. PICK w \in Seq(Nat) : w = stream.bytes
  BY <1>1, ListenerAssumption, Zenon
<1>3. /\ ParseHeader(w).is # "malformed"
      /\ ParseHeader(w).size = b /\ ParseHeader(w).source = a /\ b \in 0 .. n
  <2>1. PICK found : found = ParseHeader(SubSeq(w, 1, n))
    OBVIOUS
  <2>2. found.is \in {"header", "none"} /\ b = found.size /\ a = found.source
    BY <1>2, <2>1, Zenon
  <2>3. found.is \in {"malformed", "header", "none"} /\ found.is # "malformed"
    BY <2>2
  <2>4. ParseHeader(w) = found /\ (found.is # "malformed" => found.size \in 0 .. n)
    BY <1>1, <1>2, <2>1, <2>3, HeaderSeen, Zenon
  <2> QED BY <2>2, <2>3, <2>4, Zenon
<1>4. b = Stripping.size /\ a = Stripping.source
  BY <1>1, <1>2, <1>3, Zenon DEF Stripping
<1>5. server.kind = "sni" => b <= MAX_HEADER_SIZE
  <2>1. n \in Nat
    BY <1>1, <1>2
  <2> QED BY <1>1, <1>3, <2>1, ListenerAssumption
<1>6. stage \in Waiting /\ stage # "hello"
  BY <1>1 DEF Waiting
<1>7. HandleRead(n, b, a)
  BY <1>1, <1>3, <1>4, <1>5, <1>6, Zenon DEF HandleRead
<1> QED BY <1>1, <1>7, HandleKeepsListening, HandleKeepsServed, Zenon

-----------------------------------------------------------------------------
(***************************************************************************)
(* The operations of the listener keep its invariant and the claim         *)
(***************************************************************************)

LEMMA ReadKeeps ==
    ASSUME Listening, Read
    PROVE  Listening' /\ ServedAsSent'
<1>1. PICK n : /\ n \in received + 1 .. Len(stream.bytes)
               /\ server.kind = "sni" /\ stage = "header" => n <= MAX_HEADER_SIZE
               /\ received' = n
               /\ \/ stage = "header" /\ Strip(n)
                  \/ /\ stage # "header"
                     /\ Handle(Rest(n, start))
                     /\ UNCHANGED <<start, source>>
  BY Zenon DEF Read
<1>2. stage \in Waiting /\ server' = server /\ stream' = stream
  BY Zenon DEF Read
<1>3. /\ stream \in Streams /\ server \in Servers
      /\ received \in 0 .. Len(stream.bytes)
      /\ stage = "header" => server.proxy
  BY DEF Listening
<1>4. PICK w \in Seq(Nat) : w = stream.bytes
  BY <1>3, ListenerAssumption, Zenon
<1>5. n \in 1 .. Len(w) /\ n \in Nat /\ received \in Nat /\ received < n
  BY <1>1, <1>3, <1>4
<1>6. CASE stage = "header"
  <2>1. WaitsForHeader(n)
    BY <1>1, <1>2, <1>3, <1>4, <1>5, <1>6, Zenon DEF WaitsForHeader
  <2>2. Strip(n)
    BY <1>1, <1>6
  <2>3. PICK found : found = ParseHeader(SubSeq(stream.bytes, 1, n))
    OBVIOUS
  <2>4. ParseHeader(Rest(n, 0)) = found
    <3>1. 0 + 1 = 1
      OBVIOUS
    <3> QED BY <2>3, <3>1, Zenon DEF Rest
  <2>5. \/ /\ found.is = "incomplete"
           /\ stage' = IF HeaderFull(n) THEN "closed" ELSE "header"
        \/ found.is = "malformed" /\ stage' = "closed"
        \/ /\ found.is \in {"header", "none"}
           /\ source' = found.source /\ start' = found.size
           /\ Handle(SubSeq(stream.bytes, found.size + 1, n))
    BY <2>2, <2>4, Zenon DEF Strip, Becomes, Rest
  <2>6. CASE found.is = "incomplete" /\ stage' = IF HeaderFull(n) THEN "closed" ELSE "header"
    BY <2>1, <2>3, <2>6, IncompleteKeeps, Zenon
  <2>7. CASE found.is = "malformed" /\ stage' = "closed"
    BY <2>1, <2>3, <2>7, MalformedKeeps, Zenon
  <2>8. CASE /\ found.is \in {"header", "none"}
             /\ source' = found.source /\ start' = found.size
             /\ Handle(SubSeq(stream.bytes, found.size + 1, n))
    <3>1. PICK b, a : b = found.size /\ a = found.source
      OBVIOUS
    <3>2. start' = b /\ source' = a /\ Handle(SubSeq(stream.bytes, b + 1, n))
      BY <2>8, <3>1, Zenon
    <3>3. /\ ParseHeader(SubSeq(stream.bytes, 1, n)).is \in {"header", "none"}
          /\ b = ParseHeader(SubSeq(stream.bytes, 1, n)).size
          /\ a = ParseHeader(SubSeq(stream.bytes, 1, n)).source
      BY <2>3, <2>8, <3>1, Zenon
    <3> QED BY <2>1, <3>2, <3>3, StrippedKeeps
  <2> QED BY <2>5, <2>6, <2>7, <2>8, Zenon
<1>7. CASE stage # "header"
  <2>1. stage \in {"payload", "hello"}
    BY <1>2, <1>7 DEF Waiting
  <2>2. /\ start = Stripping.size /\ source = Stripping.source
        /\ start \in 0 .. received
        /\ server.kind = "sni" => start <= MAX_HEADER_SIZE
        /\ server.kind = "single" /\ stage = "hello" =>
              start < received /\ w[start + 1] = HANDSHAKE
    BY <1>4, <2>1, Zenon DEF Listening
  <2>3. PICK b, a : b = start /\ a = source
    OBVIOUS
  <2>4. Handle(SubSeq(stream.bytes, b + 1, n)) /\ start' = b /\ source' = a
    BY <1>1, <1>7, <2>3, Zenon DEF Rest
  <2>5. b \in 0 .. n /\ (b < received => b < n)
    BY <1>5, <2>2, <2>3
  <2>6. HandleRead(n, b, a)
    BY <1>1, <1>2, <1>4, <1>5, <2>2, <2>3, <2>4, <2>5, Zenon DEF HandleRead
  <2> QED BY <1>3, <2>6, HandleKeepsListening, HandleKeepsServed, Zenon
<1> QED BY <1>6, <1>7

\* A connection that is over says nothing more.
LEMMA OverKeeps ==
    ASSUME stream' \in Streams, server' \in Servers, received' \in 0 .. Len(stream'.bytes),
           stage' \in {"aborted", "over"}
    PROVE  Listening' /\ ServedAsSent'
<1>1. stage' \notin {"payload", "hello"} /\ stage' \notin Waiting
  BY DEF Waiting
<1>2. /\ stage' # "header" /\ stage' # "hello" /\ stage' # "served" /\ stage' # "peer"
      /\ stage' # "closed" /\ stage' # "crashed"
  OBVIOUS
<1>3. Listening'
  BY <1>1, <1>2, Zenon DEF Listening
<1>4. ServedAsSent'
  BY <1>1, <1>2, Zenon DEF ServedAsSent
<1> QED BY <1>3, <1>4

LEMMA AbortKeeps ==
    ASSUME Listening, Abort
    PROVE  Listening' /\ ServedAsSent'
<1>1. /\ stream' = stream /\ server' = server /\ received' = received /\ stage' = "aborted"
  BY DEF Abort, Becomes
<1>2. /\ stream \in Streams /\ server \in Servers /\ received \in 0 .. Len(stream.bytes)
  BY DEF Listening
<1> QED BY <1>1, <1>2, OverKeeps

LEMMA ListenInitHolds ==
    ASSUME ListenInit
    PROVE  Listening /\ ServedAsSent
<1>1. /\ server \in Servers /\ stream \in Streams /\ received = 0 /\ start = 0
      /\ source = NoAddress
      /\ stage = IF server.proxy THEN "header"
                 ELSE IF server.kind = "single" THEN "payload" ELSE "hello"
  BY DEF ListenInit
<1>2. stream.bytes \in Seq(Nat)
  BY <1>1, ListenerAssumption, Zenon
<1>3. Listening
  <2>1. received \in 0 .. Len(stream.bytes) /\ start \in 0 .. received
        /\ start <= MAX_HEADER_SIZE
    BY <1>1, <1>2, ListenerAssumption
  <2>2. server.proxy => stage \notin {"payload", "hello"}
    BY <1>1
  <2>3. server.kind = "single" => stage # "hello"
    BY <1>1
  <2>4. ~server.proxy => stage # "header"
    BY <1>1
  <2>5. NotProxy.size = 0 /\ NotProxy.source = NoAddress
    BY DEF NotProxy, Raised
  <2>6. ~server.proxy => start = Stripping.size /\ source = Stripping.source
    BY <1>1, <2>5, Zenon DEF Stripping
  <2> QED BY <1>1, <2>1, <2>2, <2>3, <2>4, <2>6, Zenon DEF Listening
<1>4. received = Len(stream.bytes) => Expected = "closed"
  <2>1. CASE stream.is = "bad"
    BY <1>1, <2>1, ExpectedCases, Zenon
  <2>2. ASSUME HasHeader(stream), HasName(stream) \/ IsToken(Payload(stream))
        PROVE  received # Len(stream.bytes)
    <3>1. Len(stream.bytes) > 0
      BY <1>2, <2>2, ValidBeginning, Zenon
    <3> QED BY <1>1, <3>1
  <2> QED BY <1>1, <2>1, <2>2, StreamAssumption, Zenon
<1>5. stage # "served" /\ stage # "peer" /\ stage # "closed" /\ stage # "crashed"
  BY <1>1
<1>6. ServedAsSent
  BY <1>4, <1>5, Zenon DEF ServedAsSent
<1> QED BY <1>3, <1>6

LEMMA ListenStutters ==
    ASSUME Listening, ServedAsSent, UNCHANGED listenVars
    PROVE  Listening' /\ ServedAsSent'
  BY DEF Listening, ServedAsSent, Expected, CutShort, Stripping, listenVars
=============================================================================
