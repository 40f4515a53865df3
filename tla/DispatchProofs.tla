--------------------------- MODULE DispatchProofs ---------------------------
(***************************************************************************)
(* Theorems about Dispatch for every set of processes its assumptions      *)
(* allow: any number of objects, segments and imports.                     *)
(***************************************************************************)
EXTENDS Dispatch, SequenceTheorems, WellFoundedInduction, TLAPS

-----------------------------------------------------------------------------
(***************************************************************************)
(* The first and the last of a set of positions.                           *)
(***************************************************************************)
LEMMA NatMin ==
    ASSUME NEW T \in SUBSET Nat, T # {}
    PROVE  \E x \in T : \A y \in T : x <= y
<1> DEFINE R == OpToRel(<, Nat)
<1>1. \E x \in T : \A y \in T : ~ (<<y, x>> \in R)
  <2>1. IsWellFoundedOn(R, Nat)
    BY NatLessThanWellFounded
  <2> HIDE DEF R
  <2> QED
    BY <2>1, WFMin
<1>2. PICK x \in T : \A y \in T : ~ (<<y, x>> \in R)
  BY <1>1
<1>3. ASSUME NEW y \in T, y < x PROVE FALSE
  <2>1. <<y, x>> \in Nat \X Nat /\ <<y, x>>[1] < <<y, x>>[2]
    BY <1>3
  <2>2. <<y, x>> \in R
    BY <2>1 DEF OpToRel
  <2> QED
    BY <2>2, <1>2
<1> HIDE DEF R
<1>4. x \in Nat
  BY <1>2
<1>5. ASSUME NEW y \in T PROVE x <= y
  BY <1>3, <1>4
<1> QED
  BY <1>5

LEMMA MinFacts ==
    ASSUME NEW T \in SUBSET Nat, T # {}
    PROVE  Min(T) \in T /\ \A y \in T : Min(T) <= y
<1>1. \E x \in T : \A y \in T : x <= y
  BY NatMin
<1> QED
  BY <1>1 DEF Min

LEMMA MaxFacts ==
    ASSUME NEW n \in Nat, NEW T \in SUBSET (1 .. n), T # {}
    PROVE  Max(T) \in T /\ \A y \in T : Max(T) >= y
<1> DEFINE S == {n - x : x \in T}
<1>1. S \in SUBSET Nat /\ S # {}
  <2>1. \A x \in T : n - x \in Nat
    OBVIOUS
  <2> QED
    BY <2>1
<1>2. PICK m \in S : \A y \in S : m <= y
  BY <1>1, NatMin
<1>3. PICK x \in T : m = n - x
  BY <1>2
<1>4. ASSUME NEW y \in T PROVE x >= y
  <2>1. n - x <= n - y
    BY <1>2, <1>3
  <2> QED
    BY <2>1
<1> QED
  BY <1>3, <1>4 DEF Max

-----------------------------------------------------------------------------
(***************************************************************************)
(* What the assumptions say of the process at hand.                        *)
(***************************************************************************)
Listed == Range(layout.first) \cup Range(layout.second)

LEMMA LayoutFacts ==
    ASSUME layout \in Layouts
    PROVE  /\ layout.objects \in Seq(Object)
           /\ layout.first \in Seq(Nat) /\ layout.second \in Seq(Nat)
           /\ Objects = 1 .. Len(layout.objects) /\ Len(layout.objects) \in Nat
           /\ Exe \in Objects /\ 0 \notin Objects
           /\ Listed \subseteq Objects
<1>1. layout \in Layout /\ LinksFit(layout)
  BY LayoutsAssumption
<1>2. /\ layout.objects \in Seq(Object)
      /\ layout.first \in Seq(Nat) /\ layout.second \in Seq(Nat)
  BY <1>1 DEF Layout
<1>3. /\ Objects = 1 .. Len(layout.objects) /\ Len(layout.objects) \in Nat
  BY <1>2, LenProperties DEF Objects
<1>4. Listed \subseteq Objects
  BY <1>1 DEF LinksFit, Listed, Objects
<1>5. Exe \in Listed
  <2>1. layout.first # <<>> /\ Head(layout.first) = Exe
    BY <1>1 DEF LinksFit
  <2>2. Len(layout.first) >= 1 /\ DOMAIN layout.first = 1 .. Len(layout.first)
        /\ layout.first[1] = Exe
    BY <1>2, <2>1, EmptySeq, LenProperties
  <2> QED
    BY <2>2 DEF Listed, Range
<1> QED
  BY <1>2, <1>3, <1>4, <1>5

LEMMA ObjectFacts ==
    ASSUME layout \in Layouts, NEW o \in Objects
    PROVE  /\ Is(o).base \in Nat /\ Is(o).interp \in BOOLEAN
           /\ Is(o).plt \in Nat /\ Is(o).behind \in Nat
           /\ Is(o).segs \in Seq(Segment) /\ Binds(o) \in Seq(Nat)
           /\ DOMAIN Binds(o) = 1 .. Len(Binds(o)) /\ Len(Binds(o)) \in Nat
           /\ \A i \in DOMAIN Binds(o) : Binds(o)[i] \in Nat
<1>1. layout.objects \in Seq(Object) /\ o \in 1 .. Len(layout.objects)
  BY LayoutFacts
<1>2. Is(o) \in Object
  BY <1>1, ElementOfSeq DEF Is
<1>3. /\ Is(o).base \in Nat /\ Is(o).interp \in BOOLEAN
      /\ Is(o).plt \in Nat /\ Is(o).behind \in Nat
      /\ Is(o).segs \in Seq(Segment) /\ Is(o).binds \in Seq(Nat)
  BY <1>2 DEF Object
<1>4. Binds(o) = Is(o).binds
  BY DEF Binds, Is
<1> QED
  BY <1>3, <1>4, LenProperties, ElementOfSeq

LEMMA SegmentFacts ==
    ASSUME layout \in Layouts, NEW o \in Objects
    PROVE  /\ DOMAIN Is(o).segs = 1 .. Len(Is(o).segs) /\ Len(Is(o).segs) \in Nat
           /\ \A p \in DOMAIN Is(o).segs :
                 /\ Is(o).segs[p].lo \in Nat /\ Is(o).segs[p].hi \in Nat
                 /\ Is(o).base <= Is(o).segs[p].lo
                 /\ Is(o).segs[p].lo <= Is(o).segs[p].hi
           /\ \A p, q \in DOMAIN Is(o).segs :
                 p < q => Is(o).segs[p].hi <= Is(o).segs[q].lo
<1>1. Is(o).segs \in Seq(Segment)
  BY ObjectFacts
<1>2. DOMAIN Is(o).segs = 1 .. Len(Is(o).segs) /\ Len(Is(o).segs) \in Nat
  BY <1>1, LenProperties
<1>3. ASSUME NEW p \in DOMAIN Is(o).segs
      PROVE  Is(o).segs[p].lo \in Nat /\ Is(o).segs[p].hi \in Nat
  <2>1. Is(o).segs[p] \in Segment
    BY <1>1, <1>2, ElementOfSeq
  <2> QED
    BY <2>1 DEF Segment
<1>4. ImageFits(layout, o)
  BY LayoutsAssumption DEF Objects
<1> QED
  BY <1>2, <1>3, <1>4 DEF ImageFits, Is

LEMMA ImagesApart ==
    ASSUME layout \in Layouts, NEW o \in Objects, NEW other \in Objects, o # other
    PROVE  Before(Is(o), Is(other)) \/ Before(Is(other), Is(o))
<1>1. ImageFits(layout, o)
  BY LayoutsAssumption DEF Objects
<1> QED
  BY <1>1 DEF ImageFits, Is, Objects

LEMMA PltFacts ==
    ASSUME layout \in Layouts, NEW o \in Objects, Hooked(o)
    PROVE  Is(o).plt > 0 /\ Len(Binds(o)) >= 1
<1>1. ImageFits(layout, o)
  BY LayoutsAssumption DEF Objects
<1>2. Binds(o) \in Seq(Nat) /\ Binds(o) # <<>>
  BY ObjectFacts DEF Hooked
<1>3. Len(Binds(o)) >= 1
  BY <1>2, EmptySeq, LenProperties
<1> QED
  BY <1>1, <1>3 DEF ImageFits, Is, Hooked, Binds

LEMMA ExeFacts ==
    ASSUME layout \in Layouts
    PROVE  Trusted(Exe) /\ Len(Binds(Exe)) >= 2 /\ Hooked(Exe)
<1>1. LinksFit(layout)
  BY LayoutsAssumption
<1>2. Is(Exe).base = 0 /\ Len(Binds(Exe)) >= 2
  BY <1>1 DEF LinksFit, Is, Binds
<1>3. Binds(Exe) # <<>>
  <2>1. Binds(Exe) \in Seq(Nat)
    BY LayoutFacts, ObjectFacts
  <2> QED
    BY <1>2, <2>1, EmptySeq
<1> QED
  BY <1>2, <1>3, PlacesAssumption DEF Trusted, Hooked

-----------------------------------------------------------------------------
(***************************************************************************)
(* Where a function is.                                                    *)
(***************************************************************************)
\* An address in a segment tells the object.
Holds(o, a) ==
    \E p \in DOMAIN Is(o).segs : Is(o).segs[p].lo <= a /\ a < Is(o).segs[p].hi

LEMMA HoldsUnique ==
    ASSUME layout \in Layouts, NEW a \in Nat, NEW o \in Objects, NEW x \in Objects,
           Holds(o, a), Holds(x, a)
    PROVE  o = x
<1> SUFFICES ASSUME o # x PROVE FALSE
  OBVIOUS
<1>1. PICK p \in DOMAIN Is(o).segs : Is(o).segs[p].lo <= a /\ a < Is(o).segs[p].hi
  BY DEF Holds
<1>2. PICK q \in DOMAIN Is(x).segs : Is(x).segs[q].lo <= a /\ a < Is(x).segs[q].hi
  BY DEF Holds
<1>3. \/ Is(o).segs[p].hi <= Is(x).segs[q].lo
      \/ Is(x).segs[q].hi <= Is(o).segs[p].lo
  BY ImagesApart DEF Before
<1>4. /\ Is(o).segs[p].lo \in Nat /\ Is(o).segs[p].hi \in Nat
      /\ Is(x).segs[q].lo \in Nat /\ Is(x).segs[q].hi \in Nat
  BY SegmentFacts
<1> QED
  BY <1>1, <1>2, <1>3, <1>4

LEMMA HomeIs ==
    ASSUME layout \in Layouts, NEW a \in Nat, NEW o \in Objects, Holds(o, a)
    PROVE  Home(a) = o
<1>1. Home(a) = CHOOSE x \in Objects : Holds(x, a)
  BY DEF Home, Holds
<1>2. \A x \in Objects : Holds(x, a) => x = o
  BY HoldsUnique
<1> QED
  BY <1>1, <1>2

LEMMA ImplementsHolds ==
    ASSUME layout \in Layouts, NEW a \in Nat, NEW o \in Objects, Implements(Is(o), a)
    PROVE  Holds(o, a)
<1>1. PICK p \in DOMAIN Is(o).segs : Is(o).segs[p].lo < a /\ a < Is(o).segs[p].hi
  BY DEF Implements
<1>2. Is(o).segs[p].lo \in Nat
  BY SegmentFacts
<1> QED
  BY <1>1, <1>2 DEF Holds

\* The function an import is bound to lies in an object of a link map.
LEMMA BindHome ==
    ASSUME layout \in Layouts, NEW o \in Objects, NEW i \in DOMAIN Binds(o)
    PROVE  /\ Binds(o)[i] \in Nat /\ Binds(o)[i] > 0
           /\ Home(Binds(o)[i]) \in Objects /\ Home(Binds(o)[i]) \in Listed
           /\ Implements(Is(Home(Binds(o)[i])), Binds(o)[i])
           /\ o = Exe => Home(Binds(o)[i]) \in Range(layout.first)
<1> DEFINE a == Binds(o)[i]
<1>1. a \in Nat /\ Listed \subseteq Objects
  BY ObjectFacts, LayoutFacts
<1>2. LinksFit(layout)
  BY LayoutsAssumption
<1>3. \E to \in Listed :
         Implements(Is(to), a) /\ (o = Exe => to \in Range(layout.first))
  <2>1. CASE o = Exe
    <3>1. \E to \in Range(layout.first) : Implements(Is(to), a)
      BY <1>2, <2>1 DEF LinksFit, Is, Binds
    <3> QED
      BY <3>1 DEF Listed
  <2>2. CASE o # Exe
    BY <1>2, <2>2 DEF LinksFit, Is, Binds, Listed, Objects
  <2> QED
    BY <2>1, <2>2
<1>4. PICK to \in Listed :
         Implements(Is(to), a) /\ (o = Exe => to \in Range(layout.first))
  BY <1>3
<1>5. to \in Objects
  BY <1>1
<1>6. Home(a) = to
  BY <1>1, <1>4, <1>5, HomeIs, ImplementsHolds
<1>7. a > 0
  <2>1. PICK p \in DOMAIN Is(to).segs : Is(to).segs[p].lo < a
    BY <1>4 DEF Implements
  <2>2. Is(to).segs[p].lo \in Nat
    BY <1>5, SegmentFacts
  <2> QED
    BY <1>1, <2>1, <2>2
<1> QED
  BY <1>1, <1>4, <1>5, <1>6, <1>7

\* A function below _start is a trusted one.
LEMMA LowIsTrusted ==
    ASSUME layout \in Layouts, NEW o \in Objects, NEW i \in DOMAIN Binds(o),
           Binds(o)[i] < Start
    PROVE  Trusted(Home(Binds(o)[i]))
<1> DEFINE a == Binds(o)[i]
           h == Home(a)
<1>1. a \in Nat /\ h \in Objects /\ Implements(Is(h), a) /\ a < Start
  BY BindHome
<1> HIDE DEF a, h
<1>2. PICK p \in DOMAIN Is(h).segs : Is(h).segs[p].lo < a
  BY <1>1 DEF Implements
<1>3. /\ Is(h).segs[p].lo \in Nat /\ Is(h).base <= Is(h).segs[p].lo
      /\ Is(h).base \in Nat
  BY <1>1, SegmentFacts, ObjectFacts
<1>4. Trusted(h)
  BY <1>1, <1>2, <1>3, PlacesAssumption DEF Trusted
<1> QED
  BY <1>4 DEF a, h

-----------------------------------------------------------------------------
(***************************************************************************)
(* The inductive invariant.                                                *)
(***************************************************************************)
\* The link maps are walked to their ends; in stage 2 the rest is the end of
\* the second map.
WalkOK ==
    /\ stage = 1 => Range(layout.first) \subseteq Range(chain) \cup Range(rest)
    /\ stage = 2 =>
          /\ Range(layout.first) \subseteq Range(chain)
          /\ Range(layout.second) \subseteq Range(chain) \cup Range(rest)
          /\ Len(rest) <= Len(layout.second)
          /\ \A k \in DOMAIN rest :
                rest[k] = layout.second[Len(layout.second) - Len(rest) + k]
    /\ mode \in {"link", "run", "dead"} => rest = <<>>
    /\ mode = "link" => stage = 1
    /\ mode \in {"run", "dead"} => stage = 2 \/ layout.second = <<>>

\* The untrusted half of a pair comes from the part of the second link map
\* already walked.
Walked(o) ==
    \E k \in 1 .. Len(layout.second) - Len(rest) : layout.second[k] = o

PairsOK ==
    \A o \in Objects : copy[o] # 0 =>
        /\ stage = 2
        /\ copy[copy[o]] = o
        /\ Is(copy[o]).name = Is(o).name
        /\ Trusted(copy[o]) # Trusted(o)
        /\ Trusted(o) \/ Walked(o)

\* The areas and the addresses of the functions, once an object has a node.
NodesOK ==
    \A o \in Objects :
        /\ areas[o] \in {NoAreas, ModuleMap(Is(o).segs)}
        /\ \A i \in DOMAIN Binds(o) : got[o][i] \in {0, Binds(o)[i]}
        /\ o \in Range(chain) /\ Hooked(o) =>
              /\ areas[o] = ModuleMap(Is(o).segs)
              /\ ~ Is(o).interp => got[o] = Binds(o)

\* Only the GOT of the executable is ever written, and the start of a PLT is
\* read from a word the linker wrote.
FirstWord(o) == IF Len(Binds(o)) >= 2 THEN Is(o).plt ELSE Is(o).behind

PltOK ==
    \A o \in Objects \ {Exe} :
        /\ entries[o] = Lazy(o)
        /\ plt[o] \in {0, FirstWord(o)}
        /\ o \in Range(chain) /\ Hooked(o) /\ ~ Is(o).interp =>
              plt[o] = FirstWord(o)

\* The addresses the entries of the executable may hold.
LowBinds == {Binds(Exe)[k] : k \in {j \in DOMAIN Binds(Exe) : GoesDirect(Binds(Exe)[j])}}
Low == {Is(Exe).plt} \cup LowBinds

ExeOK ==
    /\ plt[Exe] \in {0} \cup Low
    /\ Exe \in Range(chain) /\ ~ Is(Exe).interp => plt[Exe] # 0
    /\ \A i \in DOMAIN Binds(Exe) :
          /\ entries[Exe][i] \in Low
          /\ entries[Exe][i] \in {Is(Exe).plt, Binds(Exe)[i], plt[Exe]}

\* The tables of targets tell where the functions are.
TargetsOK ==
    /\ \A o \in Objects : \A i \in DOMAIN Binds(o) :
          /\ target[o][i] \in {0, Home(Binds(o)[i])}
          /\ isMain[o][i] = TRUE => Trusted(Home(Binds(o)[i]))
    /\ mode \in {"run", "dead"} =>
          \A o \in Range(chain) : \A i \in DOMAIN Binds(o) :
              /\ target[o][i] = AreaOf(got[o][i])
              /\ target[o][i] # 0 => isMain[o][i] = Trusted(target[o][i])

\* Nothing is called before the tables are made.
Quiet == mode \in {"chain", "link", "hung"} => call = NoCall

\* A switch is on for a listed function only, and never for the last two.
SwitchOK == \A i \in DOMAIN switch : switch[i] => Listable(i) /\ i \in listed

DispatchInv ==
    /\ TypeOK /\ WalkOK /\ PairsOK /\ NodesOK /\ PltOK /\ ExeOK /\ TargetsOK
    /\ Quiet /\ SwitchOK /\ LandsHome /\ Mediated /\ CallsArrive

-----------------------------------------------------------------------------
(***************************************************************************)
(* The areas of an object.                                                 *)
(***************************************************************************)
LEMMA SpanFacts ==
    ASSUME layout \in Layouts, NEW o \in Objects, NEW kind \in SUBSET DOMAIN Is(o).segs
    PROVE  /\ Span(Is(o).segs, kind) \in Area
           /\ kind # {} => \E p, q \in kind :
                 Span(Is(o).segs, kind)
                    = [lo |-> Is(o).segs[p].lo, hi |-> Is(o).segs[q].hi]
           /\ \A p \in kind : Inside(Is(o).segs[p], Span(Is(o).segs, kind))
<1> DEFINE S == Is(o).segs
<1>1. /\ DOMAIN S = 1 .. Len(S) /\ Len(S) \in Nat
      /\ \A p \in DOMAIN S : S[p].lo \in Nat /\ S[p].hi \in Nat
      /\ \A p \in DOMAIN S : S[p].lo <= S[p].hi
      /\ \A p, q \in DOMAIN S : p < q => S[p].hi <= S[q].lo
  BY SegmentFacts
<1> HIDE DEF S
<1>2. CASE kind = {}
  BY <1>2 DEF Span, NoArea, Area, S
<1>3. CASE kind # {}
  <2> DEFINE first == Min(kind)
             last == Max(kind)
  <2>1. /\ first \in kind /\ \A p \in kind : first <= p
        /\ last \in kind /\ \A p \in kind : last >= p
    <3>1. kind \in SUBSET (1 .. Len(S)) /\ kind \in SUBSET Nat
      BY <1>1 DEF S
    <3> QED
      BY <1>1, <1>3, <3>1, MinFacts, MaxFacts
  <2>2. Span(S, kind) = [lo |-> S[first].lo, hi |-> S[last].hi]
    BY <1>3 DEF Span
  <2> HIDE DEF first, last
  <2>3. Span(S, kind) \in Area
    BY <1>1, <2>1, <2>2 DEF Area, S
  <2>4. ASSUME NEW p \in kind PROVE Inside(S[p], Span(S, kind))
    <3>1. p \in 1 .. Len(S) /\ first \in 1 .. Len(S) /\ last \in 1 .. Len(S)
      BY <1>1, <2>1 DEF S
    <3>2. S[first].lo <= S[p].lo
      <4>1. CASE first = p
        BY <1>1, <3>1, <4>1
      <4>2. CASE first < p
        BY <1>1, <3>1, <4>2
      <4> QED
        BY <2>1, <3>1, <4>1, <4>2
    <3>3. S[p].hi <= S[last].hi
      <4>1. CASE last = p
        BY <1>1, <3>1, <4>1
      <4>2. CASE p < last
        BY <1>1, <3>1, <4>2
      <4> QED
        BY <2>1, <3>1, <4>1, <4>2
    <3> QED
      BY <2>2, <3>2, <3>3 DEF Inside
  <2> QED
    BY <2>1, <2>2, <2>3, <2>4 DEF S
<1> QED
  BY <1>2, <1>3

\* No segment of another object reaches into an area.
LEMMA SpanApart ==
    ASSUME layout \in Layouts, NEW o \in Objects, NEW kind \in SUBSET DOMAIN Is(o).segs,
           NEW other \in Objects \ {o}, NEW p \in DOMAIN Is(other).segs
    PROVE  Apart(Span(Is(o).segs, kind), Is(other).segs[p])
<1> DEFINE S == Is(o).segs
           seg == Is(other).segs[p]
<1>1. seg.lo \in Nat /\ seg.hi \in Nat
  BY SegmentFacts
<1>2. CASE kind = {}
  BY <1>1, <1>2 DEF Span, NoArea, Apart
<1>3. CASE kind # {}
  <2>1. PICK x, y \in kind : Span(S, kind) = [lo |-> S[x].lo, hi |-> S[y].hi]
    BY <1>3, SpanFacts
  <2>2. Before(Is(o), Is(other)) \/ Before(Is(other), Is(o))
    BY ImagesApart
  <2>3. S[y].hi <= seg.lo \/ seg.hi <= S[x].lo
    BY <2>2 DEF Before
  <2> QED
    BY <2>1, <2>3 DEF Apart
<1> QED
  BY <1>2, <1>3

LEMMA MapType ==
    ASSUME layout \in Layouts, NEW o \in Objects
    PROVE  /\ ModuleMap(Is(o).segs) \in [text : Area, read : Area, write : Area]
           /\ NoAreas \in [text : Area, read : Area, write : Area]
<1> DEFINE S == Is(o).segs
           X == {p \in DOMAIN S : IsText(S[p])}
           R == {p \in DOMAIN S : IsReadOnly(S[p])}
           W == {p \in DOMAIN S : IsWritable(S[p])}
<1>1. Span(S, X) \in Area /\ Span(S, R) \in Area /\ Span(S, W) \in Area
  BY SpanFacts
<1>2. ModuleMap(S) = [text |-> Span(S, X), read |-> Span(S, R), write |-> Span(S, W)]
  BY DEF ModuleMap
<1> HIDE DEF S, X, R, W
<1>3. ModuleMap(S) \in [text : Area, read : Area, write : Area]
  BY <1>1, <1>2
<1>4. NoAreas \in [text : Area, read : Area, write : Area]
  BY DEF NoAreas, NoArea, Area
<1> QED
  BY <1>3, <1>4 DEF S

LEMMA MapText ==
    ASSUME NEW segs
    PROVE  ModuleMap(segs).text = Span(segs, {p \in DOMAIN segs : IsText(segs[p])})
  BY DEF ModuleMap

\* A function inside the text area of an object is in that object.
LEMMA TextHome ==
    ASSUME TypeOK, NodesOK, NEW t \in Objects, NEW o \in Objects,
           NEW i \in DOMAIN Binds(o), Between(Binds(o)[i], areas[t].text)
    PROVE  Home(Binds(o)[i]) = t
<1> layout \in Layouts
  BY DEF TypeOK
<1> DEFINE a == Binds(o)[i]
           h == Home(a)
           S == Is(t).segs
           X == {p \in DOMAIN S : IsText(S[p])}
<1>1. a \in Nat /\ h \in Objects /\ Holds(h, a)
  BY BindHome, ImplementsHolds
<1>2. areas[t].text = Span(S, X)
  <2>1. areas[t] # NoAreas
    BY <1>1 DEF NoAreas, NoArea, Between
  <2>2. areas[t] = ModuleMap(Is(t).segs)
    BY <2>1 DEF NodesOK
  <2> QED
    BY <2>2, MapText
<1>3. Span(S, X) \in Area
  BY SpanFacts
<1>4. PICK p \in DOMAIN Is(h).segs : Is(h).segs[p].lo <= a /\ a < Is(h).segs[p].hi
  BY <1>1 DEF Holds
<1>5. Is(h).segs[p].lo \in Nat /\ Is(h).segs[p].hi \in Nat
  BY <1>1, SegmentFacts
<1>6. ASSUME h # t PROVE FALSE
  <2>1. Apart(Span(S, X), Is(h).segs[p])
    BY <1>1, <1>6, SpanApart
  <2>2. Span(S, X).lo < a /\ a < Span(S, X).hi
    BY <1>2 DEF Between
  <2>3. Span(S, X).lo \in Nat /\ Span(S, X).hi \in Nat
    BY <1>3 DEF Area
  <2> HIDE DEF a, h, S, X
  <2> QED
    BY <1>1, <1>4, <1>5, <2>1, <2>2, <2>3 DEF Apart
<1> QED
  BY <1>6

\* The text area of an object with a node has its functions inside.
LEMMA HomeText ==
    ASSUME TypeOK, NodesOK, NEW o \in Objects, NEW i \in DOMAIN Binds(o),
           Home(Binds(o)[i]) \in Range(chain), Hooked(Home(Binds(o)[i]))
    PROVE  Between(Binds(o)[i], areas[Home(Binds(o)[i])].text)
<1> layout \in Layouts
  BY DEF TypeOK
<1> DEFINE a == Binds(o)[i]
           h == Home(a)
           S == Is(h).segs
           X == {p \in DOMAIN S : IsText(S[p])}
<1>1. a \in Nat /\ h \in Objects /\ Implements(Is(h), a)
  BY BindHome
<1>2. areas[h].text = Span(S, X)
  <2>1. areas[h] = ModuleMap(Is(h).segs)
    BY <1>1 DEF NodesOK
  <2> QED
    BY <2>1, MapText
<1>3. PICK p \in X : S[p].lo < a /\ a < S[p].hi
  BY <1>1 DEF Implements
<1>4. S[p].lo \in Nat /\ S[p].hi \in Nat
  BY <1>1, SegmentFacts
<1>5. Inside(S[p], Span(S, X)) /\ Span(S, X) \in Area
  BY <1>1, SpanFacts
<1>6. Span(S, X).lo \in Nat /\ Span(S, X).hi \in Nat
  BY <1>5 DEF Area
<1> HIDE DEF a, S, X
<1>7. Between(a, Span(S, X))
  BY <1>1, <1>3, <1>4, <1>5, <1>6 DEF Between, Inside
<1> QED
  BY <1>2, <1>7 DEF a

-----------------------------------------------------------------------------
(***************************************************************************)
(* The search of _get_area.                                                *)
(***************************************************************************)
LEMMA ChainFacts ==
    ASSUME TypeOK
    PROVE  /\ DOMAIN chain = 1 .. Len(chain) /\ Len(chain) \in Nat
           /\ \A p \in DOMAIN chain : chain[p] \in Objects
           /\ Range(chain) \subseteq Objects
<1>1. chain \in Seq(Objects)
  BY DEF TypeOK
<1>2. DOMAIN chain = 1 .. Len(chain) /\ Len(chain) \in Nat
  BY <1>1, LenProperties
<1>3. ASSUME NEW p \in DOMAIN chain PROVE chain[p] \in Objects
  BY <1>1, <1>2, ElementOfSeq
<1> QED
  BY <1>2, <1>3 DEF Range

LEMMA AreaOfFacts ==
    ASSUME TypeOK, NEW a
    PROVE  \/ /\ AreaOf(a) = 0
              /\ \A t \in Range(chain) : ~ Between(a, areas[t].text)
           \/ /\ AreaOf(a) \in Range(chain) /\ AreaOf(a) \in Objects
              /\ Between(a, areas[AreaOf(a)].text)
<1> layout \in Layouts
  BY DEF TypeOK
<1> DEFINE found == {p \in DOMAIN chain : Between(a, areas[chain[p]].text)}
<1>1. CASE found = {}
  BY <1>1 DEF AreaOf, Range
<1>2. CASE found # {}
  <2>1. found \in SUBSET Nat
    BY ChainFacts
  <2>2. Min(found) \in found
    BY <1>2, <2>1, MinFacts
  <2>3. AreaOf(a) = chain[Min(found)]
    BY <1>2 DEF AreaOf
  <2>4. /\ AreaOf(a) \in Range(chain)
        /\ Between(a, areas[AreaOf(a)].text)
    BY <2>2, <2>3 DEF Range
  <2> QED
    BY <2>4, ChainFacts
<1> QED
  BY <1>1, <1>2

\* For a function, it finds the object the function is in or nothing.
LEMMA AreaOfBind ==
    ASSUME TypeOK, NodesOK, NEW o \in Objects, NEW i \in DOMAIN Binds(o)
    PROVE  /\ AreaOf(Binds(o)[i]) \in {0, Home(Binds(o)[i])}
           /\ Home(Binds(o)[i]) \in Range(chain) /\ Hooked(Home(Binds(o)[i])) =>
                 AreaOf(Binds(o)[i]) # 0
<1> layout \in Layouts
  BY DEF TypeOK
<1> DEFINE a == Binds(o)[i]
<1>1. CASE AreaOf(a) = 0
  <2>1. \A t \in Range(chain) : ~ Between(a, areas[t].text)
    BY <1>1, AreaOfFacts, LayoutFacts
  <2> QED
    BY <1>1, <2>1, HomeText
<1>2. CASE AreaOf(a) # 0
  <2>1. AreaOf(a) \in Objects /\ Between(a, areas[AreaOf(a)].text)
    BY <1>2, AreaOfFacts
  <2> QED
    BY <1>2, <2>1, TextHome
<1> QED
  BY <1>1, <1>2

\* NULL is in no text.
LEMMA AreaOfNull ==
    ASSUME TypeOK
    PROVE  AreaOf(0) = 0
<1> SUFFICES ASSUME AreaOf(0) # 0 PROVE FALSE
  OBVIOUS
<1>1. AreaOf(0) \in Objects /\ Between(0, areas[AreaOf(0)].text)
  BY AreaOfFacts
<1>2. areas[AreaOf(0)].text \in Area
  BY <1>1 DEF TypeOK
<1> QED
  BY <1>1, <1>2 DEF Between, Area

-----------------------------------------------------------------------------
(***************************************************************************)
(* The process stays the same.                                             *)
(***************************************************************************)
LEMMA SameLayout ==
    ASSUME layout' = layout
    PROVE  /\ Objects' = Objects
           /\ \A o : /\ Is(o)' = Is(o) /\ Binds(o)' = Binds(o)
                     /\ Trusted(o)' = Trusted(o) /\ Hooked(o)' = Hooked(o)
                     /\ Lazy(o)' = Lazy(o) /\ FirstWord(o)' = FirstWord(o)
           /\ \A a : Home(a)' = Home(a)
           /\ Low' = Low /\ Listed' = Listed
  BY DEF Objects, Is, Binds, Trusted, Hooked, Lazy, FirstWord, Home, Low,
         LowBinds, Listed

LEMMA SameAreas ==
    ASSUME layout' = layout, chain' = chain, areas' = areas
    PROVE  \A a : AreaOf(a)' = AreaOf(a)
  BY DEF AreaOf

-----------------------------------------------------------------------------
(***************************************************************************)
(* The initial states.                                                     *)
(***************************************************************************)
LEMMA BlankType ==
    ASSUME layout \in Layouts, NEW S, NEW v \in S
    PROVE  /\ PerImport(Blank(v), S)
           /\ \A o \in Objects : \A i \in DOMAIN Binds(o) : Blank(v)[o][i] = v
<1>1. ASSUME NEW o \in Objects
      PROVE  /\ Blank(v)[o] \in Seq(S) /\ Len(Blank(v)[o]) = Len(Binds(o))
             /\ \A i \in DOMAIN Binds(o) : Blank(v)[o][i] = v
  <2>1. DOMAIN Binds(o) = 1 .. Len(Binds(o)) /\ Len(Binds(o)) \in Nat
    BY ObjectFacts
  <2>2. Blank(v)[o] = [i \in 1 .. Len(Binds(o)) |-> v]
    BY <2>1 DEF Blank
  <2>3. Blank(v)[o] \in Seq(S) /\ Len(Blank(v)[o]) = Len(Binds(o))
    BY <2>1, <2>2, IsASeq
  <2> QED
    BY <2>1, <2>2, <2>3
<1>2. Blank(v) \in [Objects -> Seq(S)]
  <2>1. Blank(v) = [o \in Objects |-> [i \in DOMAIN Binds(o) |-> v]]
    BY DEF Blank
  <2>2. \A o \in Objects : [i \in DOMAIN Binds(o) |-> v] \in Seq(S)
    BY <1>1, <2>1
  <2> QED
    BY <2>1, <2>2
<1> QED
  BY <1>1, <1>2 DEF PerImport

LEMMA InitTypeOK == Init => TypeOK
<1> SUFFICES ASSUME Init PROVE TypeOK
  OBVIOUS
<1> layout \in Layouts
  BY DEF Init
<1>1. /\ layout.first \in Seq(Nat) /\ Listed \subseteq Objects
      /\ Exe \in Objects /\ 0 \notin Objects
  BY LayoutFacts
<1>2. chain \in Seq(Objects)
  BY DEF Init
<1>3. rest \in Seq(Objects)
  <2>1. rest = layout.first /\ Range(layout.first) \subseteq Objects
    BY <1>1 DEF Init, Listed
  <2>2. /\ DOMAIN layout.first = 1 .. Len(layout.first)
        /\ Len(layout.first) \in Nat
    BY <1>1, LenProperties
  <2>3. \A i \in 1 .. Len(layout.first) : layout.first[i] \in Objects
    BY <2>1, <2>2 DEF Range
  <2>4. layout.first = [i \in 1 .. Len(layout.first) |-> layout.first[i]]
    BY <1>1, <2>2
  <2>5. [i \in 1 .. Len(layout.first) |-> layout.first[i]] \in Seq(Objects)
    BY <2>2, <2>3, IsASeq
  <2> QED
    BY <2>1, <2>4, <2>5
<1>4. copy \in [Objects -> {0} \cup Objects]
  BY DEF Init
<1>5. areas \in [Objects -> [text : Area, read : Area, write : Area]]
  <2>1. NoAreas \in [text : Area, read : Area, write : Area]
    BY <1>1, MapType
  <2> QED
    BY <2>1 DEF Init
<1>6. plt \in [Objects -> Nat]
  BY DEF Init
<1>7. PerImport(entries, Nat)
  <2>1. ASSUME NEW o \in Objects
        PROVE  Lazy(o) \in Seq(Nat) /\ Len(Lazy(o)) = Len(Binds(o))
    <3>1. DOMAIN Binds(o) = 1 .. Len(Binds(o)) /\ Len(Binds(o)) \in Nat
          /\ Is(o).plt \in Nat
      BY ObjectFacts
    <3>2. Lazy(o) = [i \in 1 .. Len(Binds(o)) |-> Is(o).plt]
      BY <3>1 DEF Lazy
    <3> QED
      BY <3>1, <3>2, IsASeq
  <2>2. entries = [o \in Objects |-> Lazy(o)]
    BY DEF Init
  <2> QED
    BY <2>1, <2>2 DEF PerImport
<1>8. PerImport(got, Nat)
  BY BlankType DEF Init
<1>9. PerImport(target, {0} \cup Objects)
  BY BlankType DEF Init
<1>10. PerImport(isMain, BOOLEAN)
  BY BlankType DEF Init
<1>11. switch \in [DOMAIN Binds(Exe) -> BOOLEAN]
  BY DEF Init
<1>12. /\ stage \in {1, 2} /\ open \in BOOLEAN /\ listed \subseteq DOMAIN Binds(Exe)
       /\ mode \in {"chain", "link", "run", "hung", "dead"}
  BY DEF Init
<1> QED
  BY <1>2, <1>3, <1>4, <1>5, <1>6, <1>7, <1>8, <1>9, <1>10, <1>11, <1>12 DEF TypeOK

\* Without a call there is nothing to say about one.
LEMMA NoCallYet ==
    ASSUME call = NoCall, mode # "dead"
    PROVE  LandsHome /\ Mediated /\ CallsArrive
<1>1. call.to = 0 /\ call.via # "cross"
  BY DEF NoCall
<1> QED
  BY <1>1 DEF LandsHome, Mediated, CallsArrive, Landed

LEMMA InitDispatchInv == Init => DispatchInv
<1> SUFFICES ASSUME Init PROVE DispatchInv
  OBVIOUS
<1> layout \in Layouts
  BY DEF Init
<1>1. /\ Exe \in Objects /\ TypeOK
      /\ \A o \in Objects : \A i \in DOMAIN Binds(o) :
            got[o][i] = 0 /\ target[o][i] = 0 /\ isMain[o][i] = FALSE
  <2>1. got = Blank(0) /\ target = Blank(0) /\ isMain = Blank(FALSE)
    BY DEF Init
  <2> QED
    BY <2>1, LayoutFacts, InitTypeOK, BlankType
<1>2. stage = 1 /\ mode = "chain" /\ call = NoCall /\ rest = layout.first
      /\ chain = <<>> /\ Range(chain) = {}
  BY DEF Init, Range
<1>3. WalkOK
  BY <1>2 DEF WalkOK
<1>4. PairsOK
  BY DEF PairsOK, Init
<1>5. NodesOK
  <2>1. \A o \in Objects : areas[o] = NoAreas
    BY DEF Init
  <2> QED
    BY <1>1, <1>2, <2>1 DEF NodesOK
<1>6. PltOK
  <2>1. \A o \in Objects : plt[o] = 0 /\ entries[o] = Lazy(o)
    BY DEF Init
  <2> QED
    BY <1>2, <2>1 DEF PltOK
<1>7. ExeOK
  <2>1. plt[Exe] = 0 /\ entries[Exe] = Lazy(Exe)
    BY <1>1 DEF Init
  <2>2. \A i \in DOMAIN Binds(Exe) : entries[Exe][i] = Is(Exe).plt
    BY <2>1 DEF Lazy
  <2> QED
    BY <1>2, <2>1, <2>2 DEF ExeOK, Low
<1>8. TargetsOK
  BY <1>1, <1>2 DEF TargetsOK
<1>9. Quiet
  BY <1>2 DEF Quiet
<1>10. LandsHome /\ Mediated /\ CallsArrive
  BY <1>2, NoCallYet
<1>11. SwitchOK
  BY DEF SwitchOK, Init
<1> QED
  BY <1>1, <1>3, <1>4, <1>5, <1>6, <1>7, <1>8, <1>9, <1>10, <1>11 DEF DispatchInv

-----------------------------------------------------------------------------
(***************************************************************************)
(* One step along the link map.                                            *)
(***************************************************************************)
LEMMA RestFacts ==
    ASSUME TypeOK, rest # <<>>
    PROVE  /\ Len(rest) \in Nat /\ Len(rest) >= 1 /\ DOMAIN rest = 1 .. Len(rest)
           /\ Head(rest) = rest[1] /\ Head(rest) \in Objects
           /\ Tail(rest) \in Seq(Objects) /\ Len(Tail(rest)) = Len(rest) - 1
           /\ DOMAIN Tail(rest) = 1 .. Len(rest) - 1
           /\ \A k \in 1 .. Len(rest) - 1 : Tail(rest)[k] = rest[k + 1]
           /\ Range(rest) = {Head(rest)} \cup Range(Tail(rest))
<1>1. rest \in Seq(Objects)
  BY DEF TypeOK
<1>2. /\ Len(rest) \in Nat /\ DOMAIN rest = 1 .. Len(rest) /\ Len(rest) # 0
      /\ \A k \in 1 .. Len(rest) : rest[k] \in Objects
  BY <1>1, LenProperties, EmptySeq, ElementOfSeq
<1>3. /\ Head(rest) = rest[1] /\ Head(rest) \in Objects
      /\ Tail(rest) \in Seq(Objects) /\ Len(Tail(rest)) = Len(rest) - 1
      /\ \A k \in 1 .. Len(rest) - 1 : Tail(rest)[k] = rest[k + 1]
  BY <1>1, <1>2, HeadTailProperties
<1>4. DOMAIN Tail(rest) = 1 .. Len(rest) - 1
  BY <1>3, LenProperties
<1>5. Range(rest) = {Head(rest)} \cup Range(Tail(rest))
  <2>1. ASSUME NEW k \in 1 .. Len(rest)
        PROVE  rest[k] \in {Head(rest)} \cup Range(Tail(rest))
    <3>1. CASE k = 1
      BY <1>3, <3>1
    <3>2. CASE k # 1
      <4>1. k - 1 \in 1 .. Len(rest) - 1 /\ Tail(rest)[k - 1] = rest[k]
        BY <1>2, <1>3, <3>2
      <4> QED
        BY <1>4, <4>1 DEF Range
    <3> QED
      BY <3>1, <3>2
  <2>2. ASSUME NEW k \in 1 .. Len(rest) - 1
        PROVE  Tail(rest)[k] \in Range(rest)
    <3>1. k + 1 \in 1 .. Len(rest) /\ Tail(rest)[k] = rest[k + 1]
      BY <1>2, <1>3
    <3> QED
      BY <1>2, <3>1 DEF Range
  <2>3. Head(rest) \in Range(rest)
    BY <1>2, <1>3 DEF Range
  <2> QED
    BY <1>2, <1>4, <2>1, <2>2, <2>3 DEF Range
<1> QED
  BY <1>2, <1>3, <1>4, <1>5

LEMMA StepWalk ==
    ASSUME TypeOK, WalkOK, mode = "chain", rest # <<>>, layout' = layout,
           stage' = stage, mode' = mode, rest' = Tail(rest),
           Range(chain)' = Range(chain) \cup {Head(rest)}
    PROVE  WalkOK'
<1>1. /\ Len(rest) \in Nat /\ Len(rest) >= 1 /\ DOMAIN rest = 1 .. Len(rest)
      /\ Len(rest') = Len(rest) - 1 /\ DOMAIN rest' = 1 .. Len(rest) - 1
      /\ \A k \in 1 .. Len(rest) - 1 : rest'[k] = rest[k + 1]
      /\ Range(rest) = {Head(rest)} \cup Range(rest')
  BY RestFacts
<1>2. layout.second \in Seq(Nat) /\ Len(layout.second) \in Nat
  <2>1. layout \in Layouts
    BY DEF TypeOK
  <2> QED
    BY <2>1, LayoutFacts, LenProperties
<1>3. CASE stage = 1
  <2>1. Range(layout.first) \subseteq Range(chain) \cup Range(rest)
    BY <1>3 DEF WalkOK
  <2>2. Range(rest)' = Range(rest')
    BY DEF Range
  <2> QED
    BY <1>1, <1>3, <2>1, <2>2 DEF WalkOK
<1>4. CASE stage = 2
  <2>1. /\ Range(layout.first) \subseteq Range(chain)
        /\ Range(layout.second) \subseteq Range(chain) \cup Range(rest)
        /\ Len(rest) <= Len(layout.second)
        /\ \A k \in DOMAIN rest :
              rest[k] = layout.second[Len(layout.second) - Len(rest) + k]
    BY <1>4 DEF WalkOK
  <2>2. Range(rest)' = Range(rest')
    BY DEF Range
  <2>3. Len(rest') <= Len(layout.second)
    BY <1>1, <1>2, <2>1
  <2>4. ASSUME NEW k \in DOMAIN rest'
        PROVE  rest'[k] = layout.second[Len(layout.second) - Len(rest') + k]
    <3>1. k \in 1 .. Len(rest) - 1 /\ k + 1 \in 1 .. Len(rest)
      BY <1>1
    <3>2. rest'[k] = layout.second[Len(layout.second) - Len(rest) + (k + 1)]
      BY <1>1, <2>1, <3>1
    <3>3. Len(layout.second) - Len(rest) + (k + 1)
             = Len(layout.second) - Len(rest') + k
      BY <1>1, <1>2, <3>1
    <3> QED
      BY <3>2, <3>3
  <2> QED
    BY <1>1, <1>4, <2>1, <2>2, <2>3, <2>4 DEF WalkOK
<1> QED
  BY <1>3, <1>4 DEF TypeOK

\* What was walked stays so.
LEMMA StepWalked ==
    ASSUME TypeOK, WalkOK, stage = 2, rest # <<>>, layout' = layout,
           rest' = Tail(rest)
    PROVE  /\ \A o : Walked(o) \/ o = Head(rest) => Walked(o)'
           /\ \E n \in DOMAIN layout.second :
                 /\ layout.second[n] = Head(rest)
                 /\ \A o : Walked(o) => \E k \in DOMAIN layout.second \ {n} :
                                            layout.second[k] = o
<1> DEFINE N == Len(layout.second)
           R == Len(rest)
<1>1. /\ R \in Nat /\ R >= 1 /\ DOMAIN rest = 1 .. R
      /\ Len(rest') = R - 1 /\ Head(rest) = rest[1]
  BY RestFacts
<1>2. N \in Nat /\ DOMAIN layout.second = 1 .. N
  <2>1. layout \in Layouts
    BY DEF TypeOK
  <2> QED
    BY <2>1, LayoutFacts, LenProperties
<1>3. R <= N /\ layout.second[N - R + 1] = rest[1]
  BY <1>1 DEF WalkOK
<1> HIDE DEF N, R
<1>4. /\ \A o : Walked(o) <=> \E k \in 1 .. N - R : layout.second[k] = o
      /\ \A o : Walked(o)' <=> \E k \in 1 .. N - (R - 1) : layout.second[k] = o
  BY <1>1 DEF Walked, N, R
<1>5. 1 .. N - R \subseteq 1 .. N - (R - 1) /\ N - R + 1 \in 1 .. N - (R - 1)
      /\ N - R + 1 \in 1 .. N /\ 1 .. N - R \subseteq (1 .. N) \ {N - R + 1}
  BY <1>1, <1>2, <1>3
<1>6. \A o : Walked(o) => Walked(o)'
  BY <1>4, <1>5
<1>7. \A o : o = Head(rest) => Walked(o)'
  BY <1>1, <1>3, <1>4, <1>5
<1>8. ASSUME NEW o, Walked(o)
      PROVE  \E k \in DOMAIN layout.second \ {N - R + 1} : layout.second[k] = o
  BY <1>2, <1>4, <1>5, <1>8
<1>9. /\ N - R + 1 \in DOMAIN layout.second
      /\ layout.second[N - R + 1] = Head(rest)
  BY <1>1, <1>2, <1>3, <1>5
<1> QED
  BY <1>6, <1>7, <1>8, <1>9

-----------------------------------------------------------------------------
(***************************************************************************)
(* _fill_local_got.                                                        *)
(***************************************************************************)
LEMMA ImportFacts ==
    ASSUME layout \in Layouts, NEW S, NEW table, PerImport(table, S),
           NEW o \in Objects
    PROVE  /\ DOMAIN table[o] = DOMAIN Binds(o) /\ table[o] \in Seq(S)
           /\ \A i \in DOMAIN Binds(o) : table[o][i] \in S
<1>1. table[o] \in Seq(S) /\ Len(table[o]) = Len(Binds(o))
  BY DEF PerImport
<1>2. DOMAIN Binds(o) = 1 .. Len(Binds(o))
  BY ObjectFacts
<1> QED
  BY <1>1, <1>2, LenProperties, ElementOfSeq

LEMMA LowFacts ==
    ASSUME layout \in Layouts
    PROVE  \A a \in Low : a \in Nat /\ a > 0
<1>1. Exe \in Objects
  BY LayoutFacts
<1>2. Is(Exe).plt \in Nat /\ Is(Exe).plt > 0
  BY <1>1, ObjectFacts, ExeFacts, PltFacts
<1>3. \A i \in DOMAIN Binds(Exe) : Binds(Exe)[i] \in Nat /\ Binds(Exe)[i] > 0
  BY <1>1, BindHome
<1> QED
  BY <1>2, <1>3 DEF Low, LowBinds

LEMMA WordFacts ==
    ASSUME TypeOK, PltOK, ExeOK, NEW o \in Objects
    PROVE  /\ PltWord(o) \in Nat
           /\ o # Exe => PltWord(o) = FirstWord(o)
           /\ o = Exe => PltWord(o) \in Low
<1> layout \in Layouts
  BY DEF TypeOK
<1>1. /\ DOMAIN Binds(o) = 1 .. Len(Binds(o)) /\ Len(Binds(o)) \in Nat
      /\ Is(o).plt \in Nat /\ Is(o).behind \in Nat
  BY ObjectFacts
<1>2. CASE o # Exe
  <2>1. ASSUME Len(Binds(o)) >= 2 PROVE entries[o][2] = Is(o).plt
    <3>1. 2 \in DOMAIN Binds(o)
      BY <1>1, <2>1
    <3>2. entries[o] = Lazy(o)
      BY <1>2 DEF PltOK
    <3> QED
      BY <3>1, <3>2 DEF Lazy
  <2>2. PltWord(o) = FirstWord(o)
    BY <2>1 DEF PltWord, FirstWord
  <2>3. FirstWord(o) \in Nat
    BY <1>1 DEF FirstWord
  <2> QED
    BY <1>2, <2>2, <2>3
<1>3. CASE o = Exe
  <2>1. Len(Binds(Exe)) >= 2 /\ 2 \in DOMAIN Binds(Exe)
    BY <1>1, <1>3, ExeFacts
  <2>2. PltWord(Exe) = entries[Exe][2] /\ entries[Exe][2] \in Low
    BY <2>1 DEF PltWord, ExeOK
  <2> QED
    BY <1>3, <2>2, LowFacts
<1> QED
  BY <1>2, <1>3

LEMMA FillStep ==
    ASSUME TypeOK, PltOK, ExeOK, NEW o \in Objects, FillGot(o)
    PROVE  /\ plt' \in [Objects -> Nat]
           /\ PerImport(entries', Nat) /\ PerImport(got', Nat)
           /\ \A x \in Objects \ {o} :
                 got'[x] = got[x] /\ plt'[x] = plt[x] /\ entries'[x] = entries[x]
           /\ got'[o] \in {got[o], Binds(o)}
           /\ ~ Is(o).interp => got'[o] = Binds(o)
           /\ o # Exe =>
                 /\ entries' = entries /\ plt'[o] \in {plt[o], FirstWord(o)}
                 /\ ~ Is(o).interp => plt'[o] = FirstWord(o)
           /\ o = Exe =>
                 /\ Is(o).interp => UNCHANGED gots
                 /\ ~ Is(o).interp =>
                       /\ plt'[Exe] \in Low
                       /\ \A i \in DOMAIN Binds(Exe) :
                             /\ entries'[Exe][i] \in Low
                             /\ entries'[Exe][i] \in {Binds(Exe)[i], plt'[Exe]}
<1> layout \in Layouts
  BY DEF TypeOK
<1>1. /\ plt \in [Objects -> Nat]
      /\ PerImport(entries, Nat) /\ PerImport(got, Nat)
  BY DEF TypeOK
<1>2. CASE Is(o).interp
  <2>1. UNCHANGED gots /\ plt' = plt /\ got' = got /\ entries' = entries
    BY <1>2 DEF FillGot, gots
  <2> QED
    BY <1>1, <1>2, <2>1
<1>3. CASE ~ Is(o).interp
  <2> DEFINE word == PltWord(o)
             row == [i \in DOMAIN Binds(o) |->
                        IF GoesDirect(Binds(o)[i]) THEN Binds(o)[i] ELSE word]
  <2>1. /\ plt' = [plt EXCEPT ![o] = word]
        /\ got' = [got EXCEPT ![o] = Binds(o)]
        /\ entries' = IF o = Exe THEN [entries EXCEPT ![o] = row] ELSE entries
    BY <1>3 DEF FillGot
  <2>2. /\ word \in Nat /\ (o # Exe => word = FirstWord(o))
        /\ (o = Exe => word \in Low)
    BY WordFacts
  <2>3. /\ DOMAIN Binds(o) = 1 .. Len(Binds(o)) /\ Len(Binds(o)) \in Nat
        /\ Binds(o) \in Seq(Nat) /\ \A i \in DOMAIN Binds(o) : Binds(o)[i] \in Nat
    BY ObjectFacts
  <2> HIDE DEF word
  <2>4. row \in Seq(Nat) /\ Len(row) = Len(Binds(o))
    <3>1. \A i \in 1 .. Len(Binds(o)) : row[i] \in Nat
      BY <2>2, <2>3
    <3>2. row = [i \in 1 .. Len(Binds(o)) |-> row[i]]
      BY <2>3
    <3> HIDE DEF row
    <3> QED
      BY <2>3, <3>1, <3>2, IsASeq
  <2>5. \A i \in DOMAIN Binds(o) :
           /\ row[i] \in {Binds(o)[i], word}
           /\ o = Exe => row[i] \in Low
    BY <2>2 DEF Low, LowBinds
  <2> HIDE DEF row
  <2>6. plt' \in [Objects -> Nat]
    BY <1>1, <2>1, <2>2
  <2>7. PerImport(entries', Nat)
    <3>1. CASE o = Exe
      BY <1>1, <2>1, <2>4, <3>1 DEF PerImport
    <3>2. CASE o # Exe
      BY <1>1, <2>1, <3>2
    <3> QED
      BY <3>1, <3>2
  <2>8. PerImport(got', Nat)
    BY <1>1, <2>1, <2>3 DEF PerImport
  <2>9. /\ got \in [Objects -> Seq(Nat)] /\ entries \in [Objects -> Seq(Nat)]
    BY <1>1 DEF PerImport
  <2>10. \A x \in Objects \ {o} :
            got'[x] = got[x] /\ plt'[x] = plt[x] /\ entries'[x] = entries[x]
    BY <1>1, <2>1, <2>9
  <2>11. got'[o] = Binds(o) /\ plt'[o] = word
    BY <1>1, <2>1, <2>9
  <2>12. o = Exe => entries'[Exe] = row
    BY <2>1, <2>9
  <2> QED
    BY <1>3, <2>1, <2>2, <2>5, <2>6, <2>7, <2>8, <2>10, <2>11, <2>12
<1> QED
  BY <1>2, <1>3

LEMMA StepGots ==
    ASSUME TypeOK, PltOK, ExeOK, layout' = layout, NEW o \in Objects,
           Range(chain)' = Range(chain) \cup {o},
           IF Hooked(o) THEN FillGot(o) ELSE UNCHANGED gots
    PROVE  /\ PltOK' /\ ExeOK'
           /\ plt' \in [Objects -> Nat]
           /\ PerImport(entries', Nat) /\ PerImport(got', Nat)
<1> layout \in Layouts
  BY DEF TypeOK
<1>1. /\ Exe \in Objects /\ Hooked(Exe) /\ Objects' = Objects /\ Low' = Low
      /\ \A x : /\ Is(x)' = Is(x) /\ Binds(x)' = Binds(x) /\ Hooked(x)' = Hooked(x)
                /\ Lazy(x)' = Lazy(x) /\ FirstWord(x)' = FirstWord(x)
  BY LayoutFacts, ExeFacts, SameLayout
<1>2. CASE ~ Hooked(o)
  <2>1. plt' = plt /\ got' = got /\ entries' = entries
    BY <1>2 DEF gots
  <2>2. PltOK'
    BY <1>1, <1>2, <2>1 DEF PltOK
  <2>3. ExeOK'
    BY <1>1, <1>2, <2>1 DEF ExeOK
  <2> QED
    BY <2>1, <2>2, <2>3 DEF TypeOK
<1>3. CASE Hooked(o)
  <2>1. /\ plt' \in [Objects -> Nat]
        /\ PerImport(entries', Nat) /\ PerImport(got', Nat)
        /\ \A x \in Objects \ {o} : plt'[x] = plt[x] /\ entries'[x] = entries[x]
    BY <1>3, FillStep
  <2>2. o # Exe =>
            /\ entries' = entries /\ plt'[o] \in {plt[o], FirstWord(o)}
            /\ ~ Is(o).interp => plt'[o] = FirstWord(o)
    BY <1>3, FillStep
  <2>3. o = Exe =>
            /\ Is(o).interp => UNCHANGED gots
            /\ ~ Is(o).interp =>
                  /\ plt'[Exe] \in Low
                  /\ \A i \in DOMAIN Binds(Exe) :
                        /\ entries'[Exe][i] \in Low
                        /\ entries'[Exe][i] \in {Binds(Exe)[i], plt'[Exe]}
    BY <1>3, FillStep
  <2>4. PltOK'
    <3> SUFFICES ASSUME NEW x \in Objects \ {Exe}
                 PROVE  /\ entries'[x] = Lazy(x)
                        /\ plt'[x] \in {0, FirstWord(x)}
                        /\ x \in Range(chain)' /\ Hooked(x) /\ ~ Is(x).interp =>
                              plt'[x] = FirstWord(x)
      BY <1>1 DEF PltOK
    <3>1. /\ entries[x] = Lazy(x)
          /\ plt[x] \in {0, FirstWord(x)}
          /\ x \in Range(chain) /\ Hooked(x) /\ ~ Is(x).interp =>
                plt[x] = FirstWord(x)
      BY DEF PltOK
    <3>2. CASE x = o
      BY <2>2, <3>1, <3>2
    <3>3. CASE x # o
      BY <2>1, <3>1, <3>3
    <3> QED
      BY <3>2, <3>3
  <2>5. ExeOK'
    <3> SUFFICES /\ plt'[Exe] \in {0} \cup Low
                 /\ Exe \in Range(chain)' /\ ~ Is(Exe).interp => plt'[Exe] # 0
                 /\ \A i \in DOMAIN Binds(Exe) :
                       /\ entries'[Exe][i] \in Low
                       /\ entries'[Exe][i] \in {Is(Exe).plt, Binds(Exe)[i], plt'[Exe]}
      BY <1>1 DEF ExeOK
    <3>1. /\ plt[Exe] \in {0} \cup Low
          /\ Exe \in Range(chain) /\ ~ Is(Exe).interp => plt[Exe] # 0
          /\ \A i \in DOMAIN Binds(Exe) :
                /\ entries[Exe][i] \in Low
                /\ entries[Exe][i] \in {Is(Exe).plt, Binds(Exe)[i], plt[Exe]}
      BY DEF ExeOK
    <3>2. CASE o # Exe
      BY <1>1, <2>1, <3>1, <3>2
    <3>3. CASE o = Exe /\ Is(Exe).interp
      BY <2>3, <3>1, <3>3 DEF gots
    <3>4. CASE o = Exe /\ ~ Is(Exe).interp
      BY <2>3, <3>4, LowFacts
    <3> QED
      BY <3>2, <3>3, <3>4
  <2> QED
    BY <2>1, <2>4, <2>5
<1> QED
  BY <1>2, <1>3

LEMMA StepNodes ==
    ASSUME TypeOK, PltOK, ExeOK, NodesOK, layout' = layout, NEW o \in Objects,
           Range(chain)' = Range(chain) \cup {o},
           IF Hooked(o) THEN FillGot(o) ELSE UNCHANGED gots,
           \A x \in Objects \ {o} : areas'[x] = areas[x],
           areas'[o] \in {areas[o], ModuleMap(Is(o).segs)},
           Hooked(o) => areas'[o] = ModuleMap(Is(o).segs)
    PROVE  NodesOK'
<1>1. /\ Objects' = Objects
      /\ \A x : Is(x)' = Is(x) /\ Binds(x)' = Binds(x) /\ Hooked(x)' = Hooked(x)
  BY SameLayout
<1> SUFFICES ASSUME NEW x \in Objects
             PROVE  /\ areas'[x] \in {NoAreas, ModuleMap(Is(x).segs)}
                    /\ \A i \in DOMAIN Binds(x) : got'[x][i] \in {0, Binds(x)[i]}
                    /\ x \in Range(chain)' /\ Hooked(x) =>
                          /\ areas'[x] = ModuleMap(Is(x).segs)
                          /\ ~ Is(x).interp => got'[x] = Binds(x)
  BY <1>1 DEF NodesOK
<1>2. /\ areas[x] \in {NoAreas, ModuleMap(Is(x).segs)}
      /\ \A i \in DOMAIN Binds(x) : got[x][i] \in {0, Binds(x)[i]}
      /\ x \in Range(chain) /\ Hooked(x) =>
            /\ areas[x] = ModuleMap(Is(x).segs)
            /\ ~ Is(x).interp => got[x] = Binds(x)
  BY DEF NodesOK
<1>3. CASE x # o
  <2>1. got'[x] = got[x]
    BY <1>3, FillStep DEF gots
  <2> QED
    BY <1>2, <1>3, <2>1
<1>4. CASE x = o /\ Hooked(o)
  <2>1. got'[o] \in {got[o], Binds(o)} /\ (~ Is(o).interp => got'[o] = Binds(o))
    BY <1>4, FillStep
  <2> QED
    BY <1>2, <1>4, <2>1
<1>5. CASE x = o /\ ~ Hooked(o)
  BY <1>2, <1>5 DEF gots
<1> QED
  BY <1>3, <1>4, <1>5

-----------------------------------------------------------------------------
(***************************************************************************)
(* The pairs of originals and copies.                                      *)
(***************************************************************************)
LEMMA KeepPairs ==
    ASSUME TypeOK, PairsOK, layout' = layout, copy' = copy,
           stage = 2 => stage' = 2 /\ \A o : Walked(o) => Walked(o)'
    PROVE  PairsOK'
<1>1. /\ Objects' = Objects
      /\ \A x : Is(x)' = Is(x) /\ Trusted(x)' = Trusted(x)
  BY SameLayout
<1> SUFFICES ASSUME NEW o \in Objects, copy[o] # 0
             PROVE  /\ stage' = 2
                    /\ copy[copy[o]] = o
                    /\ Is(copy[o]).name = Is(o).name
                    /\ Trusted(copy[o]) # Trusted(o)
                    /\ Trusted(o) \/ Walked(o)'
  BY <1>1 DEF PairsOK
<1> QED
  BY DEF PairsOK

\* A new copy and the original found for it have no partners yet.
LEMMA OriginalFacts ==
    ASSUME TypeOK, NEW o \in Objects, Originals(o) # {}
    PROVE  LET original == chain[Min(Originals(o))]
           IN  /\ original \in Objects /\ original \in Range(chain)
               /\ Trusted(original) /\ Is(original).name = Is(o).name
<1>1. Originals(o) \in SUBSET Nat
  BY ChainFacts DEF Originals
<1>2. Min(Originals(o)) \in Originals(o)
  BY <1>1, MinFacts
<1>3. chain[Min(Originals(o))] \in Objects
  BY <1>2, ChainFacts DEF Originals
<1> QED
  BY <1>2, <1>3 DEF Originals, Range

LEMMA NewPair ==
    ASSUME TypeOK, WalkOK, PairsOK, layout' = layout, stage' = stage,
           rest # <<>>, rest' = Tail(rest), NEW o, o = Head(rest),
           NeedsOriginal(o), NEW original \in Objects, Trusted(original),
           Is(original).name = Is(o).name,
           copy' = [copy EXCEPT ![original] = o, ![o] = original]
    PROVE  PairsOK' /\ copy' \in [Objects -> {0} \cup Objects]
<1> layout \in Layouts
  BY DEF TypeOK
<1>1. /\ o \in Objects /\ 0 \notin Objects /\ stage = 2 /\ ~ Trusted(o)
      /\ o # original
  BY RestFacts, LayoutFacts DEF NeedsOriginal
<1>2. copy \in [Objects -> {0} \cup Objects]
  BY DEF TypeOK
<1>3. /\ copy'[original] = o /\ copy'[o] = original
      /\ \A x \in Objects \ {o, original} : copy'[x] = copy[x]
      /\ copy' \in [Objects -> {0} \cup Objects]
  BY <1>1, <1>2
<1>4. PICK n \in DOMAIN layout.second :
         /\ layout.second[n] = o
         /\ \A x : Walked(x) => \E k \in DOMAIN layout.second \ {n} :
                                    layout.second[k] = x
  BY <1>1, StepWalked
<1>5. ASSUME NEW x \in Objects, Walked(x), ~ Trusted(x)
      PROVE  Is(x).name # Is(o).name
  <2>1. PICK k \in DOMAIN layout.second \ {n} : layout.second[k] = x
    BY <1>4, <1>5
  <2>2. \/ layout.objects[x].base < Start
        \/ layout.objects[x].name # layout.objects[o].name
    BY <1>4, <2>1, LayoutsAssumption DEF LinksFit
  <2> QED
    BY <1>5, <2>2 DEF Trusted, Is
<1>6. copy[o] = 0
  <2> SUFFICES ASSUME copy[o] # 0 PROVE FALSE
    OBVIOUS
  <2>1. Walked(o)
    BY <1>1 DEF PairsOK
  <2> QED
    BY <1>1, <1>5, <2>1
<1>7. copy[original] = 0
  <2> SUFFICES ASSUME copy[original] # 0 PROVE FALSE
    OBVIOUS
  <2> DEFINE y == copy[original]
  <2>1. y \in Objects /\ copy[y] = original /\ Is(y).name = Is(o).name /\ ~ Trusted(y)
    BY <1>2 DEF PairsOK
  <2>2. copy[y] # 0
    BY <1>1, <2>1
  <2>3. Walked(y)
    BY <2>1, <2>2 DEF PairsOK
  <2> QED
    BY <1>5, <2>1, <2>3
<1>8. \A x : Walked(x) \/ x = o => Walked(x)'
  BY <1>1, StepWalked
<1>9. /\ Objects' = Objects
      /\ \A x : Is(x)' = Is(x) /\ Trusted(x)' = Trusted(x)
  BY SameLayout
<1>10. ASSUME NEW x \in Objects, copy'[x] # 0
       PROVE  /\ copy'[copy'[x]] = x
              /\ Is(copy'[x]).name = Is(x).name
              /\ Trusted(copy'[x]) # Trusted(x)
              /\ Trusted(x) \/ Walked(x)'
  <2>1. CASE x = o
    BY <1>1, <1>3, <1>8, <2>1
  <2>2. CASE x = original
    BY <1>1, <1>3, <2>2
  <2>3. CASE x \notin {o, original}
    <3>1. /\ copy'[x] = copy[x] /\ copy[x] # 0 /\ copy[copy[x]] = x
          /\ Is(copy[x]).name = Is(x).name /\ Trusted(copy[x]) # Trusted(x)
          /\ Trusted(x) \/ Walked(x)
      BY <1>3, <1>10, <2>3 DEF PairsOK
    <3>2. copy[x] \in Objects \ {o, original}
      BY <1>1, <1>2, <1>6, <1>7, <3>1
    <3> QED
      BY <1>3, <1>8, <3>1, <3>2
  <2> QED
    BY <2>1, <2>2, <2>3
<1> QED
  BY <1>1, <1>3, <1>9, <1>10 DEF PairsOK

-----------------------------------------------------------------------------
(***************************************************************************)
(* The steps that build the tables.                                        *)
(***************************************************************************)
LEMMA KeepTargets ==
    ASSUME TargetsOK, layout' = layout, target' = target, isMain' = isMain,
           mode' \notin {"run", "dead"}
    PROVE  TargetsOK'
<1>1. /\ Objects' = Objects
      /\ \A x : Binds(x)' = Binds(x) /\ Trusted(x)' = Trusted(x)
      /\ \A a : Home(a)' = Home(a)
  BY SameLayout
<1> QED
  BY <1>1 DEF TargetsOK

LEMMA KeepSwitch ==
    ASSUME SwitchOK, layout' = layout, switch' = switch, listed' = listed
    PROVE  SwitchOK'
<1>1. \A i : Listable(i)' = Listable(i)
  BY DEF Listable, Binds, Is
<1> QED
  BY <1>1 DEF SwitchOK

LEMMA KeepQuiet ==
    ASSUME Quiet, mode \in {"chain", "link", "hung"}, call' = call, mode' # "dead",
           SwitchOK, layout' = layout, switch' = switch, listed' = listed
    PROVE  Quiet' /\ SwitchOK' /\ LandsHome' /\ Mediated' /\ CallsArrive'
<1>1. call' = NoCall' /\ NoCall' = NoCall
  BY DEF Quiet, NoCall
<1>2. call'.to = 0 /\ call'.via # "cross"
  BY <1>1 DEF NoCall
<1> QED
  BY <1>1, <1>2, KeepSwitch DEF Quiet, LandsHome, Mediated, CallsArrive, Landed

LEMMA SkipExeInv ==
    ASSUME DispatchInv, SkipExe
    PROVE  DispatchInv'
<1> layout \in Layouts
  BY DEF DispatchInv, TypeOK
<1> USE DEF DispatchInv
<1>1. /\ mode = "chain" /\ rest # <<>> /\ stage = 2 /\ Head(rest) = Exe
      /\ FillGot(Exe) /\ rest' = Tail(rest)
      /\ layout' = layout /\ stage' = stage /\ chain' = chain /\ copy' = copy
      /\ areas' = areas /\ target' = target /\ isMain' = isMain
      /\ switch' = switch /\ open' = open /\ listed' = listed /\ mode' = mode
      /\ call' = call
  BY DEF SkipExe
<1>2. Exe \in Objects /\ Hooked(Exe) /\ Exe \in Range(chain)
  <2>1. Exe \in Range(layout.first)
    <3>1. layout.first # <<>> /\ Head(layout.first) = Exe
          /\ layout.first \in Seq(Nat)
      BY LayoutsAssumption, LayoutFacts DEF LinksFit
    <3>2. DOMAIN layout.first = 1 .. Len(layout.first) /\ Len(layout.first) >= 1
          /\ layout.first[1] = Exe
      BY <3>1, EmptySeq, LenProperties
    <3> QED
      BY <3>2 DEF Range
  <2> QED
    BY <1>1, <2>1, LayoutFacts, ExeFacts DEF WalkOK
<1>3. Range(chain)' = Range(chain) \cup {Exe}
  BY <1>1, <1>2
<1>4. areas[Exe] = ModuleMap(Is(Exe).segs)
  BY <1>2 DEF NodesOK
<1>5. /\ PltOK' /\ ExeOK' /\ plt' \in [Objects -> Nat]
      /\ PerImport(entries', Nat) /\ PerImport(got', Nat)
  BY <1>1, <1>2, <1>3, StepGots
<1>6. NodesOK'
  BY <1>1, <1>2, <1>3, <1>4, StepNodes
<1>7. WalkOK'
  BY <1>1, <1>3, StepWalk
<1>8. PairsOK'
  BY <1>1, StepWalked, KeepPairs
<1>9. TargetsOK'
  BY <1>1, KeepTargets
<1>10. Quiet' /\ SwitchOK' /\ LandsHome' /\ Mediated' /\ CallsArrive'
  BY <1>1, KeepQuiet
<1>11. TypeOK'
  <2>1. rest' \in Seq(Objects)
    BY <1>1, RestFacts
  <2>2. Objects' = Objects /\ \A x : Binds(x)' = Binds(x)
    BY <1>1, SameLayout
  <2> QED
    BY <1>1, <1>5, <2>1, <2>2 DEF TypeOK, PerImport
<1> QED
  BY <1>5, <1>6, <1>7, <1>8, <1>9, <1>10, <1>11

LEMMA AddObjectInv ==
    ASSUME DispatchInv, AddObject
    PROVE  DispatchInv'
<1> layout \in Layouts
  BY DEF DispatchInv, TypeOK
<1> USE DEF DispatchInv
<1> DEFINE o == Head(rest)
<1>1. /\ mode = "chain" /\ rest # <<>> /\ rest' = Tail(rest)
      /\ chain' = Append(chain, o)
      /\ layout' = layout /\ stage' = stage /\ target' = target
      /\ isMain' = isMain /\ switch' = switch /\ open' = open
      /\ listed' = listed /\ mode' = mode /\ call' = call
  BY DEF AddObject
<1>2. IF Hooked(o)
      THEN FillGot(o) /\ areas' = [areas EXCEPT ![o] = ModuleMap(Is(o).segs)]
      ELSE UNCHANGED gots /\ areas' = areas
  BY DEF AddObject
<1>3. IF NeedsOriginal(o)
      THEN /\ Originals(o) # {}
           /\ copy' = [copy EXCEPT ![chain[Min(Originals(o))]] = o,
                                   ![o] = chain[Min(Originals(o))]]
      ELSE copy' = copy
  BY DEF AddObject
<1>4. o \in Objects
  BY <1>1, RestFacts
<1>5. chain' \in Seq(Objects) /\ Range(chain)' = Range(chain) \cup {o}
  <2> HIDE DEF o
  <2>1. chain \in Seq(Objects)
    BY DEF TypeOK
  <2>2. /\ chain' \in Seq(Objects) /\ Len(chain') = Len(chain) + 1
        /\ \A i \in 1 .. Len(chain) : chain'[i] = chain[i]
        /\ chain'[Len(chain) + 1] = o
    BY <1>1, <1>4, <2>1, AppendProperties
  <2>3. /\ DOMAIN chain = 1 .. Len(chain) /\ Len(chain) \in Nat
        /\ DOMAIN chain' = 1 .. Len(chain) + 1
    BY <2>1, <2>2, LenProperties
  <2>4. \A x : x \in Range(chain') <=> x \in Range(chain) \/ x = o
    <3>1. ASSUME NEW i \in 1 .. Len(chain) + 1
          PROVE  chain'[i] \in Range(chain) \/ chain'[i] = o
      <4>1. CASE i \in 1 .. Len(chain)
        BY <2>2, <2>3, <4>1 DEF Range
      <4>2. CASE i = Len(chain) + 1
        BY <2>2, <4>2
      <4> QED
        BY <2>3, <4>1, <4>2
    <3>2. ASSUME NEW i \in 1 .. Len(chain) PROVE chain[i] \in Range(chain')
      <4>1. i \in DOMAIN chain' /\ chain'[i] = chain[i]
        BY <2>2, <2>3
      <4> QED
        BY <4>1 DEF Range
    <3>3. o \in Range(chain')
      <4>1. Len(chain) + 1 \in DOMAIN chain'
        BY <2>3
      <4> QED
        BY <2>2, <4>1 DEF Range
    <3> QED
      BY <2>3, <3>1, <3>2, <3>3 DEF Range
  <2>5. Range(chain)' = Range(chain')
    BY DEF Range
  <2> QED
    BY <2>2, <2>4, <2>5
<1>6. /\ areas' \in [Objects -> [text : Area, read : Area, write : Area]]
      /\ \A x \in Objects \ {o} : areas'[x] = areas[x]
      /\ areas'[o] \in {areas[o], ModuleMap(Is(o).segs)}
      /\ Hooked(o) => areas'[o] = ModuleMap(Is(o).segs)
  <2>1. areas \in [Objects -> [text : Area, read : Area, write : Area]]
    BY DEF TypeOK
  <2>2. ModuleMap(Is(o).segs) \in [text : Area, read : Area, write : Area]
    BY <1>4, MapType
  <2> HIDE DEF o
  <2>3. CASE Hooked(o)
    BY <1>2, <1>4, <2>1, <2>2, <2>3
  <2>4. CASE ~ Hooked(o)
    BY <1>2, <2>1, <2>4
  <2> QED
    BY <2>3, <2>4
<1>7. IF Hooked(o) THEN FillGot(o) ELSE UNCHANGED gots
  BY <1>2
<1> HIDE DEF o
<1>8. /\ PltOK' /\ ExeOK' /\ plt' \in [Objects -> Nat]
      /\ PerImport(entries', Nat) /\ PerImport(got', Nat)
  BY <1>1, <1>4, <1>5, <1>7, StepGots
<1>9. NodesOK'
  BY <1>1, <1>4, <1>5, <1>6, <1>7, StepNodes
<1>10. WalkOK'
  BY <1>1, <1>5, StepWalk DEF o
<1>11. PairsOK' /\ copy' \in [Objects -> {0} \cup Objects]
  <2>1. CASE NeedsOriginal(o)
    <3>1. PICK original \in Objects :
             /\ Trusted(original) /\ Is(original).name = Is(o).name
             /\ copy' = [copy EXCEPT ![original] = o, ![o] = original]
      BY <1>3, <1>4, <2>1, OriginalFacts
    <3> QED
      BY <1>1, <2>1, <3>1, NewPair DEF o
  <2>2. CASE ~ NeedsOriginal(o)
    <3>1. copy' = copy
      BY <1>3, <2>2
    <3> QED
      BY <1>1, <3>1, StepWalked, KeepPairs DEF TypeOK
  <2> QED
    BY <2>1, <2>2
<1>12. TargetsOK'
  BY <1>1, KeepTargets
<1>13. Quiet' /\ SwitchOK' /\ LandsHome' /\ Mediated' /\ CallsArrive'
  BY <1>1, KeepQuiet
<1>14. TypeOK'
  <2>1. rest' \in Seq(Objects)
    BY <1>1, RestFacts
  <2>2. Objects' = Objects /\ \A x : Binds(x)' = Binds(x)
    BY <1>1, SameLayout
  <2> QED
    BY <1>1, <1>5, <1>6, <1>8, <1>11, <2>1, <2>2 DEF TypeOK, PerImport
<1> QED
  BY <1>8, <1>9, <1>10, <1>11, <1>12, <1>13, <1>14

LEMMA HangInv ==
    ASSUME DispatchInv, Hang
    PROVE  DispatchInv'
<1> USE DEF DispatchInv
<1>1. /\ mode = "chain" /\ mode' = "hung" /\ layout' = layout /\ stage' = stage
      /\ rest' = rest /\ chain' = chain /\ copy' = copy /\ areas' = areas
      /\ entries' = entries /\ plt' = plt /\ got' = got /\ target' = target
      /\ isMain' = isMain /\ switch' = switch /\ open' = open
      /\ listed' = listed /\ call' = call
  BY DEF Hang, tables, gots
<1>2. /\ Objects' = Objects /\ Low' = Low
      /\ \A x : /\ Is(x)' = Is(x) /\ Binds(x)' = Binds(x) /\ Hooked(x)' = Hooked(x)
                /\ Lazy(x)' = Lazy(x) /\ FirstWord(x)' = FirstWord(x)
  BY <1>1, SameLayout
<1>3. TypeOK'
  BY <1>1, <1>2 DEF TypeOK, PerImport
<1>4. WalkOK'
  BY <1>1 DEF WalkOK
<1>5. PairsOK'
  <2>1. \A o : Walked(o)' = Walked(o)
    BY <1>1 DEF Walked
  <2> QED
    BY <1>1, <2>1, KeepPairs
<1>6. NodesOK' /\ PltOK' /\ ExeOK'
  BY <1>1, <1>2 DEF NodesOK, PltOK, ExeOK
<1>7. TargetsOK'
  BY <1>1, KeepTargets
<1>8. Quiet' /\ SwitchOK' /\ LandsHome' /\ Mediated' /\ CallsArrive'
  BY <1>1, KeepQuiet
<1> QED
  BY <1>3, <1>4, <1>5, <1>6, <1>7, <1>8

LEMMA TargetFacts ==
    ASSUME TypeOK, NodesOK, TargetsOK
    PROVE  /\ PerImport(Targets, {0} \cup Objects)
           /\ \A o \in Objects : \A i \in DOMAIN Binds(o) :
                 /\ Targets[o][i] \in {0, Home(Binds(o)[i])}
                 /\ o \in Range(chain) => Targets[o][i] = AreaOf(got[o][i])
<1> layout \in Layouts
  BY DEF TypeOK
<1>1. ASSUME NEW o \in Objects
      PROVE  /\ Targets[o] \in Seq({0} \cup Objects)
             /\ Len(Targets[o]) = Len(Binds(o))
             /\ \A i \in DOMAIN Binds(o) :
                   /\ Targets[o][i] \in {0, Home(Binds(o)[i])}
                   /\ o \in Range(chain) => Targets[o][i] = AreaOf(got[o][i])
  <2>1. /\ PerImport(got, Nat) /\ PerImport(target, {0} \cup Objects)
    BY DEF TypeOK
  <2>2. /\ DOMAIN got[o] = DOMAIN Binds(o)
        /\ target[o] \in Seq({0} \cup Objects) /\ Len(target[o]) = Len(Binds(o))
    BY <2>1, ImportFacts DEF PerImport
  <2>3. DOMAIN Binds(o) = 1 .. Len(Binds(o)) /\ Len(Binds(o)) \in Nat
    BY ObjectFacts
  <2>4. CASE o \in Range(chain)
    <3>1. Targets[o] = [i \in 1 .. Len(Binds(o)) |-> AreaOf(got[o][i])]
      BY <2>2, <2>3, <2>4 DEF Targets
    <3>2. ASSUME NEW i \in 1 .. Len(Binds(o))
          PROVE  /\ AreaOf(got[o][i]) \in {0, Home(Binds(o)[i])}
                 /\ AreaOf(got[o][i]) \in {0} \cup Objects
      <4>1. got[o][i] \in {0, Binds(o)[i]}
        BY <2>3 DEF NodesOK
      <4>2. AreaOf(got[o][i]) \in {0} \cup Objects
        BY AreaOfFacts
      <4>3. AreaOf(got[o][i]) \in {0, Home(Binds(o)[i])}
        BY <2>3, <4>1, AreaOfBind, AreaOfNull
      <4> QED
        BY <4>2, <4>3
    <3>3. Targets[o] \in Seq({0} \cup Objects) /\ Len(Targets[o]) = Len(Binds(o))
      BY <2>3, <3>1, <3>2, IsASeq
    <3> QED
      BY <2>3, <3>1, <3>2, <3>3
  <2>5. CASE o \notin Range(chain)
    <3>1. Targets[o] = target[o]
      BY <2>5 DEF Targets
    <3> QED
      BY <2>2, <2>5, <3>1 DEF TargetsOK
  <2> QED
    BY <2>4, <2>5
<1>2. Targets \in [Objects -> Seq({0} \cup Objects)]
  <2>1. Targets = [o \in Objects |-> Targets[o]]
    BY DEF Targets
  <2> QED
    BY <1>1, <2>1
<1> QED
  BY <1>1, <1>2 DEF PerImport

LEMMA FillTargetsInv ==
    ASSUME DispatchInv, FillTargets
    PROVE  DispatchInv'
<1> layout \in Layouts
  BY DEF DispatchInv, TypeOK
<1> USE DEF DispatchInv
<1>1. /\ mode = "chain" /\ rest = <<>> /\ target' = Targets
      /\ mode' = IF stage = 1 /\ layout.second # <<>> THEN "link" ELSE "run"
      /\ layout' = layout /\ stage' = stage /\ rest' = rest /\ chain' = chain
      /\ copy' = copy /\ areas' = areas /\ entries' = entries /\ plt' = plt
      /\ got' = got /\ switch' = switch /\ open' = open /\ listed' = listed
      /\ call' = call
  BY DEF FillTargets, gots
<1>2. isMain' = [o \in Objects |-> [i \in DOMAIN Targets[o] |->
                    IF Targets[o][i] = 0 THEN isMain[o][i]
                    ELSE Trusted(Targets[o][i])]]
  BY DEF FillTargets
<1>3. /\ Objects' = Objects /\ Low' = Low
      /\ \A x : /\ Is(x)' = Is(x) /\ Binds(x)' = Binds(x) /\ Hooked(x)' = Hooked(x)
                /\ Lazy(x)' = Lazy(x) /\ FirstWord(x)' = FirstWord(x)
                /\ Trusted(x)' = Trusted(x)
      /\ \A a : Home(a)' = Home(a) /\ AreaOf(a)' = AreaOf(a)
  BY <1>1, SameLayout, SameAreas
<1>4. /\ PerImport(Targets, {0} \cup Objects)
      /\ \A o \in Objects : \A i \in DOMAIN Binds(o) :
            /\ Targets[o][i] \in {0, Home(Binds(o)[i])}
            /\ o \in Range(chain) => Targets[o][i] = AreaOf(got[o][i])
  BY TargetFacts
<1>5. ASSUME NEW o \in Objects
      PROVE  /\ isMain'[o] \in Seq(BOOLEAN) /\ Len(isMain'[o]) = Len(Binds(o))
             /\ \A i \in DOMAIN Binds(o) : isMain'[o][i] =
                   IF Targets[o][i] = 0 THEN isMain[o][i] ELSE Trusted(Targets[o][i])
  <2>1. /\ DOMAIN Targets[o] = DOMAIN Binds(o)
        /\ DOMAIN Binds(o) = 1 .. Len(Binds(o)) /\ Len(Binds(o)) \in Nat
    BY <1>4, ImportFacts, ObjectFacts
  <2>2. isMain'[o] = [i \in 1 .. Len(Binds(o)) |->
                         IF Targets[o][i] = 0 THEN isMain[o][i]
                         ELSE Trusted(Targets[o][i])]
    BY <1>2, <2>1
  <2>3. PerImport(isMain, BOOLEAN)
    BY DEF TypeOK
  <2>4. ASSUME NEW i \in 1 .. Len(Binds(o))
        PROVE  (IF Targets[o][i] = 0 THEN isMain[o][i] ELSE Trusted(Targets[o][i]))
                  \in BOOLEAN
    <3>1. isMain[o][i] \in BOOLEAN
      BY <2>1, <2>3, ImportFacts
    <3>2. Trusted(Targets[o][i]) \in BOOLEAN
      BY DEF Trusted
    <3> QED
      BY <3>1, <3>2
  <2>5. isMain'[o] \in Seq(BOOLEAN) /\ Len(isMain'[o]) = Len(Binds(o))
    BY <2>1, <2>2, <2>4, IsASeq
  <2> QED
    BY <2>1, <2>2, <2>5
<1>6. TypeOK'
  <2>1. PerImport(isMain', BOOLEAN)
    <3>1. isMain' = [o \in Objects |-> isMain'[o]]
      BY <1>2
    <3>2. isMain' \in [Objects -> Seq(BOOLEAN)]
      BY <1>5, <3>1
    <3> QED
      BY <1>5, <3>2 DEF PerImport
  <2>2. mode' \in {"chain", "link", "run", "hung", "dead"}
    BY <1>1
  <2> QED
    BY <1>1, <1>3, <1>4, <2>1, <2>2 DEF TypeOK, PerImport
<1>7. WalkOK'
  BY <1>1 DEF WalkOK, TypeOK
<1>8. PairsOK'
  <2>1. \A o : Walked(o)' = Walked(o)
    BY <1>1 DEF Walked
  <2> QED
    BY <1>1, <2>1, KeepPairs
<1>9. NodesOK' /\ PltOK' /\ ExeOK'
  BY <1>1, <1>3 DEF NodesOK, PltOK, ExeOK
<1>10. TargetsOK'
  <2>1. ASSUME NEW o \in Objects, NEW i \in DOMAIN Binds(o)
        PROVE  /\ target'[o][i] \in {0, Home(Binds(o)[i])}
               /\ isMain'[o][i] = TRUE => Trusted(Home(Binds(o)[i]))
    BY <1>1, <1>4, <1>5 DEF TargetsOK
  <2>2. ASSUME NEW o \in Range(chain), NEW i \in DOMAIN Binds(o)
        PROVE  /\ target'[o][i] = AreaOf(got[o][i])
               /\ target'[o][i] # 0 => isMain'[o][i] = Trusted(target'[o][i])
    <3>1. o \in Objects
      BY ChainFacts
    <3> QED
      BY <1>1, <1>4, <1>5, <3>1
  <2> QED
    BY <1>1, <1>3, <2>1, <2>2 DEF TargetsOK
<1>11. Quiet' /\ SwitchOK' /\ LandsHome' /\ Mediated' /\ CallsArrive'
  BY <1>1, KeepQuiet
<1> QED
  BY <1>6, <1>7, <1>8, <1>9, <1>10, <1>11

LEMMA SecondLinkerInv ==
    ASSUME DispatchInv, SecondLinker
    PROVE  DispatchInv'
<1> layout \in Layouts
  BY DEF DispatchInv, TypeOK
<1> USE DEF DispatchInv
<1>1. /\ mode = "link" /\ stage' = 2 /\ rest' = layout.second /\ mode' = "chain"
      /\ entries' = IF layout.relinks THEN [entries EXCEPT ![Exe] = Lazy(Exe)]
                    ELSE entries
      /\ layout' = layout /\ chain' = chain /\ copy' = copy /\ areas' = areas
      /\ plt' = plt /\ got' = got /\ target' = target /\ isMain' = isMain
      /\ switch' = switch /\ open' = open /\ listed' = listed /\ call' = call
  BY DEF SecondLinker
<1>2. /\ Objects' = Objects /\ Low' = Low
      /\ \A x : /\ Is(x)' = Is(x) /\ Binds(x)' = Binds(x) /\ Hooked(x)' = Hooked(x)
                /\ Lazy(x)' = Lazy(x) /\ FirstWord(x)' = FirstWord(x)
  BY <1>1, SameLayout
<1>3. /\ layout.second \in Seq(Nat) /\ Range(layout.second) \subseteq Objects
      /\ DOMAIN layout.second = 1 .. Len(layout.second)
      /\ Len(layout.second) \in Nat /\ Exe \in Objects
  BY LayoutFacts, LenProperties DEF Listed
<1>4. rest' \in Seq(Objects)
  <2>1. \A i \in 1 .. Len(layout.second) : layout.second[i] \in Objects
    BY <1>3 DEF Range
  <2>2. layout.second = [i \in 1 .. Len(layout.second) |-> layout.second[i]]
    BY <1>3
  <2>3. [i \in 1 .. Len(layout.second) |-> layout.second[i]] \in Seq(Objects)
    BY <1>3, <2>1, IsASeq
  <2> QED
    BY <1>1, <2>2, <2>3
<1>5. /\ PerImport(entries', Nat)
      /\ \A o \in Objects \ {Exe} : entries'[o] = entries[o]
      /\ \A i \in DOMAIN Binds(Exe) :
            entries'[Exe][i] \in {entries[Exe][i], Is(Exe).plt}
  <2>1. PerImport(entries, Nat)
    BY DEF TypeOK
  <2>2. CASE layout.relinks
    <3>1. /\ DOMAIN Binds(Exe) = 1 .. Len(Binds(Exe)) /\ Len(Binds(Exe)) \in Nat
          /\ Is(Exe).plt \in Nat
      BY <1>3, ObjectFacts
    <3>2. Lazy(Exe) = [i \in 1 .. Len(Binds(Exe)) |-> Is(Exe).plt]
      BY <3>1 DEF Lazy
    <3>3. Lazy(Exe) \in Seq(Nat) /\ Len(Lazy(Exe)) = Len(Binds(Exe))
      BY <3>1, <3>2, IsASeq
    <3>4. entries' = [entries EXCEPT ![Exe] = Lazy(Exe)]
      BY <1>1, <2>2
    <3>5. /\ entries'[Exe] = Lazy(Exe) /\ PerImport(entries', Nat)
          /\ \A o \in Objects \ {Exe} : entries'[o] = entries[o]
      BY <1>3, <2>1, <3>3, <3>4 DEF PerImport
    <3> QED
      BY <3>1, <3>2, <3>5
  <2>3. CASE ~ layout.relinks
    BY <1>1, <2>1, <2>3
  <2> QED
    BY <2>2, <2>3
<1>6. TypeOK'
  BY <1>1, <1>2, <1>4, <1>5 DEF TypeOK, PerImport
<1>7. WalkOK'
  <2>1. Range(layout.first) \subseteq Range(chain)
    BY <1>1 DEF WalkOK, Range
  <2>2. Range(rest)' = Range(layout.second) /\ Range(chain)' = Range(chain)
    BY <1>1 DEF Range
  <2>3. \A k \in DOMAIN rest' :
           rest'[k] = layout.second[Len(layout.second) - Len(rest') + k]
    BY <1>1, <1>3
  <2>4. Len(rest') <= Len(layout.second)
    BY <1>1, <1>3
  <2> QED
    BY <1>1, <2>1, <2>2, <2>3, <2>4 DEF WalkOK
<1>8. PairsOK'
  BY <1>1, KeepPairs DEF WalkOK
<1>9. NodesOK'
  BY <1>1, <1>2 DEF NodesOK
<1>10. PltOK'
  BY <1>1, <1>2, <1>5 DEF PltOK
<1>11. ExeOK'
  <2>1. Is(Exe).plt \in Low
    BY DEF Low
  <2> QED
    BY <1>1, <1>2, <1>5, <2>1 DEF ExeOK
<1>12. TargetsOK'
  BY <1>1, KeepTargets
<1>13. Quiet' /\ SwitchOK' /\ LandsHome' /\ Mediated' /\ CallsArrive'
  BY <1>1, KeepQuiet
<1> QED
  BY <1>6, <1>7, <1>8, <1>9, <1>10, <1>11, <1>12, <1>13

-----------------------------------------------------------------------------
(***************************************************************************)
(* While the program runs, the tables stay.                                *)
(***************************************************************************)
LEMMA KeepTables ==
    ASSUME DispatchInv, mode = "run", mode' \in {"run", "dead"},
           UNCHANGED <<layout, stage, rest, tables>>,
           switch' \in [DOMAIN Binds(Exe) -> BOOLEAN], open' \in BOOLEAN,
           listed' \subseteq DOMAIN Binds(Exe)
    PROVE  /\ TypeOK' /\ WalkOK' /\ PairsOK' /\ NodesOK' /\ PltOK' /\ ExeOK'
           /\ TargetsOK' /\ Quiet'
<1> USE DEF DispatchInv
<1>1. /\ layout' = layout /\ stage' = stage /\ rest' = rest /\ chain' = chain
      /\ copy' = copy /\ areas' = areas /\ entries' = entries /\ plt' = plt
      /\ got' = got /\ target' = target /\ isMain' = isMain
  BY DEF tables, gots
<1>2. /\ Objects' = Objects /\ Low' = Low
      /\ \A x : /\ Is(x)' = Is(x) /\ Binds(x)' = Binds(x) /\ Hooked(x)' = Hooked(x)
                /\ Lazy(x)' = Lazy(x) /\ FirstWord(x)' = FirstWord(x)
                /\ Trusted(x)' = Trusted(x)
      /\ \A a : Home(a)' = Home(a) /\ AreaOf(a)' = AreaOf(a)
  BY <1>1, SameLayout, SameAreas
<1>3. TypeOK'
  BY <1>1, <1>2 DEF TypeOK, PerImport
<1>4. WalkOK'
  BY <1>1 DEF WalkOK
<1>5. PairsOK'
  <2>1. \A o : Walked(o)' = Walked(o)
    BY <1>1 DEF Walked
  <2> QED
    BY <1>1, <2>1, KeepPairs
<1>6. NodesOK' /\ PltOK' /\ ExeOK'
  BY <1>1, <1>2 DEF NodesOK, PltOK, ExeOK
<1>7. TargetsOK'
  BY <1>1, <1>2 DEF TargetsOK
<1>8. Quiet'
  BY DEF Quiet
<1> QED
  BY <1>3, <1>4, <1>5, <1>6, <1>7, <1>8

\* The last call stays what it was.
LEMMA KeepCall ==
    ASSUME DispatchInv, UNCHANGED <<layout, plt, call, mode>>,
           mode = "dead" => listed' = listed
    PROVE  LandsHome' /\ Mediated' /\ CallsArrive'
<1>1. /\ \A x : /\ Is(x)' = Is(x) /\ Binds(x)' = Binds(x)
                /\ Hooked(x)' = Hooked(x) /\ Trusted(x)' = Trusted(x)
      /\ \A a : Home(a)' = Home(a)
  BY SameLayout
<1>2. Bound' = Bound /\ Landed' = Landed
  BY DEF Bound, Landed, Binds
<1> QED
  BY <1>1, <1>2 DEF DispatchInv, LandsHome, Mediated, CallsArrive

LEMMA RedirectInv ==
    ASSUME DispatchInv,
           \/ \E i \in DOMAIN Binds(Exe) : AddRedirect(i) \/ DeleteRedirect(i)
           \/ \E on \in BOOLEAN : SetRedirect(on)
    PROVE  DispatchInv'
<1>1. /\ mode = "run" /\ mode' = mode /\ call' = call
      /\ UNCHANGED <<layout, stage, rest, tables>>
  BY DEF AddRedirect, DeleteRedirect, SetRedirect
<1>2. /\ switch' \in [DOMAIN Binds(Exe) -> BOOLEAN] /\ open' \in BOOLEAN
      /\ listed' \subseteq DOMAIN Binds(Exe)
  <2>1. /\ switch \in [DOMAIN Binds(Exe) -> BOOLEAN] /\ open \in BOOLEAN
        /\ listed \subseteq DOMAIN Binds(Exe)
    BY DEF DispatchInv, TypeOK
  <2>2. ASSUME NEW i \in DOMAIN Binds(Exe), AddRedirect(i)
        PROVE  /\ switch' \in [DOMAIN Binds(Exe) -> BOOLEAN] /\ open' \in BOOLEAN
               /\ listed' \subseteq DOMAIN Binds(Exe)
    <3>1. (switch[i] \/ (Listable(i) /\ i # LibcStart)) \in BOOLEAN
      OBVIOUS
    <3> QED
      BY <2>1, <2>2, <3>1 DEF AddRedirect
  <2>3. ASSUME NEW i \in DOMAIN Binds(Exe), DeleteRedirect(i)
        PROVE  /\ switch' \in [DOMAIN Binds(Exe) -> BOOLEAN] /\ open' \in BOOLEAN
               /\ listed' \subseteq DOMAIN Binds(Exe)
    <3>1. (switch[i] /\ ~ Listable(i)) \in BOOLEAN
      OBVIOUS
    <3> QED
      BY <2>1, <2>3, <3>1 DEF DeleteRedirect
  <2>4. ASSUME NEW on \in BOOLEAN, SetRedirect(on)
        PROVE  /\ switch' \in [DOMAIN Binds(Exe) -> BOOLEAN] /\ open' \in BOOLEAN
               /\ listed' \subseteq DOMAIN Binds(Exe)
    BY <2>1, <2>4 DEF SetRedirect
  <2> QED
    BY <2>2, <2>3, <2>4
<1>3. plt' = plt
  BY <1>1 DEF tables, gots
<1>4. SwitchOK'
  <2>1. SwitchOK /\ switch \in [DOMAIN Binds(Exe) -> BOOLEAN]
    BY DEF DispatchInv, TypeOK
  <2>2. \A j : Listable(j)' = Listable(j)
    BY <1>1 DEF Listable, Binds, Is
  <2>3. ASSUME NEW i \in DOMAIN Binds(Exe), AddRedirect(i) PROVE SwitchOK'
    <3>1. /\ DOMAIN switch' = DOMAIN switch
          /\ switch'[i] = (switch[i] \/ (Listable(i) /\ i # LibcStart))
          /\ \A j \in DOMAIN switch : j # i => switch'[j] = switch[j]
          /\ listed' = listed \cup ({i} \ {LibcStart})
      BY <2>1, <2>3 DEF AddRedirect
    <3> QED
      BY <2>1, <2>2, <3>1 DEF SwitchOK
  <2>4. ASSUME NEW i \in DOMAIN Binds(Exe), DeleteRedirect(i) PROVE SwitchOK'
    <3>1. /\ DOMAIN switch' = DOMAIN switch
          /\ switch'[i] = (switch[i] /\ ~ Listable(i))
          /\ \A j \in DOMAIN switch : j # i => switch'[j] = switch[j]
          /\ listed' = listed \ {i}
      BY <2>1, <2>4 DEF DeleteRedirect
    <3> QED
      BY <2>1, <2>2, <3>1 DEF SwitchOK
  <2>5. ASSUME NEW on \in BOOLEAN, SetRedirect(on) PROVE SwitchOK'
    BY <1>1, <2>1, <2>5, KeepSwitch DEF SetRedirect
  <2> QED
    BY <2>3, <2>4, <2>5
<1> QED
  BY <1>1, <1>2, <1>3, <1>4, KeepTables, KeepCall DEF DispatchInv

-----------------------------------------------------------------------------
(***************************************************************************)
(* Calls.                                                                  *)
(***************************************************************************)
LEMMA CallerFacts ==
    ASSUME DispatchInv, NEW o, NEW i, Calls(o, i)
    PROVE  /\ mode = "run" /\ o \in Objects /\ o \in Range(chain)
           /\ ~ Is(o).interp /\ i \in DOMAIN Binds(o) /\ Hooked(o)
           /\ got[o] = Binds(o) /\ got[o][i] = Binds(o)[i]
           /\ Home(Binds(o)[i]) \in Range(chain) /\ Home(Binds(o)[i]) \in Objects
           /\ target[o][i] = AreaOf(Binds(o)[i])
           /\ target[o][i] \in {0, Home(Binds(o)[i])}
           /\ target[o][i] # 0 => isMain[o][i] = Trusted(target[o][i])
<1> layout \in Layouts
  BY DEF DispatchInv, TypeOK
<1> USE DEF DispatchInv
<1>1. /\ mode = "run" /\ o \in Range(chain) /\ o \in Objects
      /\ ~ Is(o).interp /\ i \in DOMAIN Binds(o)
  BY ChainFacts DEF Calls
<1>2. Hooked(o)
  BY <1>1 DEF Hooked
<1>3. got[o] = Binds(o)
  BY <1>1, <1>2 DEF NodesOK
<1>4. Home(Binds(o)[i]) \in Range(chain) /\ Home(Binds(o)[i]) \in Objects
  <2>1. Home(Binds(o)[i]) \in Listed /\ Home(Binds(o)[i]) \in Objects
    BY <1>1, BindHome
  <2>2. rest = <<>> /\ Range(rest) = {}
    BY <1>1 DEF WalkOK, Range
  <2>3. layout.second = <<>> => Range(layout.second) = {}
    BY DEF Range
  <2>4. Listed \subseteq Range(chain)
    BY <1>1, <2>2, <2>3 DEF Listed, WalkOK, TypeOK
  <2> QED
    BY <2>1, <2>4
<1>5. target[o][i] \in {0, Home(Binds(o)[i])}
  BY <1>1 DEF TargetsOK
<1>6. /\ target[o][i] = AreaOf(got[o][i])
      /\ target[o][i] # 0 => isMain[o][i] = Trusted(target[o][i])
  BY <1>1 DEF TargetsOK
<1> QED
  BY <1>1, <1>2, <1>3, <1>4, <1>5, <1>6

LEMMA LandsFacts ==
    ASSUME NEW o, NEW i, NEW to, NEW via, NEW grant, NEW zone,
           Lands(o, i, to, via, grant, zone)
    PROVE  /\ call'.from = o /\ call'.fn = i /\ call'.to = to /\ call'.via = via
           /\ call'.grant = grant /\ call'.zone = zone /\ call'.open = open
  BY DEF Lands

\* The goal of a call that gets through.
LEMMA LandedCall ==
    ASSUME layout' = layout, plt' = plt, mode' = "run",
           NEW o, NEW i, call'.from = o, call'.fn = i,
           plt[Exe] = Is(Exe).plt => call'.to = Binds(o)[i],
           \/ Trusted(Home(call'.to)) \/ Home(call'.to) = o
           \/ call'.via = "cross" /\ call'.grant = Home(call'.to),
           call'.via = "cross" /\ Len(Binds(call'.grant)) >= 2 =>
              call'.zone.lo <= call'.to /\ call'.to < call'.zone.hi
    PROVE  LandsHome' /\ Mediated' /\ CallsArrive'
<1>1. /\ \A x : Is(x)' = Is(x) /\ Binds(x)' = Binds(x) /\ Trusted(x)' = Trusted(x)
      /\ \A a : Home(a)' = Home(a)
  BY SameLayout
<1>2. Bound' = Binds(o)[i]
  BY <1>1 DEF Bound
<1>3. LandsHome'
  BY <1>1, <1>2 DEF LandsHome
<1>4. Mediated'
  BY <1>1 DEF Mediated
<1>5. CallsArrive'
  BY <1>1 DEF CallsArrive
<1> QED
  BY <1>3, <1>4, <1>5

\* No call is ever redirected: the function would have to be one of an untrusted
\* object with an original, which only the second linker maps.
LEMMA NeverRedirected ==
    ASSUME DispatchInv, NEW o, NEW i, Calls(o, i), isMain[o][i] = FALSE,
           Dispatchable(o, i)
    PROVE  ~ Redirected(o, i)
<1> SUFFICES ASSUME Redirected(o, i) PROVE FALSE
  OBVIOUS
<1> layout \in Layouts
  BY DEF DispatchInv, TypeOK
<1> USE DEF DispatchInv
<1> DEFINE t == target[o][i]
<1>1. o = Exe
  BY DEF Redirected
<1>2. t # 0 /\ copy[t] # 0
  BY DEF Dispatchable, CallTarget, Counterpart
<1>3. t = Home(Binds(o)[i]) /\ t \in Objects /\ ~ Trusted(t)
  BY <1>2, CallerFacts
<1>4. t \in Range(layout.first)
  BY <1>1, <1>3, CallerFacts, BindHome
<1>5. t \in Range(layout.second)
  <2>1. Walked(t) /\ stage = 2
    BY <1>2, <1>3 DEF PairsOK
  <2>2. PICK k \in 1 .. Len(layout.second) - Len(rest) : layout.second[k] = t
    BY <2>1 DEF Walked
  <2>3. rest = <<>> /\ Len(rest) = 0
    BY CallerFacts DEF WalkOK
  <2>4. DOMAIN layout.second = 1 .. Len(layout.second) /\ Len(layout.second) \in Nat
    BY LayoutFacts, LenProperties
  <2>5. k \in DOMAIN layout.second
    BY <2>3, <2>4
  <2> QED
    BY <2>2, <2>5 DEF Range
<1>6. t = Exe
  BY <1>4, <1>5, LayoutsAssumption DEF LinksFit
<1> QED
  BY <1>3, <1>6, ExeFacts

LEMMA CallDirectInv ==
    ASSUME DispatchInv, NEW o, NEW i, CallDirect(o, i)
    PROVE  LandsHome' /\ Mediated' /\ CallsArrive'
<1> layout \in Layouts
  BY DEF DispatchInv, TypeOK
<1> USE DEF DispatchInv
<1>1. /\ Calls(o, i) /\ Direct(o, i) /\ layout' = layout /\ plt' = plt
      /\ mode' = mode /\ Lands(o, i, entries[o][i], "direct", 0, NoArea)
  BY DEF CallDirect, tables, gots
<1>2. /\ mode = "run" /\ o \in Objects /\ i \in DOMAIN Binds(o)
  BY <1>1, CallerFacts
<1>3. o = Exe
  <2> SUFFICES ASSUME o # Exe PROVE FALSE
    OBVIOUS
  <2>1. entries[o] = Lazy(o)
    BY <1>2 DEF PltOK
  <2> QED
    BY <1>1, <1>2, <2>1 DEF Lazy, Direct
<1>4. /\ entries[o][i] \in Low /\ entries[o][i] # Is(Exe).plt
      /\ entries[o][i] \in {Binds(o)[i], plt[Exe]}
  BY <1>1, <1>2, <1>3 DEF ExeOK, Direct
<1>5. Trusted(Home(entries[o][i]))
  <2>1. PICK k \in DOMAIN Binds(Exe) :
           Binds(Exe)[k] < Start /\ entries[o][i] = Binds(Exe)[k]
    BY <1>4 DEF Low, LowBinds, GoesDirect
  <2> QED
    BY <1>2, <1>3, <2>1, LowIsTrusted
<1>6. call'.from = o /\ call'.fn = i /\ call'.to = entries[o][i] /\ call'.via = "direct"
  BY <1>1, LandsFacts
<1> QED
  BY <1>1, <1>2, <1>4, <1>5, <1>6, LandedCall

LEMMA CallMainInv ==
    ASSUME DispatchInv, NEW o, NEW i, CallMain(o, i)
    PROVE  LandsHome' /\ Mediated' /\ CallsArrive'
<1> USE DEF DispatchInv
<1>1. /\ Calls(o, i) /\ isMain[o][i] /\ layout' = layout /\ plt' = plt
      /\ mode' = mode /\ Lands(o, i, got[o][i], "maincall", 0, NoArea)
  BY DEF CallMain, tables, gots
<1>2. /\ mode = "run" /\ o \in Objects /\ i \in DOMAIN Binds(o)
      /\ got[o][i] = Binds(o)[i]
  BY <1>1, CallerFacts
<1>3. Trusted(Home(Binds(o)[i]))
  <2>1. isMain[o][i] \in BOOLEAN
    <3>1. layout \in Layouts /\ PerImport(isMain, BOOLEAN)
      BY DEF TypeOK
    <3> QED
      BY <1>2, <3>1, ImportFacts
  <2> QED
    BY <1>1, <1>2, <2>1 DEF TargetsOK
<1>4. call'.from = o /\ call'.fn = i /\ call'.to = Binds(o)[i] /\ call'.via = "maincall"
  BY <1>1, <1>2, LandsFacts
<1> QED
  BY <1>1, <1>2, <1>3, <1>4, LandedCall

\* The jump register of a cross call opens the function called.
LEMMA ZoneOpens ==
    ASSUME DispatchInv, NEW o, NEW i, Calls(o, i), target[o][i] # 0,
           ~ Trusted(target[o][i]), Len(Binds(target[o][i])) >= 2
    PROVE  /\ Zone(target[o][i]).lo <= Binds(o)[i]
           /\ Binds(o)[i] < Zone(target[o][i]).hi
<1> layout \in Layouts
  BY DEF DispatchInv, TypeOK
<1> USE DEF DispatchInv
<1> DEFINE t == target[o][i]
           a == Binds(o)[i]
<1>1. /\ o \in Objects /\ i \in DOMAIN Binds(o) /\ t = AreaOf(a) /\ t = Home(a)
      /\ t \in Objects
  BY CallerFacts
<1>2. a \in Nat /\ Implements(Is(t), a)
  BY <1>1, BindHome
<1>3. Between(a, areas[t].text)
  BY <1>1, AreaOfFacts
<1>4. t # Exe /\ Len(Binds(t)) >= 2 /\ Binds(t) # <<>>
  <2>1. Binds(t) # <<>>
    BY <1>1, ObjectFacts, EmptySeq
  <2> QED
    BY <2>1, ExeFacts
<1>5. plt[t] \in {0, Is(t).plt} /\ Is(t).plt \in Nat
  BY <1>1, <1>4, ObjectFacts DEF PltOK, FirstWord
<1>6. Is(t).plt + PltHeader <= a
  <2>1. Is(t).binds # <<>>
    BY <1>4 DEF Binds, Is
  <2> QED
    BY <1>2, <2>1 DEF Implements
<1>7. Zone(t).lo = plt[t] + PltHeader /\ Zone(t).hi = areas[t].text.hi
  BY DEF Zone
<1>8. a < areas[t].text.hi
  BY <1>3 DEF Between
<1> HIDE DEF t, a
<1>9. Zone(t).lo <= a /\ a < Zone(t).hi
  BY <1>2, <1>5, <1>6, <1>7, <1>8, PlacesAssumption
<1> QED
  BY <1>9 DEF t, a

LEMMA CallDynamicInv ==
    ASSUME DispatchInv, NEW o, NEW i, CallDynamic(o, i)
    PROVE  LandsHome' /\ Mediated' /\ CallsArrive'
<1> USE DEF DispatchInv
<1>1. /\ Calls(o, i) /\ ~ isMain[o][i] /\ Dispatchable(o, i)
      /\ layout' = layout /\ plt' = plt /\ mode' = mode
  BY DEF CallDynamic, tables, gots
<1>2. /\ mode = "run" /\ o \in Objects /\ i \in DOMAIN Binds(o)
      /\ got[o][i] = Binds(o)[i] /\ target[o][i] \in {0, Home(Binds(o)[i])}
  BY <1>1, CallerFacts
<1>3. ~ Redirected(o, i)
  <2>1. isMain[o][i] = FALSE
    <3>1. layout \in Layouts /\ PerImport(isMain, BOOLEAN)
      BY DEF TypeOK
    <3>2. isMain[o][i] \in BOOLEAN
      BY <1>2, <3>1, ImportFacts
    <3> QED
      BY <1>1, <3>2
  <2> QED
    BY <1>1, <2>1, NeverRedirected
<1>4. /\ CallTarget(o, i) = target[o][i] /\ Destination(o, i) = Binds(o)[i]
      /\ target[o][i] # 0 /\ target[o][i] = Home(Binds(o)[i])
  BY <1>1, <1>2, <1>3 DEF CallTarget, Destination, Dispatchable
<1> DEFINE t == target[o][i]
<1>5. CASE t # o /\ ~ Trusted(t)
  <2>1. Lands(o, i, Binds(o)[i], "cross", t, Zone(t))
    BY <1>4, <1>5 DEF CallDynamic
  <2>2. /\ call'.from = o /\ call'.fn = i /\ call'.to = Binds(o)[i]
        /\ call'.via = "cross" /\ call'.grant = t /\ call'.zone = Zone(t)
    BY <2>1, LandsFacts
  <2>3. Len(Binds(t)) >= 2 => Zone(t).lo <= Binds(o)[i] /\ Binds(o)[i] < Zone(t).hi
    BY <1>1, <1>4, <1>5, ZoneOpens
  <2> HIDE DEF t
  <2> QED
    BY <1>1, <1>2, <1>4, <2>2, <2>3, LandedCall DEF t
<1>6. CASE t = o \/ Trusted(t)
  <2>1. Lands(o, i, Binds(o)[i], "plain", 0, NoArea)
    BY <1>4, <1>6 DEF CallDynamic
  <2>2. /\ call'.from = o /\ call'.fn = i /\ call'.to = Binds(o)[i]
        /\ call'.via = "plain"
    BY <2>1, LandsFacts
  <2> QED
    BY <1>1, <1>2, <1>4, <1>6, <2>2, LandedCall
<1> QED
  BY <1>5, <1>6

LEMMA CallDiesInv ==
    ASSUME DispatchInv, NEW o, NEW i, CallDies(o, i)
    PROVE  LandsHome' /\ Mediated' /\ CallsArrive'
<1> layout \in Layouts
  BY DEF DispatchInv, TypeOK
<1> USE DEF DispatchInv
<1>1. /\ Calls(o, i) /\ ~ Dispatchable(o, i) /\ layout' = layout
      /\ Lands(o, i, 0, "none", 0, NoArea)
  BY DEF CallDies
<1>2. /\ o \in Objects /\ o \in Range(chain) /\ i \in DOMAIN Binds(o) /\ Hooked(o)
      /\ ~ Is(o).interp /\ Home(Binds(o)[i]) \in Range(chain)
      /\ target[o][i] = AreaOf(Binds(o)[i])
  BY <1>1, CallerFacts
<1>3. /\ call'.from = o /\ call'.fn = i /\ call'.to = 0 /\ call'.via = "none"
      /\ call'.open = open
  BY <1>1, LandsFacts
<1>4. \/ ~ Hooked(Home(Binds(o)[i]))
      \/ Len(Binds(o)) = 1
      \/ open /\ o = Exe /\ i + 2 \in listed
  <2>1. CASE plt[o] = 0
    <3>1. o # Exe
      BY <1>2, <2>1 DEF ExeOK
    <3>2. plt[o] = FirstWord(o)
      BY <1>2, <3>1 DEF PltOK
    <3>3. Is(o).plt > 0 /\ Len(Binds(o)) >= 1 /\ Len(Binds(o)) \in Nat
      BY <1>2, PltFacts, ObjectFacts
    <3>4. ~ (Len(Binds(o)) >= 2)
      BY <2>1, <3>2, <3>3 DEF FirstWord
    <3>5. \A n \in Nat : n >= 1 /\ ~ (n >= 2) => n = 1
      OBVIOUS
    <3>6. Len(Binds(o)) = 1
      BY <3>3, <3>4, <3>5
    <3> QED
      BY <3>6
  <2>2. CASE CallTarget(o, i) = 0
    <3>1. CASE Redirected(o, i)
      BY <3>1 DEF Redirected, SwitchOK
    <3>2. CASE ~ Redirected(o, i)
      <4>1. AreaOf(Binds(o)[i]) = 0
        BY <1>2, <2>2, <3>2 DEF CallTarget
      <4> QED
        BY <1>2, <4>1, AreaOfBind
    <3> QED
      BY <3>1, <3>2
  <2> QED
    BY <1>1, <2>1, <2>2 DEF Dispatchable
<1>5. /\ \A x : Binds(x)' = Binds(x) /\ Hooked(x)' = Hooked(x)
      /\ \A a : Home(a)' = Home(a)
  BY <1>1, SameLayout
<1>6. Bound' = Binds(o)[i]
  BY <1>3, <1>5 DEF Bound
<1>7. LandsHome' /\ Mediated'
  BY <1>3 DEF LandsHome, Mediated, Landed
<1>8. CallsArrive'
  <2>1. listed' = listed
    BY DEF CallDies
  <2> QED
    BY <1>3, <1>4, <1>5, <1>6, <2>1 DEF CallsArrive
<1> QED
  BY <1>7, <1>8

LEMMA CallInv ==
    ASSUME DispatchInv, NEW o, NEW i, CallFrom(o, i)
    PROVE  DispatchInv'
<1>1. /\ mode = "run" /\ mode' \in {"run", "dead"}
      /\ UNCHANGED <<layout, stage, rest, tables, switch, open, listed>>
  BY DEF CallFrom, CallDirect, CallMain, CallDynamic, CallDies, Calls
<1>2. /\ switch' \in [DOMAIN Binds(Exe) -> BOOLEAN] /\ open' \in BOOLEAN
      /\ listed' \subseteq DOMAIN Binds(Exe)
  BY <1>1 DEF DispatchInv, TypeOK
<1>3. /\ TypeOK' /\ WalkOK' /\ PairsOK' /\ NodesOK' /\ PltOK' /\ ExeOK'
      /\ TargetsOK' /\ Quiet'
  BY <1>1, <1>2, KeepTables
<1>4. LandsHome' /\ Mediated' /\ CallsArrive'
  BY CallDirectInv, CallMainInv, CallDynamicInv, CallDiesInv DEF CallFrom
<1>5. SwitchOK'
  BY <1>1, KeepSwitch DEF DispatchInv
<1> QED
  BY <1>3, <1>4, <1>5 DEF DispatchInv

LEMMA StutterInv ==
    ASSUME DispatchInv, UNCHANGED vars
    PROVE  DispatchInv'
<1>1. /\ layout' = layout /\ stage' = stage /\ rest' = rest /\ chain' = chain
      /\ copy' = copy /\ areas' = areas /\ entries' = entries /\ plt' = plt
      /\ got' = got /\ target' = target /\ isMain' = isMain /\ switch' = switch
      /\ open' = open /\ listed' = listed /\ mode' = mode /\ call' = call
  BY DEF vars, gots
<1>2. /\ Objects' = Objects /\ Low' = Low
      /\ \A x : /\ Is(x)' = Is(x) /\ Binds(x)' = Binds(x) /\ Hooked(x)' = Hooked(x)
                /\ Lazy(x)' = Lazy(x) /\ FirstWord(x)' = FirstWord(x)
                /\ Trusted(x)' = Trusted(x)
      /\ \A a : Home(a)' = Home(a) /\ AreaOf(a)' = AreaOf(a)
  BY <1>1, SameLayout, SameAreas
<1> USE DEF DispatchInv
<1>3. TypeOK'
  BY <1>1, <1>2 DEF TypeOK, PerImport
<1>4. WalkOK'
  BY <1>1 DEF WalkOK
<1>5. PairsOK'
  <2>1. \A o : Walked(o)' = Walked(o)
    BY <1>1 DEF Walked
  <2> QED
    BY <1>1, <2>1, KeepPairs
<1>6. NodesOK' /\ PltOK' /\ ExeOK'
  BY <1>1, <1>2 DEF NodesOK, PltOK, ExeOK
<1>7. TargetsOK'
  BY <1>1, <1>2 DEF TargetsOK
<1>8. Quiet'
  <2>1. NoCall' = NoCall
    BY DEF NoCall
  <2> QED
    BY <1>1, <2>1 DEF Quiet
<1>9. LandsHome' /\ Mediated' /\ CallsArrive'
  BY <1>1, KeepCall
<1>10. SwitchOK'
  BY <1>1, KeepSwitch
<1> QED
  BY <1>3, <1>4, <1>5, <1>6, <1>7, <1>8, <1>9, <1>10

LEMMA NextDispatchInv == DispatchInv /\ [Next]_vars => DispatchInv'
<1> SUFFICES ASSUME DispatchInv, [Next]_vars PROVE DispatchInv'
  OBVIOUS
<1>1. CASE SkipExe
  BY <1>1, SkipExeInv
<1>2. CASE AddObject
  BY <1>2, AddObjectInv
<1>3. CASE Hang
  BY <1>3, HangInv
<1>4. CASE FillTargets
  BY <1>4, FillTargetsInv
<1>5. CASE SecondLinker
  BY <1>5, SecondLinkerInv
<1>6. CASE \/ \E i \in DOMAIN Binds(Exe) : AddRedirect(i) \/ DeleteRedirect(i)
           \/ \E on \in BOOLEAN : SetRedirect(on)
  BY <1>6, RedirectInv
<1>7. ASSUME NEW o \in Range(chain), NEW i \in DOMAIN Binds(o), CallFrom(o, i)
      PROVE  DispatchInv'
  BY <1>7, CallInv
<1>8. CASE UNCHANGED vars
  BY <1>8, StutterInv
<1> QED
  BY <1>1, <1>2, <1>3, <1>4, <1>5, <1>6, <1>7, <1>8 DEF Next

-----------------------------------------------------------------------------
(***************************************************************************)
(* The theorems.                                                           *)
(***************************************************************************)
\* The tables of the ELF chain tell where the functions are, stage by stage.
THEOREM TablesTell == Spec => []DispatchInv
<1> QED
  BY InitDispatchInv, NextDispatchInv, PTL DEF Spec

\* The type invariant.
THEOREM TypeCorrect == Spec => []TypeOK
<1>1. DispatchInv => TypeOK
  BY DEF DispatchInv
<1> QED
  BY <1>1, TablesTell, PTL

\* _find_copy_lib makes pairs of an original and its copy, whatever the orders
\* of the two link maps.
THEOREM CopiesPair == Spec => []PairsAgree
<1>1. DispatchInv => PairsAgree
  BY DEF DispatchInv, PairsOK, PairsAgree
<1> QED
  BY <1>1, TablesTell, PTL

\* _fill_module_map takes in every segment of a kind and nothing of another
\* object, for any number of segments in any order of permissions.
THEOREM AreasFit == Spec => []AreasMatchSegments
<1>1. DispatchInv => AreasMatchSegments
  <2> SUFFICES ASSUME DispatchInv, NEW o \in Range(chain), Hooked(o)
               PROVE  /\ \A p \in DOMAIN Is(o).segs :
                            LET seg == Is(o).segs[p]
                            IN  /\ IsText(seg) => Inside(seg, areas[o].text)
                                /\ IsReadOnly(seg) => Inside(seg, areas[o].read)
                                /\ IsWritable(seg) => Inside(seg, areas[o].write)
                      /\ \A other \in Objects \ {o} :
                            \A p \in DOMAIN Is(other).segs :
                               /\ Apart(areas[o].read, Is(other).segs[p])
                               /\ Apart(areas[o].write, Is(other).segs[p])
    BY DEF AreasMatchSegments
  <2>1. layout \in Layouts /\ o \in Objects /\ areas[o] = ModuleMap(Is(o).segs)
    BY ChainFacts DEF DispatchInv, TypeOK, NodesOK
  <2> DEFINE S == Is(o).segs
             X == {p \in DOMAIN S : IsText(S[p])}
             R == {p \in DOMAIN S : IsReadOnly(S[p])}
             W == {p \in DOMAIN S : IsWritable(S[p])}
  <2>2. /\ areas[o].text = Span(S, X) /\ areas[o].read = Span(S, R)
        /\ areas[o].write = Span(S, W)
    BY <2>1 DEF ModuleMap
  <2>3. /\ \A p \in X : Inside(S[p], Span(S, X))
        /\ \A p \in R : Inside(S[p], Span(S, R))
        /\ \A p \in W : Inside(S[p], Span(S, W))
    BY <2>1, SpanFacts
  <2>4. ASSUME NEW other \in Objects \ {o}, NEW p \in DOMAIN Is(other).segs
        PROVE  /\ Apart(Span(S, R), Is(other).segs[p])
               /\ Apart(Span(S, W), Is(other).segs[p])
    BY <2>1, SpanApart
  <2> QED
    BY <2>2, <2>3, <2>4
<1> QED
  BY <1>1, TablesTell, PTL

\* Along every path of a call, dasics_dynamic_call ends where the linker meant.
THEOREM CallsLandHome == Spec => []LandsHome
<1>1. DispatchInv => LandsHome
  BY DEF DispatchInv
<1> QED
  BY <1>1, TablesTell, PTL

\* Untrusted code is entered through cross_call only, with its own bounds.
THEOREM CallsAreMediated == Spec => []Mediated
<1>1. DispatchInv => Mediated
  BY DEF DispatchInv
<1> QED
  BY <1>1, TablesTell, PTL

\* The jump register of cross_call opens the function entered, and no call dies
\* for want of a table that could be there, unless dasics_dynamic_call takes it
\* for one that is to be redirected.
THEOREM CallsGetThrough == Spec => []CallsArrive
<1>1. DispatchInv => CallsArrive
  BY DEF DispatchInv
<1> QED
  BY <1>1, TablesTell, PTL

=============================================================================
