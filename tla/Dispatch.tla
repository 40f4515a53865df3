------------------------------ MODULE Dispatch ------------------------------
(***************************************************************************)
(* Which function a call between ELF objects ends in (dynamic.c,           *)
(* umaincall.c, umaincall_entry.S, relocation.c): stage 2 walks the link   *)
(* map and makes a node with tables for each object, stage 3 does the same *)
(* for the copies of the trusted libraries that a second linker maps in    *)
(* the untrusted area, and calls through a PLT then go by these tables.    *)
(*                                                                         *)
(* Where a function is found is an address; 0 is NULL.                     *)
(***************************************************************************)
EXTENDS ModuleMap

CONSTANTS
    Layouts,    \* the processes considered (see Object and Layout)
    LibcStart,  \* the import of the executable named __libc_start_main
    Start,      \* the address of _start, above all trusted libraries
    PltHeader   \* the size of the first entry of a PLT: 0x20

(***************************************************************************)
(* An object, known by its number: its name, its base, whether it is the   *)
(* dynamic linker, its segments, the address of its PLT, the addresses the *)
(* linker finds for the functions of its PLT, and the word behind its GOT. *)
(* A layout has the objects, the link maps of stages 2 and 3 (the second   *)
(* empty without DASICS_COPY), and whether the second linker writes the    *)
(* GOT of the executable anew.                                             *)
(***************************************************************************)
Object == [ name : STRING, base : Nat, interp : BOOLEAN, segs : Seq(Segment),
            plt : Nat, binds : Seq(Nat), behind : Nat ]
Layout == [ objects : Seq(Object), first : Seq(Nat), second : Seq(Nat),
            relinks : BOOLEAN ]

Exe == 1    \* the executable, at base 0

ASSUME PlacesAssumption == Start \in Nat \ {0} /\ PltHeader \in Nat

Before(x, y) ==
    \A p \in DOMAIN x.segs, q \in DOMAIN y.segs : x.segs[p].hi <= y.segs[q].lo

\* An image lies in one piece, its segments in ascending order above its base.
ImageFits(l, o) ==
    LET obj == l.objects[o]
    IN  /\ \A p \in DOMAIN obj.segs :
              obj.base <= obj.segs[p].lo /\ obj.segs[p].lo <= obj.segs[p].hi
        /\ \A p, q \in DOMAIN obj.segs :
              p < q => obj.segs[p].hi <= obj.segs[q].lo
        /\ \A other \in DOMAIN l.objects \ {o} :
              Before(obj, l.objects[other]) \/ Before(l.objects[other], obj)
        /\ obj.binds # <<>> => obj.plt > 0

\* A function lies in the text of an object, behind the PLT it has.
Implements(obj, a) ==
    /\ \E p \in DOMAIN obj.segs :
          IsText(obj.segs[p]) /\ obj.segs[p].lo < a /\ a < obj.segs[p].hi
    /\ obj.binds # <<>> => obj.plt + PltHeader <= a

\* The first link map starts with the executable, whose functions the first
\* linker finds; the second shares no other object with it, and its untrusted
\* objects differ in name.
LinksFit(l) ==
    /\ l.first # <<>> /\ Head(l.first) = Exe
    /\ l.objects[Exe].base = 0 /\ Len(l.objects[Exe].binds) >= 2
    /\ Range(l.first) \cup Range(l.second) \subseteq DOMAIN l.objects
    /\ Range(l.first) \cap Range(l.second) \subseteq {Exe}
    /\ \A i, j \in DOMAIN l.second : i # j =>
          \/ l.objects[l.second[i]].base < Start
          \/ l.objects[l.second[i]].name # l.objects[l.second[j]].name
    /\ \A i \in DOMAIN l.objects[Exe].binds : \E o \in Range(l.first) :
          Implements(l.objects[o], l.objects[Exe].binds[i])
    /\ \A o \in DOMAIN l.objects : \A i \in DOMAIN l.objects[o].binds :
          \E to \in Range(l.first) \cup Range(l.second) :
              Implements(l.objects[to], l.objects[o].binds[i])

ASSUME LayoutsAssumption ==
    \A l \in Layouts :
        /\ l \in Layout
        /\ \A o \in DOMAIN l.objects : ImageFits(l, o)
        /\ LinksFit(l)

VARIABLES
    layout,     \* the process, fixed from the start
    stage,      \* dasics_stage: 1 while stage 2 runs, 2 while stage 3 does
    rest,       \* the part of the link map still to be walked
    chain,      \* the nodes of _umain_elf_table, by their objects
    copy,       \* _copy_lib_elf, 0 for NULL
    areas,      \* what _fill_module_map found
    entries,    \* the GOT entries of the imports, got_begin[2] and on
    plt,        \* plt_begin
    got,        \* _local_got_table: the address of each import
    target,     \* target_elf, 0 for NULL
    isMain,     \* target_is_main
    switch,     \* redirect_switch of the executable's node
    open,       \* the global redirect_switch
    listed,     \* history: the imports the program asked to redirect
    mode,       \* chain, link (the second linker), run, hung or dead
    call        \* the last call

vars == <<layout, stage, rest, chain, copy, areas, entries, plt, got, target,
          isMain, switch, open, listed, mode, call>>
gots == <<entries, plt, got>>
tables == <<chain, copy, areas, gots, target, isMain>>

Objects == DOMAIN layout.objects
Is(o) == layout.objects[o]
Binds(o) == layout.objects[o].binds

\* Objects based below _start are in the main area.
Trusted(o) == Is(o).base < Start

\* An object has PLT relocations and a PLTGOT; the others get no tables.
Hooked(o) == Binds(o) # <<>>

\* _get_area: the first node whose text has the address in it.
AreaOf(a) ==
    LET found == {p \in DOMAIN chain : Between(a, areas[chain[p]].text)}
    IN  IF found = {} THEN 0
        ELSE chain[Min(found)]

Blank(value) == [o \in Objects |-> [i \in DOMAIN Binds(o) |-> value]]

\* The linker binds lazily: the entries start with the address of the PLT.
Lazy(o) == [i \in DOMAIN Binds(o) |-> Is(o).plt]

NoCall == [from |-> 0, fn |-> 0, to |-> 0, via |-> "none", grant |-> 0,
           zone |-> NoArea, open |-> FALSE, listed |-> FALSE]

Init ==
    /\ layout \in Layouts
    /\ stage = 1
    /\ rest = layout.first
    /\ chain = <<>>
    /\ copy = [o \in Objects |-> 0]
    /\ areas = [o \in Objects |-> NoAreas]
    /\ entries = [o \in Objects |-> Lazy(o)]
    /\ plt = [o \in Objects |-> 0]
    /\ got = Blank(0)
    /\ target = Blank(0)
    /\ isMain = Blank(FALSE)
    /\ switch = [i \in DOMAIN Binds(Exe) |-> FALSE]
    /\ open = FALSE
    /\ listed = {}
    /\ mode = "chain"
    /\ call = NoCall

-----------------------------------------------------------------------------
(***************************************************************************)
(* create_umain_elf_chain: one step for each entry of the link map.        *)
(***************************************************************************)
\* Mutant of GoesDirect: every entry of the executable is resolved.
GoesDirectAll(a) == TRUE

\* The executable calls functions below _start without a detour.
GoesDirect(a) == a < Start

\* plt_begin is read from got[3], the entry of the second import.
PltWord(o) == IF Len(Binds(o)) >= 2 THEN entries[o][2] ELSE Is(o).behind

\* _fill_local_got, which only hooks the PLT of objects other than the linker.
FillGot(o) ==
    IF Is(o).interp THEN UNCHANGED gots
    ELSE /\ plt' = [plt EXCEPT ![o] = PltWord(o)]
         /\ got' = [got EXCEPT ![o] = Binds(o)]
         /\ entries' = IF o = Exe
               THEN [entries EXCEPT ![o] = [i \in DOMAIN Binds(o) |->
                        IF GoesDirect(Binds(o)[i]) THEN Binds(o)[i]
                        ELSE PltWord(o)]]
               ELSE entries

\* The executable is in the second link map again: only its GOT is redone.
SkipExe ==
    /\ mode = "chain"
    /\ rest # <<>>
    /\ stage = 2
    /\ Head(rest) = Exe
    /\ FillGot(Exe)
    /\ rest' = Tail(rest)
    /\ UNCHANGED <<layout, stage, chain, copy, areas, target, isMain, switch,
                   open, listed, mode, call>>

\* Mutant of Originals: the flag of the area is not looked at.
OriginalsAnyArea(o) == {p \in DOMAIN chain : Is(chain[p]).name = Is(o).name}

\* Where _find_copy_lib finds a trusted object of the same name.
Originals(o) ==
    {p \in DOMAIN chain :
        Trusted(chain[p]) /\ Is(chain[p]).name = Is(o).name}

NeedsOriginal(o) == stage = 2 /\ ~ Trusted(o)

AddObject ==
    /\ mode = "chain"
    /\ rest # <<>>
    /\ LET o == Head(rest) IN
          /\ ~ (stage = 2 /\ o = Exe)
          /\ IF NeedsOriginal(o)
             THEN /\ Originals(o) # {}
                  /\ LET original == chain[Min(Originals(o))]
                     IN  copy' = [copy EXCEPT ![original] = o, ![o] = original]
             ELSE UNCHANGED copy
          /\ IF Hooked(o)
             THEN FillGot(o) /\ areas' = [areas EXCEPT ![o] = ModuleMap(Is(o).segs)]
             ELSE UNCHANGED <<gots, areas>>
          /\ chain' = Append(chain, o)
    /\ rest' = Tail(rest)
    /\ UNCHANGED <<layout, stage, target, isMain, switch, open, listed, mode,
                   call>>

\* An object of the second link map without a trusted original: while (1).
Hang ==
    /\ mode = "chain"
    /\ rest # <<>>
    /\ Head(rest) # Exe
    /\ NeedsOriginal(Head(rest))
    /\ Originals(Head(rest)) = {}
    /\ mode' = "hung"
    /\ UNCHANGED <<layout, stage, rest, tables, switch, open, listed, call>>

\* Mutant of Targets: the loop stops one import early.
TargetsButLast ==
    [o \in Objects |-> IF o \in Range(chain) /\ Hooked(o)
        THEN [i \in 1 .. Len(got[o]) - 1 |-> AreaOf(got[o][i])]
        ELSE target[o]]

\* _fill_target_elf, over all nodes.
Targets ==
    [o \in Objects |-> IF o \in Range(chain)
        THEN [i \in DOMAIN got[o] |-> AreaOf(got[o][i])]
        ELSE target[o]]

FillTargets ==
    /\ mode = "chain"
    /\ rest = <<>>
    /\ target' = Targets
    /\ isMain' = [o \in Objects |-> [i \in DOMAIN Targets[o] |->
                     IF Targets[o][i] = 0 THEN isMain[o][i]
                     ELSE Trusted(Targets[o][i])]]
    /\ mode' = IF stage = 1 /\ layout.second # <<>> THEN "link" ELSE "run"
    /\ UNCHANGED <<layout, stage, rest, chain, copy, areas, gots, switch, open,
                   listed, call>>

\* The second linker runs between the stages, with the executable in its map.
SecondLinker ==
    /\ mode = "link"
    /\ stage' = 2
    /\ rest' = layout.second
    /\ entries' = IF layout.relinks THEN [entries EXCEPT ![Exe] = Lazy(Exe)]
                  ELSE entries
    /\ mode' = "chain"
    /\ UNCHANGED <<layout, chain, copy, areas, plt, got, target, isMain, switch,
                   open, listed, call>>

-----------------------------------------------------------------------------
(***************************************************************************)
(* The redirection calls of the program. _find_idx_by_name leaves out the  *)
(* last two imports, and a name it does not find is only warned about.     *)
(***************************************************************************)
Listable(i) == i <= Len(Binds(Exe)) - 2

AddRedirect(i) ==
    /\ mode = "run"
    /\ switch' = [switch EXCEPT ![i] = @ \/ (Listable(i) /\ i # LibcStart)]
    /\ listed' = listed \cup ({i} \ {LibcStart})
    /\ UNCHANGED <<layout, stage, rest, tables, open, mode, call>>

DeleteRedirect(i) ==
    /\ mode = "run"
    /\ switch' = [switch EXCEPT ![i] = @ /\ ~ Listable(i)]
    /\ listed' = listed \ {i}
    /\ UNCHANGED <<layout, stage, rest, tables, open, mode, call>>

SetRedirect(on) ==
    /\ mode = "run"
    /\ open # on
    /\ open' = on
    /\ UNCHANGED <<layout, stage, rest, tables, switch, listed, mode, call>>

-----------------------------------------------------------------------------
(***************************************************************************)
(* A call of import i by object o, through its GOT: an entry with the      *)
(* address of the PLT leads to dasics_umaincall, any other is jumped to.   *)
(***************************************************************************)
Calls(o, i) ==
    /\ mode = "run"
    /\ o \in Range(chain)
    /\ ~ Is(o).interp
    /\ i \in DOMAIN Binds(o)

Lands(o, i, to, via, grant, zone) ==
    call' = [ from |-> o, fn |-> i, to |-> to, via |-> via, grant |-> grant,
              zone |-> zone, open |-> open,
              listed |-> o = Exe /\ i \in listed ]

Direct(o, i) == entries[o][i] # Is(o).plt

CallDirect(o, i) ==
    /\ Calls(o, i)
    /\ Direct(o, i)
    /\ Lands(o, i, entries[o][i], "direct", 0, NoArea)
    /\ UNCHANGED <<layout, stage, rest, tables, switch, open, listed, mode>>

\* dasics_umaincall jumps to trusted functions itself.
CallMain(o, i) ==
    /\ Calls(o, i)
    /\ ~ Direct(o, i)
    /\ isMain[o][i]
    /\ Lands(o, i, got[o][i], "maincall", 0, NoArea)
    /\ UNCHANGED <<layout, stage, rest, tables, switch, open, listed, mode>>

\* Mutants of Redirected: the global switch is not looked at; the table of the
\* executable serves every object.
RedirectedAlways(o, i) == o = Exe /\ i + 2 \in DOMAIN switch /\ switch[i + 2]
RedirectedAny(o, i) == open /\ i + 2 \in DOMAIN switch /\ switch[i + 2]

(***************************************************************************)
(* The index dasics_dynamic_call gets counts the two reserved entries, and *)
(* it adds 2 again. Behind the table there is padding or the reserved,     *)
(* zero entries of the next one. Only the executable's table is ever       *)
(* written.                                                                *)
(***************************************************************************)
Redirected(o, i) ==
    /\ open
    /\ o = Exe
    /\ i + 2 \in DOMAIN switch
    /\ switch[i + 2]

Counterpart(t) == IF t = 0 THEN 0 ELSE copy[t]

\* The node dasics_dynamic_call hands to cross_call, 0 for NULL.
CallTarget(o, i) ==
    IF Redirected(o, i) THEN Counterpart(target[o][i]) ELSE target[o][i]

\* A redirected call goes to the same offset in the counterpart.
Destination(o, i) ==
    IF Redirected(o, i)
    THEN got[o][i] - Is(target[o][i]).base + Is(CallTarget(o, i)).base
    ELSE got[o][i]

\* Mutant of Zone: the jump register opens the PLT only.
ZoneOfPlt(t) ==
    [lo |-> plt[t] + PltHeader, hi |-> plt[t] + PltHeader + Len(Binds(t))]

\* The jump register cross_call allocates: from _plt_start to _text_end.
Zone(t) == [lo |-> plt[t] + PltHeader, hi |-> areas[t].text.hi]

\* dasics_dynamic_call asserts plt_begin; cross_call reads the node's flags.
Dispatchable(o, i) == plt[o] # 0 /\ CallTarget(o, i) # 0

\* cross_call grants bounds for untrusted objects other than the caller.
CallDynamic(o, i) ==
    /\ Calls(o, i)
    /\ ~ Direct(o, i)
    /\ ~ isMain[o][i]
    /\ Dispatchable(o, i)
    /\ LET t == CallTarget(o, i)
       IN  IF t # o /\ ~ Trusted(t)
           THEN Lands(o, i, Destination(o, i), "cross", t, Zone(t))
           ELSE Lands(o, i, Destination(o, i), "plain", 0, NoArea)
    /\ UNCHANGED <<layout, stage, rest, tables, switch, open, listed, mode>>

\* The assertion fails, or the node is NULL and is used.
CallDies(o, i) ==
    /\ Calls(o, i)
    /\ ~ Direct(o, i)
    /\ ~ isMain[o][i]
    /\ ~ Dispatchable(o, i)
    /\ Lands(o, i, 0, "none", 0, NoArea)
    /\ mode' = "dead"
    /\ UNCHANGED <<layout, stage, rest, tables, switch, open, listed>>

CallFrom(o, i) ==
    CallDirect(o, i) \/ CallMain(o, i) \/ CallDynamic(o, i) \/ CallDies(o, i)

Next ==
    \/ SkipExe
    \/ AddObject
    \/ Hang
    \/ FillTargets
    \/ SecondLinker
    \/ \E i \in DOMAIN Binds(Exe) : AddRedirect(i)
    \/ \E i \in DOMAIN Binds(Exe) : DeleteRedirect(i)
    \/ \E on \in BOOLEAN : SetRedirect(on)
    \/ \E o \in Range(chain) : \E i \in DOMAIN Binds(o) : CallFrom(o, i)

Spec == Init /\ [][Next]_vars

-----------------------------------------------------------------------------
\* What the linker found for the last call, and the object an address is in.
Bound == Binds(call.from)[call.fn]
Home(a) ==
    CHOOSE o \in Objects : \E p \in DOMAIN Is(o).segs :
        LET seg == Is(o).segs[p] IN seg.lo <= a /\ a < seg.hi

Landed == call.to # 0

\* A table with a word for each import of each object.
PerImport(table, words) ==
    /\ table \in [Objects -> Seq(words)]
    /\ \A o \in Objects : Len(table[o]) = Len(Binds(o))

\* The type invariant.
TypeOK ==
    /\ layout \in Layouts /\ stage \in {1, 2}
    /\ chain \in Seq(Objects) /\ rest \in Seq(Objects)
    /\ copy \in [Objects -> {0} \cup Objects]
    /\ areas \in [Objects -> [text : Area, read : Area, write : Area]]
    /\ plt \in [Objects -> Nat]
    /\ PerImport(entries, Nat) /\ PerImport(got, Nat)
    /\ PerImport(target, {0} \cup Objects) /\ PerImport(isMain, BOOLEAN)
    /\ switch \in [DOMAIN Binds(Exe) -> BOOLEAN] /\ open \in BOOLEAN
    /\ listed \subseteq DOMAIN Binds(Exe)
    /\ mode \in {"chain", "link", "run", "hung", "dead"}

\* A copy and its original point to each other, have the same name and lie in
\* different areas, in whatever order the two linkers list the objects.
PairsAgree ==
    \A o \in Objects : copy[o] # 0 =>
        /\ copy[copy[o]] = o
        /\ Is(copy[o]).name = Is(o).name
        /\ Trusted(copy[o]) # Trusted(o)

\* The areas of a node take in every segment of their kind, and the areas a
\* cross call grants to one object keep apart from the other objects, however
\* their segments are split and ordered by permission.
AreasMatchSegments ==
    \A o \in Range(chain) : Hooked(o) =>
        /\ \A p \in DOMAIN Is(o).segs :
              LET seg == Is(o).segs[p]
              IN  /\ IsText(seg) => Inside(seg, areas[o].text)
                  /\ IsReadOnly(seg) => Inside(seg, areas[o].read)
                  /\ IsWritable(seg) => Inside(seg, areas[o].write)
        /\ \A other \in Objects \ {o} : \A p \in DOMAIN Is(other).segs :
              /\ Apart(areas[o].read, Is(other).segs[p])
              /\ Apart(areas[o].write, Is(other).segs[p])

\* Every call that gets through runs the function the linker found, at its very
\* address, whichever of the three paths it takes and whatever is redirected: a
\* redirected call would need an untrusted target with a twin, and only twins
\* have one. The executable must have found its PLT (see PltFound).
LandsHome == Landed /\ plt[Exe] = Is(Exe).plt => call.to = Bound

\* Untrusted code of another object is only ever entered with bounds, and the
\* bounds are those of the object entered.
Mediated ==
    Landed /\ ~ Trusted(Home(call.to)) /\ Home(call.to) # call.from =>
        call.via = "cross" /\ call.grant = Home(call.to)

\* A cross call may execute the function it enters: the jump register opens the
\* text around it, unless the target has a single import (see PltFound). A call
\* dies only where no table can help: the function is in an object without PLT,
\* the caller has a single import, or redirection takes the call for the one
\* the program listed (see DivertedAsListed) and the target has no copy.
CallsArrive ==
    /\ call.via = "cross" /\ Len(Binds(call.grant)) >= 2 =>
          call.zone.lo <= call.to /\ call.to < call.zone.hi
    /\ mode = "dead" =>
          \/ ~ Hooked(Home(Bound))
          \/ Len(Binds(call.from)) = 1
          \/ call.open /\ call.from = Exe /\ call.fn + 2 \in listed

(***************************************************************************)
(* What comments say and the code does not do.                             *)
(***************************************************************************)

\* udirect.h:13, "Designed to add a func which redirect to untrusted area": of
\* the calls of the executable that dasics_dynamic_call is to carry out, exactly
\* those of the listed functions are redirected, and only while redirection is
\* open.
DivertedAsListed ==
    mode = "run" => \A i \in DOMAIN Binds(Exe) :
        \/ Direct(Exe, i)
        \/ isMain[Exe][i]
        \/ Redirected(Exe, i) <=> open /\ i \in listed

\* The same comment: while redirection is open, a call of a listed function with
\* a copy runs in the untrusted area.
ListedAreRedirected ==
    Landed /\ call.open /\ call.listed /\ copy[Home(Bound)] # 0 =>
        ~ Trusted(Home(call.to))

\* dynamic.h:64, "The plt begin which will be used to count the got, it can be
\* read from got[2], got[3]...": plt_begin, once set, is where the PLT begins.
PltFound == \A o \in Objects : plt[o] \in {0, Is(o).plt}

=============================================================================
