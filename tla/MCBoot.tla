-------------------------------- MODULE MCBoot --------------------------------
(****************************************************************************)
(* Machines for Boot: 64 frames and page tables of 4 entries, so that 256   *)
(* pages take all four levels.                                              *)
(****************************************************************************)
EXTENDS Boot

Entry(base, pages, usable) == [base |-> base, pages |-> pages, usable |-> usable]

\* Low memory, what the loader and the firmware keep, the kernel, and then
\*  - one region of usable memory and a reserved end;
\*  - two regions, the second larger;
\*  - a hole with the devices in it and usable memory above what the bitmap covers.
Low == <<Entry(0, 4, TRUE), Entry(4, 6, FALSE), Entry(10, 4, FALSE)>>
OneRegion == Low \o <<Entry(14, 46, TRUE), Entry(60, 4, FALSE)>>
TwoRegions == Low \o <<Entry(14, 12, TRUE), Entry(26, 2, FALSE), Entry(28, 36, TRUE)>>
Hole == Low \o <<Entry(14, 42, TRUE), Entry(72, 8, TRUE)>>

Processor == [type |-> "processor"]
Ioapic(page) == [type |-> "ioapic", page |-> page]
Override(page) == [type |-> "local_apic_override", page |-> page]
Level == [polarity |-> 3, trigger |-> 3]
Iso(source, pin, flags) == [type |-> "iso", source |-> source, global_interrupt |-> pin, flags |-> flags]

Segment(base, bus_start, bus_end) == [base |-> base, bus_start |-> bus_start, bus_end |-> bus_end]

Symbol(value, name) == [st_value |-> value, st_name |-> name]
Table == <<Symbol(5, TRUE), Symbol(3, TRUE)>>

\* The interrupt records of an ordinary PC.
PC == <<Processor, Ioapic(68), Iso(0, 2, BusFlags), Iso(9, 9, Level), [type |-> "nmi"]>>

Plain ==
    [memory |-> OneRegion, kernel |-> [first |-> 10, pages |-> 4, writable_start |-> 12, writable_end |-> 14],
     framebuffer |-> <<66, 67>>, file |-> <<4, 5>>, madt |-> <<6>>, slide |-> 0,
     tables |-> {Table}, before |-> {<<0>>},
     mcfg |-> <<Segment(80, 0, 2)>>, pci |-> {80, 81, 82},
     local_apic |-> 70, apic |-> 70, records |-> {PC}, texts |-> {}]

Moved == [Plain EXCEPT !.memory = TwoRegions, !.apic = 72, !.pci = {80, 83, 84, 96, 97, 98},
                       !.mcfg = <<Segment(80, 0, 2), Segment(92, 1, 2)>>,
                       !.records = {PC \o <<Override(72), Ioapic(69)>>}]
Holed == [Plain EXCEPT !.memory = Hole, !.framebuffer = <<58, 59>>, !.local_apic = 61, !.apic = 61,
                       !.records = {<<Ioapic(60), Processor>>}]

\* Symbol tables with at least two symbols, in any order, with equal values, unused entries, a first
\* symbol without a name; the words in front of the map smaller or larger than some of them.
NoPci == <<Segment(80, 0, 0)>>
Tables ==
    LET Named(values, first) == [k \in DOMAIN values |-> Symbol(values[k], k > 1 \/ first)]
        lists == [1..3 -> {0, 3, 4, 6}] \cup {<<6, 4, 3, 4>>, <<4, 6, 3, 5>>, <<3, 3, 3, 6>>, <<6, 5, 4, 3>>}
    IN {Named(v, first) : v \in {w \in lists : Cardinality({k \in DOMAIN w : w[k] # 0}) >= 2},
                          first \in BOOLEAN}
Symbolic == [Plain EXCEPT !.mcfg = NoPci, !.tables = Tables, !.before = {<<0>>, <<0, 4>>, <<2, 5, 4>>}, !.slide = 7]

\* Up to two overrides: no source and no pin twice, and no pin that is another handler's.
Sane(isos) ==
    /\ \A j, k \in DOMAIN isos : j # k => /\ isos[j].source # isos[k].source
                                          /\ isos[j].global_interrupt # isos[k].global_interrupt
    /\ \A k \in DOMAIN isos : \A s \in {0, 1, 7, 16} :
          isos[k].global_interrupt = s => \E j \in DOMAIN isos : isos[j].source = s
Isos == {Iso(s, p, IF p = 9 THEN Level ELSE BusFlags) : s \in {0, 1, 7, 9}, p \in {0, 1, 2, 9, 16, 20}}
Overriding == [Plain EXCEPT !.mcfg = NoPci, !.records =
    {<<Ioapic(68)>> \o isos : isos \in {l \in [1..1 -> Isos] \cup [1..2 -> Isos] : Sane(l)}}]

Talking == [Plain EXCEPT !.mcfg = NoPci, !.texts =
    [1..4 -> {"a", "\n", "E", "3", "m"}]
        \cup {<<"a", "E", "3", "m", "a", "E", "0", "m", "a">>, <<"E", "0", "m", "E", "3", "m", "a", "a", "a">>}]

MCMachines == {Plain, Moved, Holed, Symbolic, Overriding, Talking}
MCPins == 0..23
==============================================================================
