--------------------------------- MODULE Boot ---------------------------------
(****************************************************************************)
(* setup.c on the boot processor, from setup_memory to the masking of the   *)
(* PIT in setup_smp, with the machine it finds as input: the memory map,    *)
(* the kernel's symbol table, the PCI functions and the firmware's          *)
(* interrupt records.                                                       *)
(*                                                                          *)
(* A setup function is one stage.  The page operations it calls for are     *)
(* queued in order and done one at a time, so that every page table entry   *)
(* is written in a step of its own.  Frames and pages are numbers; sizes    *)
(* are in pages.                                                            *)
(****************************************************************************)
EXTENDS Paging, Symbols, Interrupts, Console, FiniteSets

CONSTANTS
    Machines,           \* the machines to boot, as records of what the loader and the firmware report
    KernelBase,         \* _virtual_base
    InitialReserve,     \* PAGEFRAME_INITIAL_RESERVE_PAGES
    TrampolineTarget,   \* LOCAL_APIC_TRAMPOLINE_TARGET
    TrampolineLock,     \* LOCAL_APIC_TRAMPOLINE_TARGET_SIZE, a size in bytes that is used as pages
    PciDevices,         \* PCI_MAX_DEVICES
    PciFunctions,       \* PCI_MAX_FUNCTIONS
    Pins                \* inputs of the I/O APIC

VARIABLES
    machine,            \* the machine, fixed
    stage, todo,        \* the next setup function, and the page operations still to do before it
    mem,                \* memory (see Paging)
    s_pagetable_l4,
    translation, writable, \* what the page tables say (history)
    symbols,            \* s_symbol_table: the table chosen, the words in front of the map, the map
    s_pci_devices,
    s_madt_info,
    redirection         \* the redirection table

bootVars == <<machine, stage, todo, mem, s_pagetable_l4, translation, writable, symbols,
              s_pci_devices, s_madt_info, redirection>>
vars == <<bootVars, consoleVars>>

\* A run of pages, and runs of operations on it.
Pages(first, n) == [k \in 1..n |-> first + k - 1]
Ops(op, pages) == [k \in DOMAIN pages |-> [op |-> op, page |-> pages[k], to |-> pages[k]]]
MapTo(pages, base) == [k \in DOMAIN pages |-> [op |-> "map", page |-> base + pages[k], to |-> pages[k]]]
Cache(pages, mode) == [k \in DOMAIN pages |-> [op |-> "cache", page |-> pages[k], to |-> mode]]
Request(n) == <<[op |-> "request", page |-> n, to |-> n]>>
\* reserve, identity-map and set writable, as the code does for a device's page
Device(page) == Ops("mark", <<page>>) \o Ops("map", <<page>>) \o Ops("writable", <<page>>)

Usable == SelectSeq(machine.memory, LAMBDA e : e.usable)
Span(e) == e.base..e.base + e.pages - 1
UsableFrames == UNION {Span(Usable[k]) : k \in DOMAIN Usable}
Total == FoldLeft(LAMBDA n, e : n + e.pages, 0, machine.memory)
Covered == (Total \div 8) * 8       \* bitmap_adjusted_size: the bitmap's bytes are whole
KernelFrames == machine.kernel.first..machine.kernel.first + machine.kernel.pages - 1
WritableFrames == machine.kernel.writable_start..machine.kernel.writable_end - 1

\* The first of the largest usable regions holds the bitmap, in its first page.
BitmapFrame ==
    LET k == CHOOSE k \in DOMAIN Usable : \A l \in DOMAIN Usable :
                Usable[l].pages < Usable[k].pages \/ (Usable[l].pages = Usable[k].pages /\ k <= l)
    IN Usable[k].base

Init ==
    /\ machine \in Machines
    /\ stage = "pageframe" /\ todo = <<>>
    /\ mem = Memory(0, {})
    /\ s_pagetable_l4 = NoFrame
    /\ translation = [v \in Page |-> NoFrame] /\ writable = {}
    /\ symbols = [table |-> <<>>, before |-> <<0>>, map |-> <<>>]
    /\ s_pci_devices = <<>>
    /\ s_madt_info = madt_init(<<>>, 0)
    /\ redirection = [pin \in Pins |-> ResetEntry]
    /\ ConsoleInit

Stage(from, to) == todo = <<>> /\ stage = from /\ stage' = to

------------------------------------------------------------------------------
(* The page operations.                                                     *)

Operation(op) == todo # <<>> /\ Head(todo).op = op /\ todo' = Tail(todo)
opSame == <<machine, stage, s_pagetable_l4, symbols, s_pci_devices, s_madt_info, redirection, consoleVars>>

\* What the processor sees through the tables after a step.
See ==
    /\ translation' = [v \in Page |-> Translate(mem', s_pagetable_l4, v)]
    /\ writable' = {v \in Page : Writable(mem', s_pagetable_l4, v)}

MapPage ==
    /\ Operation("map")
    /\ mem' = paging_map_page(mem, s_pagetable_l4, Head(todo).page, Head(todo).to)
    /\ See
    /\ UNCHANGED opSame

SetWritable ==
    /\ Operation("writable")
    /\ mem' = paging_set_writable(mem, s_pagetable_l4, Head(todo).page)
    /\ See
    /\ UNCHANGED opSame

SetCache ==
    /\ Operation("cache")
    /\ mem' = paging_set_cache(mem, s_pagetable_l4, Head(todo).page, Head(todo).to)
    /\ See
    /\ UNCHANGED opSame

Mark_Anywhere ==
    /\ Operation("mark")
    /\ mem' = [mem EXCEPT !.used = @ \cup {Head(todo).page}]
    /\ UNCHANGED <<opSame, translation, writable>>

\* pageframe_reserve and pageframe_lock: a frame the bitmap does not cover is left alone, but for
\* the one behind the last.
Mark ==
    /\ Operation("mark")
    /\ mem' = [mem EXCEPT !.used = @ \cup ({Head(todo).page} \cap 0..mem.total)]
    /\ UNCHANGED <<opSame, translation, writable>>

\* pageframe_request_pages; the bitmap reads as free past its end.
RequestPages ==
    /\ Operation("request")
    /\ LET n == Head(todo).page
           Run(f) == f..f + n - 1
           fits == {f \in mem.index..mem.total - 1 : Run(f) \cap mem.used = {}}
           f == Min(fits)
       IN mem' = IF fits = {} THEN [mem EXCEPT !.index = Max({@, mem.total}), !.short = TRUE]
                 ELSE [mem EXCEPT !.used = @ \cup (Run(f) \cap 0..mem.total), !.index = f + n,
                                  !.short = @ \/ f + n > mem.total]
    /\ UNCHANGED <<opSame, translation, writable>>

------------------------------------------------------------------------------
(* The stages.                                                              *)

stageSame == <<machine, translation, writable, consoleVars>>

Unusable == 0..Total - 1 \ UsableFrames
Locked == {BitmapFrame} \cup KernelFrames \cup 0..InitialReserve - 1
stageRest == <<symbols, s_pci_devices, s_madt_info, redirection>>

setup_memory_BitmapFree ==
    /\ Stage("pageframe", "paging")
    /\ mem' = Memory(Covered, (Unusable \cup (Locked \ {BitmapFrame})) \cap 0..Covered)
    /\ todo' = Ops("mark", machine.framebuffer) \o Ops("mark", Pages(TrampolineTarget, TrampolineLock))
    /\ UNCHANGED <<s_pagetable_l4, stageRest, stageSame>>

\* pageframe_init marks everything, frees what is usable and locks what is in use; then the
\* reservations of setup_memory.
setup_memory ==
    /\ Stage("pageframe", "paging")
    /\ mem' = Memory(Covered, (Unusable \cup Locked) \cap 0..Covered)
    /\ todo' = Ops("mark", machine.framebuffer) \o Ops("mark", Pages(TrampolineTarget, TrampolineLock))
    /\ UNCHANGED <<s_pagetable_l4, stageRest, stageSame>>

\* A page of the kernel: mapped at its virtual address, writable if it lies in the writable part.
KernelPage(f) ==
    MapTo(<<f>>, KernelBase)
        \o (IF f \in WritableFrames THEN Ops("writable", <<KernelBase + f>>) ELSE <<>>)

paging_init_AllWritable ==
    /\ Stage("paging", "symbols")
    /\ LET r == NewTable(mem) IN mem' = r.m /\ s_pagetable_l4' = r.page
    /\ todo' = MapTo(Pages(machine.kernel.first, machine.kernel.pages), KernelBase)
               \o Ops("writable", Pages(KernelBase + machine.kernel.first, machine.kernel.pages))
               \o FlattenSeq([k \in DOMAIN Usable |->
                     Ops("map", Pages(Usable[k].base, Usable[k].pages))
                         \o Ops("writable", Pages(Usable[k].base, Usable[k].pages))])
               \o Ops("map", Pages(0, Total))
               \o Ops("map", machine.framebuffer) \o Ops("writable", machine.framebuffer)
    /\ UNCHANGED <<stageRest, stageSame>>

\* paging_init, and the framebuffer.
paging_init ==
    /\ Stage("paging", "symbols")
    /\ LET r == NewTable(mem) IN mem' = r.m /\ s_pagetable_l4' = r.page
    /\ todo' = FlattenSeq([k \in 1..machine.kernel.pages |-> KernelPage(machine.kernel.first + k - 1)])
               \o FlattenSeq([k \in DOMAIN Usable |->
                     Ops("map", Pages(Usable[k].base, Usable[k].pages))
                         \o Ops("writable", Pages(Usable[k].base, Usable[k].pages))])
               \o Ops("map", Pages(0, Total))
               \o Ops("map", machine.framebuffer) \o Ops("writable", machine.framebuffer)
    /\ UNCHANGED <<stageRest, stageSame>>

\* symbol_init: the parts of the kernel's file are reserved, the map is requested and filled.
symbol_init ==
    /\ Stage("symbols", "pci")
    /\ todo' = Ops("mark", machine.file) \o Request(1)
    /\ \E t \in machine.tables, b \in machine.before :
          symbols' = [table |-> t, before |-> b, map |-> symbol_map(b, t)]
    /\ UNCHANGED <<mem, s_pagetable_l4, s_pci_devices, s_madt_info, redirection, stageSame>>

\* The page of a function on a bus of an MCFG descriptor; device 0 starts at the bus, function 0 at
\* the device.
BusPage(mcfg, bus) == mcfg.base + bus * PciDevices * PciFunctions
PciPage(bus, device, function) == bus + device * PciFunctions + function
Answers(page) == page \in machine.pci
Probe(page) == Ops("mark", <<page>>) \o Ops("map", <<page>>)

FunctionPages(bus, device) == [f \in 1..PciFunctions |-> PciPage(bus, device, f - 1)]
DevicePages(bus) == [d \in 1..PciDevices |-> PciPage(bus, d - 1, 0)]
BusPages ==
    FlattenSeq([t \in DOMAIN machine.mcfg |->
        LET mcfg == machine.mcfg[t]
        IN [k \in 1..mcfg.bus_end - mcfg.bus_start |-> BusPage(mcfg, mcfg.bus_start + k - 1)]])

ProbeDevice(bus, d) ==
    Probe(PciPage(bus, d, 0))
        \o (IF Answers(PciPage(bus, d, 0))
            THEN FlattenSeq([f \in 1..PciFunctions |-> Probe(FunctionPages(bus, d)[f])]) ELSE <<>>)
ProbeBus(bus) ==
    Probe(bus)
        \o (IF Answers(bus) THEN FlattenSeq([d \in 1..PciDevices |-> ProbeDevice(bus, d - 1)]) ELSE <<>>)

\* Devices behind a bus whose first function answers, functions behind a device that does.
FoundOn(bus) ==
    IF ~Answers(bus) THEN <<>>
    ELSE FlattenSeq([d \in 1..PciDevices |->
            IF Answers(DevicePages(bus)[d]) THEN SelectSeq(FunctionPages(bus, d - 1), Answers) ELSE <<>>])

pci_init ==
    /\ Stage("pci", "madt")
    /\ todo' = FlattenSeq([k \in DOMAIN BusPages |-> ProbeBus(BusPages[k])])
    /\ s_pci_devices' = FlattenSeq([k \in DOMAIN BusPages |-> FoundOn(BusPages[k])])
    /\ UNCHANGED <<mem, s_pagetable_l4, symbols, s_madt_info, redirection, stageSame>>

\* madt_init: the I/O APICs as their records come, the local APIC at the end.
setup_madt ==
    /\ Stage("madt", "apic")
    /\ \E records \in machine.records :
          LET info == madt_init(records, machine.local_apic)
          IN /\ s_madt_info' = info
             /\ todo' = Ops("mark", machine.madt)
                        \o FlattenSeq([k \in DOMAIN info.ioapics |-> Device(info.ioapics[k].page)])
                        \o Device(info.local_apic_ptr)
    /\ UNCHANGED <<mem, s_pagetable_l4, symbols, s_pci_devices, redirection, stageSame>>

\* local_apic_init: the page of the trampoline is locked and made writable.
local_apic_init ==
    /\ Stage("apic", "interrupts")
    /\ todo' = Ops("mark", <<TrampolineTarget>>) \o Ops("writable", <<TrampolineTarget>>)
    /\ UNCHANGED <<mem, s_pagetable_l4, stageRest, stageSame>>

setup_interrupt_prep ==
    /\ Stage("interrupts", "cpu")
    /\ redirection' = ioapic_set_from_isrs(ioapic_init(redirection, s_madt_info.isos), s_madt_info.isos)
    /\ UNCHANGED <<todo, mem, s_pagetable_l4, symbols, s_pci_devices, s_madt_info, stageSame>>

PAGE_PAT_UNCACHED == 0
PAGE_PAT_WRITE_COMBINE == 1

\* cpu_init on the boot processor: descriptor tables and stacks, then the cache policies.
cpu_init_bsp ==
    /\ Stage("cpu", "smp")
    /\ todo' = Request(1) \o Request(1) \o Request(2) \o Request(1)
               \o Cache(machine.framebuffer, PAGE_PAT_UNCACHED)
               \o Cache(<<KernelBase + machine.kernel.first + machine.kernel.pages - 1>>, PAGE_PAT_WRITE_COMBINE)
    /\ UNCHANGED <<mem, s_pagetable_l4, stageRest, stageSame>>

\* setup_smp after local_apic_start_smp (module SmpBoot).
setup_smp ==
    /\ Stage("smp", "running")
    /\ redirection' = ioapic_entry_set_mask(redirection, s_madt_info.isos, 32, TRUE)
    /\ UNCHANGED <<todo, mem, s_pagetable_l4, symbols, s_pci_devices, s_madt_info, stageSame>>

\* A write to the screen once the system runs.
Write ==
    /\ stage = "running" /\ str = <<>>
    /\ \E text \in machine.texts : \E n \in 0..Len(text) : sys_write(text, n)
    /\ UNCHANGED bootVars

Output == stage = "running" /\ ConsoleNext /\ UNCHANGED bootVars

Next ==
    \/ MapPage \/ SetWritable \/ SetCache \/ Mark \/ RequestPages
    \/ setup_memory \/ paging_init \/ symbol_init \/ pci_init \/ setup_madt \/ local_apic_init
    \/ setup_interrupt_prep \/ cpu_init_bsp \/ setup_smp
    \/ Write \/ Output

Spec == Init /\ [][Next]_vars

------------------------------------------------------------------------------
(* Properties.                                                              *)

\* Every variable has its type; in particular no frame is ever marked that the bitmap does not
\* cover, but for the one behind the last (pageframe_manipulate and bitmap_set).
TypeOK ==
    /\ stage \in {"pageframe", "paging", "symbols", "pci", "madt", "apic", "interrupts", "cpu", "smp",
                  "running"}
    /\ \A k \in DOMAIN todo : todo[k].op \in {"map", "writable", "cache", "mark", "request"}
    /\ mem.total \in Nat /\ mem.used \subseteq 0..mem.total /\ mem.index \in 0..mem.total + 1
    /\ DOMAIN mem.tables \subseteq Page /\ s_pagetable_l4 \in Page \cup {NoFrame}
    /\ translation \in [Page -> Page \cup {NoFrame}] /\ writable \subseteq Page
    /\ \A pin \in Pins : redirection[pin].vector \in 0..ISR_MAX - 1

\* To the processor the page tables are a map that changes at one page at a time: mapping a page
\* leaves every other page and all writability alone, and making a page writable makes that page and
\* no other so, although entries of upper levels are shared (paging_map_page, paging_set_attribute).
AddressSpace == INSTANCE AddressMap WITH Frame <- Page
PagingImplementsMap == AddressSpace!Spec

\* The frames page tables lie in are marked, usable memory, apart from the kernel, the bitmap, the
\* framebuffer and the trampoline; the tables form a tree; and no walk leaves it although the walks of
\* paging_set_attribute and paging_set_cache never look at a present bit.  This holds as long as
\* memory lasts: pageframe_request's NULL is not tested.
Children(T) == {e \in T \X (0..Fan - 1) : mem.tables[e[1]][e[2]].present}
Below(T) == {mem.tables[e[1]][e[2]].frame : e \in Children(T)}
TablesApart ==
    stage \notin {"pageframe", "paging"} /\ ~mem.short =>
        LET l4 == {s_pagetable_l4}
            l3 == Below(l4)
            l2 == Below(l3)
            tables == DOMAIN mem.tables
        IN /\ ~mem.stray
           /\ tables \subseteq (UsableFrames \cap mem.used)
                               \ (Locked \cup Range(machine.framebuffer) \cup {TrampolineTarget})
           /\ tables = l4 \cup l3 \cup l2 \cup Below(l2)
           /\ Cardinality(tables) = 1 + Cardinality(Children(l4) \cup Children(l3) \cup Children(l2))

\* The code and the constants of the kernel cannot be written through any page, also not through the
\* identity map; once paging_init is done, its data can be at its own address.
KernelProtected ==
    /\ \A v \in writable : translation[v] \notin KernelFrames \ WritableFrames
    /\ stage \notin {"pageframe", "paging"} /\ todo = <<>> =>
          \A f \in WritableFrames : KernelBase + f \in writable

\* Whatever the code is about to write to or read from is mapped for it by then: the framebuffer, the
\* I/O APICs and the local APIC at the address the firmware's last word gives, the trampoline's
\* target, the PCI functions found; and none of it can be handed out as free memory.
DevicesMapped ==
    LET Ready(page) == translation[page] = page /\ page \notin 0..mem.total - 1 \ mem.used
        irq == {s_madt_info.ioapics[k].page : k \in DOMAIN s_madt_info.ioapics} \cup {machine.apic}
        needed == CASE stage \in {"symbols", "pci", "madt"} -> Range(machine.framebuffer)
                    [] stage \in {"apic", "interrupts"} -> Range(machine.framebuffer) \cup irq
                    [] stage \in {"cpu", "smp", "running"} ->
                          Range(machine.framebuffer) \cup irq \cup {TrampolineTarget}
                    [] OTHER -> {}
    IN todo = <<>> => /\ \A page \in needed : Ready(page) /\ page \in writable
                      /\ \A k \in DOMAIN s_pci_devices : Ready(s_pci_devices[k])

\* symbol_lookup names the closest symbol at or below an address, the last one in the table if several
\* share its value, and fails only if that has no name; given that the word in front of the map is not
\* larger than the smallest symbol, and for addresses not below that.
SymbolsResolve ==
    LET table == symbols.table
        values == {table[k].st_value : k \in DOMAIN table} \ {0}
        Closest(address) == LET v == Max({w \in values : w <= address})
                            IN Max({k \in DOMAIN table : table[k].st_value = v})
    IN stage = "pci" /\ Last(symbols.before) <= Min(values) =>
          \A address \in Min(values)..Max(values) + 1 :
             symbol_lookup(table, symbols.map, machine.slide, address + machine.slide) =
                IF table[Closest(address)].st_name THEN Closest(address) ELSE FindFail

\* Each device interrupt with a handler comes in at the one pin the firmware names for it, and the PIT's
\* is shut off again after the processors are started; whatever is let through has a gate (ioapic_init,
\* ioapic_set_from_isrs and ioapic_entry_set_mask agree on the pins).
RoutesRight ==
    stage \in {"cpu", "smp", "running"} =>
        /\ \A n \in {n \in g_isr_handlers : n >= ISR_IRQ_START} :
              {pin \in Pins : ~redirection[pin].masked /\ redirection[pin].vector = n} =
                 IF n = 32 /\ stage = "running" THEN {} ELSE {PinOf(s_madt_info.isos, n - ISR_IRQ_START)}
        /\ \A pin \in Pins : redirection[pin].masked \/ redirection[pin].vector \in idt

\* When a write is done the screen shows its characters in order and in the colour that the last
\* sequence before each has set, nothing of a sequence, and no two glyphs in one place.
ConsoleShows ==
    LET shown == SetToSortSeq(Shown(str, size), LAMBDA a, b : a < b)
        Before(p, q) == p.y < q.y \/ (p.y = q.y /\ p.x < q.x)
    IN ~TextPending =>
          /\ Len(screen) = Len(shown)
          /\ \A k \in DOMAIN screen :
                /\ screen[k].chr = str[shown[k]]
                /\ screen[k].color = ColorAt(str, shown[k], "foreground")
                /\ screen[k].at.x < Width
                /\ \A j \in 1..k - 1 : Before(screen[j].at, screen[k].at)
==============================================================================
