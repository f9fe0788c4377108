------------------------------ MODULE Interrupts ------------------------------
(****************************************************************************)
(* The tables that route interrupts: what madt_init takes from the          *)
(* firmware's records, the handlers of isr.c, the gates of idt.c, and the   *)
(* redirection table of the first I/O APIC (ioapic.c).                      *)
(****************************************************************************)
EXTENDS Integers, Sequences, SequencesExt

ISR_IRQ_START == 32
ISR_MAX == 256

\* isr_init and idt_init.
g_isr_handlers == {8, 13, 14, 32, 33, 39, 48}
idt == {8, 10, 11, 13, 14, 32, 33} \cup 35..47 \cup {48}

isr_exists(n) == n \in g_isr_handlers

\* The lists of MADTInformation, in the order of the records; the last override of the local APIC's
\* address counts.
OfType(records, type) == SelectSeq(records, LAMBDA r : r.type = type)

madt_init(records, local_apic_address) ==
    LET overrides == OfType(records, "local_apic_override")
    IN [processors |-> OfType(records, "processor"), ioapics |-> OfType(records, "ioapic"),
        isos |-> OfType(records, "iso"), nmis |-> OfType(records, "nmi"),
        local_apic_ptr |-> IF overrides = <<>> THEN local_apic_address ELSE Last(overrides).page]

\* A redirection entry after reset lets nothing through.
ResetEntry == [vector |-> 0, masked |-> TRUE, active_low |-> FALSE, level |-> FALSE]

Route(table, pin, vector, flags) ==
    [table EXCEPT ![pin] = [vector |-> vector, masked |-> FALSE,
                            active_low |-> flags.polarity = 3, level |-> flags.trigger = 3]]

\* The flags of an interrupt that follows the bus: active high, edge triggered.
BusFlags == [polarity |-> 0, trigger |-> 0]

ioapic_init(table, isos) ==
    FoldLeft(LAMBDA t, iso : Route(t, iso.global_interrupt, iso.source + ISR_IRQ_START, iso.flags),
             table, isos)

Overridden(isos, source) == \E j \in DOMAIN isos : isos[j].source = source

ioapic_set_from_isrs_All(table, isos) ==
    LET irqs == {n \in ISR_IRQ_START..ISR_MAX - 1 : isr_exists(n)}
    IN FoldLeft(LAMBDA t, n : Route(t, n - ISR_IRQ_START, n, BusFlags), table,
                SetToSortSeq(irqs, LAMBDA a, b : a < b))

\* Every handler's interrupt, except those an override has placed already.
ioapic_set_from_isrs(table, isos) ==
    LET irqs == {n \in ISR_IRQ_START..ISR_MAX - 1 :
                    isr_exists(n) /\ ~Overridden(isos, n - ISR_IRQ_START)}
    IN FoldLeft(LAMBDA t, n : Route(t, n - ISR_IRQ_START, n, BusFlags), table,
                SetToSortSeq(irqs, LAMBDA a, b : a < b))

\* The pin of a source: the first override of it, or the pin of the same number.
PinOf(isos, source) ==
    IF Overridden(isos, source)
    THEN isos[SelectInSeq(isos, LAMBDA iso : iso.source = source)].global_interrupt ELSE source

ioapic_entry_set_mask(table, isos, isr_num, masked) ==
    [table EXCEPT ![PinOf(isos, isr_num - ISR_IRQ_START)].masked = masked]
==============================================================================
