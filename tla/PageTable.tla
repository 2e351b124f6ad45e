------------------------------ MODULE PageTable ------------------------------
(***************************************************************************)
(* Page tables in physical memory: mm/page_table.rs.  A descriptor is a    *)
(* word <<frame, attributes>>; a page table [root, tables] owns the frames *)
(* of its tables.  Addresses are page numbers.                             *)
(***************************************************************************)
EXTENDS FrameAllocator

CONSTANT LEVELS   \* levels of tables (4)

\* Mutant: only user pages can be read-only.
DescriptorAttr_RO(flags) ==
     {IF "DEVICE" \in flags THEN "Device" ELSE "Normal"}
  \union (IF "READ" \in flags THEN {"VALID"} ELSE {})
  \union (IF "USER" \notin flags \/ "WRITE" \in flags THEN {} ELSE {"AP_RO"})
  \union (IF "USER" \in flags THEN {"AP_EL0", "PXN"} ELSE {"UXN"})
  \union (IF "EXECUTE" \in flags THEN {} ELSE {"UXN", "PXN"})

\* The attribute bits that the code sets; the memory type counts as one.
DescriptorAttr(flags) ==
     {IF "DEVICE" \in flags THEN "Device" ELSE "Normal"}
  \union (IF "READ" \in flags THEN {"VALID"} ELSE {})
  \union (IF "WRITE" \in flags THEN {} ELSE {"AP_RO"})
  \union (IF "USER" \in flags THEN {"AP_EL0", "PXN"} ELSE {"UXN"})
  \union (IF "EXECUTE" \in flags THEN {} ELSE {"UXN", "PXN"})

MemFlags(attr) ==
     (IF "VALID" \in attr THEN {"READ"} ELSE {})
  \union (IF "AP_RO" \in attr THEN {} ELSE {"WRITE"})
  \union (IF "AP_EL0" \in attr THEN {"USER"} ELSE {})
  \union (IF (IF "AP_EL0" \in attr THEN "UXN" ELSE "PXN") \in attr THEN {} ELSE {"EXECUTE"})
  \union (IF "Device" \in attr THEN {"DEVICE"} ELSE {})

new_page(frame, flags) == <<frame, DescriptorAttr(flags) \union {"AF", "NON_BLOCK"}>>
new_table(frame)       == <<frame, {"NON_BLOCK", "VALID"}>>

is_unused(e)  == e = <<>>
is_present(e) == e # <<>> /\ "VALID" \in e[2]

\* Levels count down to the level whose entries are pages.
index(level, va) == (va \div ENTRY_COUNT ^ (level - 1)) % ENTRY_COUNT
Down == [i \in 1 .. LEVELS - 1 |-> LEVELS + 1 - i]

\* PageTable::new.
Rooted(a) == [m |-> a.m, pt |-> [root |-> a.frame, tables |-> <<a.frame>>]]
new_pt(m) == Rooted(alloc_zero(m))

\* The last table on the way to va, NoFrame where the way ends.
Target(e) == IF is_present(e) THEN e[1] ELSE NoFrame

WalkFrom(mem, root, va) ==
  FoldLeft(LAMBDA t, l : IF t = NoFrame THEN t ELSE Target(mem[t][index(l, va)]), root, Down)

\* The descriptor of a page, as hardware and PageTable::query find it.
PageIn(mem, t, va) == IF t = NoFrame THEN <<>> ELSE mem[t][index(1, va)]
Descriptor(mem, root, va) == PageIn(mem, WalkFrom(mem, root, va), va)

Decoded(e) == IF is_unused(e) THEN <<>> ELSE <<e[1], MemFlags(e[2])>>
query(m, pt, va) == Decoded(Descriptor(m.mem, pt.root, va))

\* One level down from table h.t in h = [g, t]: the table that is there, or a
\* new one.
AddTable(h, i, a) ==
  IF a.frame = NoFrame THEN [h EXCEPT !.g.m = a.m]
  ELSE [g |-> [h.g EXCEPT !.m = [a.m EXCEPT !.mem[h.t][i] = new_table(a.frame)],
                          !.pt.tables = Append(@, a.frame)],
        t |-> a.frame]

next_table_mut_or_create(h, i) ==
  LET e == h.g.m.mem[h.t][i]
  IN  IF h.g.m.status # "ok" THEN h
      ELSE IF is_present(e) /\ "NON_BLOCK" \in e[2] THEN [h EXCEPT !.t = e[1]]
      ELSE IF ~is_unused(e) THEN [h EXCEPT !.g.m = panic(@, "no table")]
      ELSE AddTable(h, i, alloc_zero(h.g.m))

\* get_entry_mut_or_create: g = [m, pt, ...] with the tables made on the way.
create_tables(g, va) ==
  FoldLeft(LAMBDA h, l : next_table_mut_or_create(h, index(l, va)),
           [g |-> g, t |-> g.pt.root], Down)

SetPage(h, i, frame, flags) ==
  IF h.g.m.status # "ok" THEN h.g
  ELSE IF ~is_unused(h.g.m.mem[h.t][i]) THEN [h.g EXCEPT !.m = panic(@, "mapped before")]
  ELSE [h.g EXCEPT !.m.mem[h.t][i] = new_page(frame, flags)]

map(g, va, frame, flags) == SetPage(create_tables(g, va), index(1, va), frame, flags)

ClearPage(m, t, i) ==
  IF m.status # "ok" THEN m
  ELSE IF t = NoFrame THEN panic(m, "unwrap")
  ELSE IF is_unused(m.mem[t][i]) THEN panic(m, "invalid before unmapping")
  ELSE [m EXCEPT !.mem[t][i] = <<>>]

unmap(m, pt, va) == ClearPage(m, WalkFrom(m.mem, pt.root, va), index(1, va))
=============================================================================
