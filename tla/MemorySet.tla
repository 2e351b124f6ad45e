------------------------------ MODULE MemorySet ------------------------------
(***************************************************************************)
(* Memory areas and the sets of them that make an address space:           *)
(* mm/memory_set.rs.                                                       *)
(*                                                                         *)
(* An area is [start, size, flags, mapper]; its mapper is the function from *)
(* its pages to the frames that it owns, or Offset.   A memory set is     *)
(* [pt, areas], the areas in the order of their start.                     *)
(* g = [m, pt, area] is an area on its way into a memory set.              *)
(***************************************************************************)
EXTENDS PageTable

CONSTANTS USER_STACK_TOP, USER_STACK_SIZE,   \* in pages
          PHYS_VIRT_OFFSET,                  \* from frames to kernel pages
          Offset                             \* the mapper that has no frames

new_framed(start, size, flags) ==
  [start |-> start, size |-> size, flags |-> flags, mapper |-> <<>>]

Pages(area) == area.start .. area.start + area.size - 1
Each(area)  == [i \in 1 .. area.size |-> area.start + i - 1]

\* The same function with f at x.
With(fun, x, f) == [y \in DOMAIN fun \union {x} |-> IF y = x THEN f ELSE fun[y]]

\* Page va gets the frame a, unless it has one or needs none.
Backed(g, va, a) ==
  IF g.m.status # "ok" \/ g.area.mapper = Offset \/ va \in DOMAIN g.area.mapper THEN g
  ELSE IF a.frame = NoFrame THEN [g EXCEPT !.m = a.m]
  ELSE [g EXCEPT !.m = a.m, !.area.mapper = With(@, va, a.frame)]


\* MapArea::map: the page has a frame.
area_map(g, va) == Backed(g, va, alloc_zero(g.m))

paddr(area, va) == IF area.mapper = Offset THEN va - PHYS_VIRT_OFFSET ELSE area.mapper[va]

\* MapArea::unmap: the frame is dropped.
area_unmap(m, area, va) ==
  IF area.mapper # Offset /\ va \in DOMAIN area.mapper THEN dealloc(m, area.mapper[va]) ELSE m

\* MapArea::write_data, a word for each page, from the first page on.
SetWord(g, va, word) ==
  IF g.m.status # "ok" THEN g ELSE [g EXCEPT !.m.mem[g.area.mapper[va]][0] = word]

write_data(g, data) ==
  LET start == g.area.start
  IN  IF Len(data) > g.area.size \/ g.area.size = 0 THEN [g EXCEPT !.m = panic(@, "assert")]
      ELSE FoldLeft(LAMBDA h, va : SetWord(area_map(h, va), va, data[va - start + 1]), g,
                    [i \in 1 .. Len(data) |-> start + i - 1])

\* MapArea::clone: all its frames, copied.
WithFrame(h, va, a) ==
  [m |-> a.m, area |-> [h.area EXCEPT !.mapper = With(@, va, a.frame)]]

area_clone(m, area) ==
  IF area.mapper = Offset THEN [m |-> m, area |-> area]
  ELSE FoldLeft(LAMBDA h, va : WithFrame(h, va, Filled(alloc(h.m), h.m.mem[area.mapper[va]])),
                [m |-> m, area |-> [area EXCEPT !.mapper = <<>>]],
                SelectSeq(Each(area), LAMBDA va : va \in DOMAIN area.mapper))

----------------------------------------------------------------------------

\* A page that has its frame goes into the tables.
MapPage(g, va) ==
  IF g.m.status # "ok" THEN g ELSE map(g, va, paddr(g.area, va), g.area.flags)

\* Mutant: the last page is left out.
map_area_Short(g) ==
  FoldLeft(LAMBDA h, va : IF va = h.area.start + h.area.size - 1 THEN area_map(h, va)
                          ELSE MapPage(area_map(h, va), va), g, Each(g.area))

map_area(g) == FoldLeft(LAMBDA h, va : MapPage(area_map(h, va), va), g, Each(g.area))

unmap_area(m, pt, area) ==
  FoldLeft(LAMBDA n, va : unmap(area_unmap(n, area, va), pt, va), m, Each(area))

\* MemorySet::new.  A memory set comes with the memory it is in: [m, pt, areas].
Empty(p) == [m |-> p.m, pt |-> p.pt, areas |-> <<>>]
new_set(m) == Empty(new_pt(m))

Sorted(areas, a) ==
  SelectSeq(areas, LAMBDA b : b.start < a.start) \o <<a>>
    \o SelectSeq(areas, LAMBDA b : b.start > a.start)

\* MemorySet::insert.  The test of the size is true for every size that there is.
Joined(areas, g) == [m |-> g.m, pt |-> g.pt, areas |-> Sorted(areas, g.area)]

insert(ms, m, area) ==
  IF m.status # "ok" THEN [ms EXCEPT !.m = m]
  ELSE IF \E a \in ToSet(ms.areas) : a.start = area.start
  THEN [ms EXCEPT !.m = panic(m, "is existed")]
  ELSE Joined(ms.areas, map_area([m |-> m, pt |-> ms.pt, area |-> area]))

StackArea(bottom) == new_framed(bottom, USER_STACK_SIZE, {"READ", "WRITE", "USER"})

\* A program is a sequence of page-aligned segments [start, size, flags, data].
InsertLoaded(ms, g) == insert(ms, g.m, g.area)

LoadSegment(ms, seg) ==
  InsertLoaded(ms, write_data(
    [m |-> ms.m, pt |-> ms.pt,
     area |-> new_framed(seg.start, seg.size, seg.flags \union {"USER"})], seg.data))

AddStack(ms, bottom) == insert(ms, ms.m, StackArea(bottom))

load_user(ms, program) ==
  AddStack(FoldLeft(LoadSegment, ms, program), USER_STACK_TOP - USER_STACK_SIZE)

\* MemorySet::clear: the tables stay.
clear(ms) ==
  [ms EXCEPT !.m = FoldLeft(LAMBDA n, a : unmap_area(n, ms.pt, a), @, ms.areas),
             !.areas = <<>>]

\* MemorySet::clone, of areas into new tables.
clone(ms) ==
  FoldLeft(LAMBDA n, area : InsertLoaded(n, area_clone(n.m, area)), new_set(ms.m), ms.areas)

\* Mutants: the tables other than the root are left behind; the root goes twice.
drop_set_Root(ms) == DropAll(clear(ms).m, <<ms.pt.root>>)
drop_set_Twice(ms) == DropAll(clear(ms).m, Append(ms.pt.tables, ms.pt.root))

\* Dropping a memory set: what is mapped, then the tables.
drop_set(ms) == DropAll(clear(ms).m, ms.pt.tables)

\* init_paging: sections [start, end, flags] of kernel pages, mapped where they are.
init_paging(m, sections) ==
  FoldLeft(LAMBDA n, sec :
             insert(n, IF sec.start < sec.end THEN n.m ELSE panic(n.m, "assert"),
                    [start |-> sec.start, size |-> sec.end - sec.start, flags |-> sec.flags,
                     mapper |-> Offset]),
           new_set(m), sections)
=============================================================================
