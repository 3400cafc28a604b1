------------------------------ MODULE Chunker -------------------------------
(***************************************************************************)
(* How a version of a wiki page is cut into chunks: wiki/chunk.rs.  A page *)
(* is a sequence of lines; a line is what the chunker sees of it: its      *)
(* bytes, its newline included, the width of its characters, whether it is *)
(* blank, a heading, a table row, or begins with a fence mark.  A page is  *)
(* written line by line, so that every short page is reached.              *)
(***************************************************************************)
EXTENDS Integers, Sequences, SequencesExt

CONSTANTS
  Lines,           \* the lines that a page is written with
  MaxLines,        \* bound: lines of a page
  TargetMin, TargetMax, HardMax, AtomicMax,   \* CHUNK_TARGET_MIN, ...
  MaxChunks        \* MAX_CHUNKS_PER_VERSION

VARIABLES
  page,            \* the lines as written
  lines,           \* the lines of the normalized page, scanned
  units,           \* the units of its sections
  chunks           \* its chunks

chunkVars == <<page, lines, units, chunks>>

\* A line has at least its newline, no character is wider than the hard limit
\* (four bytes), and the limits are in the order of chunk.rs:18-31.
ASSUME ChunkAssumption ==
  /\ MaxLines \in Nat /\ TargetMin \in Nat /\ MaxChunks \in Nat \ {0}
  /\ TargetMax \in Nat /\ HardMax \in TargetMax..AtomicMax /\ AtomicMax \in Nat
  /\ \A line \in Lines :
       /\ line.len \in Nat \ {0} /\ line.width \in 1..HardMax
       /\ line.run \in Nat /\ line.level \in Nat
       /\ line.kind = "heading" => line.level > 0

\* normalize_content: no blank lines at either end.
Normalized(written) ==
  LET solid == {i \in 1..Len(written) : written[i].kind # "blank"} IN
  IF solid = {} THEN <<>>
  ELSE SubSeq(written, CHOOSE i \in solid : \A j \in solid : i <= j,
                     CHOOSE i \in solid : \A j \in solid : i >= j)

-----------------------------------------------------------------------------
(* Lines, units and sections                                               *)

NoFence == [mark |-> "none", run |-> 0]

\* FenceTracker: a fence is closed by a run of its own mark, as long or longer.
FenceAfter(fence, line) ==
  IF fence = NoFence
    THEN IF line.run >= 3 THEN [mark |-> line.mark, run |-> line.run] ELSE NoFence
  ELSE IF line.mark = fence.mark /\ line.run >= fence.run THEN NoFence
  ELSE fence

\* The heading stack: cut to the levels above, then pushed.
PathAfter(path, line) ==
  Append(SubSeq(path, 1, IF Len(path) < line.level - 1 THEN Len(path) ELSE line.level - 1),
         line.title)

\* scan_lines: what is in force after a line; h1 to h3 divide.
Divides(before, line) ==
  /\ line.kind = "heading" /\ line.level <= 3
  /\ before.fence = NoFence /\ FenceAfter(before.fence, line) = NoFence
AfterLine(before, line) ==
  [fence |-> FenceAfter(before.fence, line), end |-> before.end + line.len,
   path |-> IF Divides(before, line) THEN PathAfter(before.path, line) ELSE before.path]

\* The delimiters of a fence are inside it.  A scanned line also has the
\* heading path in force.
Scanned(before, after, line) ==
  LET inside == before.fence # NoFence \/ after.fence # NoFence IN
  [start |-> before.end, end |-> after.end, blank |-> line.kind = "blank", inFence |-> inside,
   table |-> line.kind = "table" /\ ~inside, boundary |-> Divides(before, line),
   level |-> line.level, title |-> line.title, width |-> line.width, path |-> after.path]

Unscanned == [fence |-> NoFence, end |-> 0, path |-> <<>>]
scan_lines(written) ==
  LET state[n \in 0..Len(written)] ==
        IF n = 0 THEN Unscanned ELSE AfterLine(state[n - 1], written[n])
  IN  [n \in 1..Len(written) |-> Scanned(state[n - 1], state[n], written[n])]

\* split_sections: a unit begins at a heading, which begins a section, or after
\* blank lines outside of a fence.
One(b) == IF b THEN 1 ELSE 0
AddLine(state, line) ==
  LET last == Len(state.units)
      section == state.section + One(line.boundary)
  IN  [section |-> section, afterBlank |-> line.blank /\ ~line.inFence,
       units |->
         IF state.units = <<>> \/ line.boundary \/ (state.afterBlank /\ ~line.blank)
           THEN Append(state.units,
                  [start |-> line.start, end |-> line.end, fence |-> line.inFence,
                   tables |-> One(line.table), rows |-> One(~line.blank),
                   path |-> line.path, section |-> section])
           ELSE [state.units EXCEPT
                  ![last].end = line.end, ![last].fence = @ \/ line.inFence,
                  ![last].tables = @ + One(line.table), ![last].rows = @ + One(~line.blank)]]

NoUnits == [section |-> 0, afterBlank |-> FALSE, units |-> <<>>]
split_sections(scan) ==
  LET state[n \in 0..Len(scan)] ==
        IF n = 0 THEN NoUnits ELSE AddLine(state[n - 1], scan[n])
  IN  state[Len(scan)].units

\* A unit with a fence, or mostly a table.
Atomic(unit) == unit.fence \/ 2 * unit.tables > unit.rows

-----------------------------------------------------------------------------
(* Chunks                                                                  *)

\* pack_section: units are joined while the chunk stays below the target.
PackUnit(done, u) ==
  LET last == Len(done) IN
  IF done # <<>> /\ done[last].section = u.section
       /\ (done[last].end - done[last].start) + (u.end - u.start) <= TargetMax
    THEN [done EXCEPT ![last].end = u.end, ![last].atomic = FALSE]
  ELSE Append(done, [start |-> u.start, end |-> u.end, atomic |-> Atomic(u),
                     path |-> u.path, section |-> u.section])

Packs(us) ==
  LET done[n \in 0..Len(us)] == IF n = 0 THEN <<>> ELSE PackUnit(done[n - 1], us[n])
  IN  done[Len(us)]

\* floor_char_boundary, for a position within line i.
CharFloor(scan, i, pos) == pos - ((pos - scan[i].start) % scan[i].width)

\* force_split: cut before the line that would not fit, and within a line
\* that alone does not fit, between two of its characters; to the end when
\* every further line fits, or cannot be cut.
CutAt(scan, i, from, max) ==
  IF scan[i].start > from THEN scan[i].start ELSE CharFloor(scan, i, from + max)
NextCut(scan, from, to, max) ==
  LET cuttable == {i \in 1..Len(scan) : /\ scan[i].end <= to /\ scan[i].end - from > max
                                       /\ CutAt(scan, i, from, max) > from}
  IN  IF cuttable = {} THEN to
      ELSE CutAt(scan, CHOOSE i \in cuttable : \A j \in cuttable : i <= j, from, max)

ForceSplit(scan, pack, max) ==
  LET cut[n \in 0..pack.end - pack.start] ==
        IF n = 0 THEN pack.start ELSE NextCut(scan, cut[n - 1], pack.end, max)
      pieces == CHOOSE n \in 1..pack.end - pack.start :
                  cut[n] = pack.end /\ \A m \in 1..n - 1 : cut[m] # pack.end
  IN  [k \in 1..pieces |->
         [path |-> pack.path, start |-> cut[k - 1], end |-> cut[k], forced |-> TRUE]]

\* An atomic unit has a cap of its own.
CapOf(pack) == IF pack.atomic THEN AtomicMax ELSE HardMax
DraftsOf(scan, pack) ==
  IF pack.end - pack.start > CapOf(pack) THEN ForceSplit(scan, pack, CapOf(pack))
  ELSE <<[path |-> pack.path, start |-> pack.start, end |-> pack.end, forced |-> FALSE]>>
Drafts(scan, packs) ==
  LET drafts[n \in 0..Len(packs)] ==
        IF n = 0 THEN <<>> ELSE drafts[n - 1] \o DraftsOf(scan, packs[n])
  IN  drafts[Len(packs)]

CommonPrefix(a, b) ==
  LET same == {n \in 0..Len(a) : n <= Len(b) /\ SubSeq(a, 1, n) = SubSeq(b, 1, n)} IN
  SubSeq(a, 1, CHOOSE n \in same : \A m \in same : m <= n)

\* merge_small_siblings.
Siblings(a, b) ==
  LET common == Len(CommonPrefix(a, b)) IN
  a = b \/ (common >= 1 /\ Len(a) <= common + 1 /\ Len(b) <= common + 1)
Mergeable(a, b) ==
  /\ a.end - a.start < TargetMin
  /\ ~a.forced /\ ~b.forced
  /\ b.end - a.start <= TargetMax
  /\ Siblings(a.path, b.path)
\* Mutant: a merged chunk keeps the path of its first part.
MergeUnderFirst(done, b) ==
  LET last == Len(done) IN
  IF done # <<>> /\ Mergeable(done[last], b) THEN [done EXCEPT ![last].end = b.end]
  ELSE Append(done, b)

MergeDraft(done, b) ==
  LET last == Len(done) IN
  IF done # <<>> /\ Mergeable(done[last], b)
    THEN [done EXCEPT ![last].end = b.end, ![last].path = CommonPrefix(@, b.path)]
  ELSE Append(done, b)

Merged(drafts) ==
  LET done[n \in 0..Len(drafts)] == IF n = 0 THEN <<>> ELSE MergeDraft(done[n - 1], drafts[n])
  IN  done[Len(drafts)]

\* halve_adjacent, until the cap holds.
Halved(drafts) ==
  [k \in 1..((Len(drafts) + 1) \div 2) |->
     LET a == drafts[2 * k - 1] IN
     IF 2 * k > Len(drafts) THEN a
     ELSE LET b == drafts[2 * k] IN
          [path |-> CommonPrefix(a.path, b.path), start |-> a.start, end |-> b.end,
           forced |-> a.forced \/ b.forced]]
Cap(drafts) == IF Len(drafts) > MaxChunks THEN Halved(drafts) ELSE drafts
Capped(drafts) ==
  LET after[n \in 0..Len(drafts)] == IF n = 0 THEN drafts ELSE Cap(after[n - 1])
  IN  after[Len(drafts)]

Joined(scan, us) == Merged(Drafts(scan, Packs(us)))

-----------------------------------------------------------------------------
ChunkInit == page = <<>> /\ lines = <<>> /\ units = <<>> /\ chunks = <<>>

\* chunk_markdown.
WriteLine ==
  /\ Len(page) < MaxLines
  /\ \E line \in Lines : page' = Append(page, line)
  /\ lines' = scan_lines(Normalized(page'))
  /\ units' = split_sections(lines')
  /\ chunks' = Capped(Joined(lines', units'))

ChunkSpec == ChunkInit /\ [][WriteLine]_chunkVars

-----------------------------------------------------------------------------
(* Properties                                                              *)

\* The lines that begin in a chunk.
LinesOf(k) == {i \in 1..Len(lines) : chunks[k].start <= lines[i].start /\ lines[i].start < chunks[k].end}

Joinable == Len(Joined(lines, units)) <= MaxChunks

\* chunk.rs:3: the chunks tile the content, with no gap, overlap or empty one,
\* and every cut falls between two characters.
ChunksTile ==
  lines # <<>> =>
    /\ chunks # <<>> /\ chunks[1].start = 0 /\ Last(chunks).end = Last(lines).end
    /\ \A k \in 1..Len(chunks) - 1 : chunks[k].end = chunks[k + 1].start
    /\ \A k \in 1..Len(chunks) : chunks[k].start < chunks[k].end
    /\ \A k \in 1..Len(chunks), i \in 1..Len(lines) :
         chunks[k].start \in lines[i].start..lines[i].end - 1
           => (chunks[k].start - lines[i].start) % lines[i].width = 0

\* A chunk is bounded, and one with nothing of an atomic unit more tightly,
\* except in a page of so many chunks that they are joined; their number is.
ChunksAreBounded ==
  /\ Len(chunks) <= MaxChunks
  /\ Joinable =>
       \A k \in 1..Len(chunks) :
         /\ chunks[k].end - chunks[k].start <= AtomicMax
         /\ \/ chunks[k].end - chunks[k].start <= HardMax
            \/ \E u \in Range(units) :
                 Atomic(u) /\ u.start < chunks[k].end /\ chunks[k].start < u.end

\* A fence or a table of bearable size is not torn between two chunks.
AtomicUnitsStayWhole ==
  \A u \in Range(units) :
    Atomic(u) /\ u.end - u.start <= AtomicMax =>
      \E k \in 1..Len(chunks) : chunks[k].start <= u.start /\ u.end <= chunks[k].end

\* The heading path of a chunk is common to the paths of all its lines,
\* however it was joined; a chunk joined for its smallness keeps a heading.
PathsCoverTheirLines ==
  \A k \in 1..Len(chunks) : \A i \in LinesOf(k) :
    /\ IsPrefix(chunks[k].path, lines[i].path)
    /\ Joinable /\ lines[i].path # <<>> => chunks[k].path # <<>>

\* chunk.rs:500: the path of a chunk is "honest about what the chunk covers":
\* every heading of it is above all of the chunk's lines in the outline.
Above(i) == {h \in 1..i : /\ lines[h].boundary
                          /\ \A j \in h + 1..i : lines[j].boundary => lines[j].level > lines[h].level}
PathsAreHonest ==
  \A k \in 1..Len(chunks) : \A i \in LinesOf(k) :
    \A p \in 1..Len(chunks[k].path) : \E h \in Above(i) : lines[h].title = chunks[k].path[p]

\* The chunks of a page are the page, in pieces fit for a search.
ChunkingIsSound ==
  ChunksTile /\ ChunksAreBounded /\ AtomicUnitsStayWhole /\ PathsCoverTheirLines
=============================================================================
