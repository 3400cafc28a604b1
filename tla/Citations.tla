------------------------------ MODULE Citations ------------------------------
(***************************************************************************)
(* Searching, reading and verifying one space's wiki (wiki/mod.rs) while   *)
(* commits replace the chunk rows that the readers look at.  A version's   *)
(* text is its parts in their order; its chunk rows hold one part each.    *)
(* A query of the database, AndaDB's own code, is atomic here; readers do  *)
(* several of them and hold no lock.                                       *)
(***************************************************************************)
EXTENDS Naturals, FiniteSets, FiniteSetsExt

CONSTANTS
  DocTags,       \* [documents -> sets of tags]
  SectionOf,     \* [parts -> sections], the same for every version
  Requests,      \* [docs, tags], the filters of searches
  MaxExpand,     \* neighbours on either side
  MaxVersion     \* bound

Documents == DOMAIN DocTags
Parts == DOMAIN SectionOf

\* Ordinals are counted through.
ASSUME CitationsAssumption ==
  MaxExpand \in Nat /\ MaxVersion \in Nat /\ IsFiniteSet(Parts) /\ Parts = 1..Cardinality(Parts)

VARIABLES
  current,   \* the current version of each document
  rows,      \* chunk rows, [doc, version, part]
  shown,     \* those whose current flag is 1
  commit,    \* the commit in progress
  reader,    \* a search or a read in progress
  hits,      \* the citation last handed out, if that was a search
  sections   \* the section last handed out, if it was a read

citeVars == <<current, rows, shown, commit, reader, hits, sections>>

NoCommit == [doc |-> 0, step |-> "none"]
NoReader == [at |-> "idle"]
RowsOf(d, v) == { r \in rows : r.doc = d /\ r.version = v }
AllRows(d, v) == [doc : {d}, version : {v}, part : Parts]

CiteInit ==
  /\ current = [d \in Documents |-> 1]
  /\ rows = UNION {AllRows(d, 1) : d \in Documents} /\ shown = rows
  /\ commit = NoCommit /\ reader = NoReader
  /\ hits = {} /\ sections = {}

-----------------------------------------------------------------------------
(* commit_prepared, as far as readers can see it                           *)

AddVersion(d) ==
  /\ commit = NoCommit /\ current[d] < MaxVersion
  /\ rows' = rows \cup AllRows(d, current[d] + 1)
  /\ commit' = [doc |-> d, step |-> "flip"]
  /\ UNCHANGED <<current, shown, reader, hits, sections>>

\* A read that has begun with the version learns of its end (ghost).
FlipVersion ==
  /\ commit.step = "flip"
  /\ current' = [current EXCEPT ![commit.doc] = @ + 1]
  /\ commit' = [commit EXCEPT !.step = "show"]
  /\ reader' = IF reader.at = "layout" /\ reader.doc = commit.doc
                 THEN [reader EXCEPT !.overtaken = TRUE] ELSE reader
  /\ UNCHANGED <<rows, shown, hits, sections>>

Lowest(S) == CHOOSE r \in S : \A x \in S : r.part <= x.part

ShowRow ==
  /\ commit.step = "show"
  /\ LET hidden == RowsOf(commit.doc, current[commit.doc]) \ shown
     IN  IF hidden # {}
         THEN shown' = shown \cup {Lowest(hidden)} /\ UNCHANGED commit
         ELSE commit' = [commit EXCEPT !.step = "drop"] /\ UNCHANGED shown
  /\ UNCHANGED <<current, rows, reader, hits, sections>>

\* Mutant: the rows go in no particular order.
AnyOf(S) == S

\* The rows of the old version go in the order of their ids.
Droppable(S) == {Lowest(S)}

DropRow ==
  /\ commit.step = "drop"
  /\ LET old == RowsOf(commit.doc, current[commit.doc] - 1)
     IN  IF old # {}
         THEN \E r \in Droppable(old) :
                rows' = rows \ {r} /\ shown' = shown \ {r} /\ UNCHANGED commit
         ELSE commit' = NoCommit /\ UNCHANGED <<rows, shown>>
  /\ UNCHANGED <<current, reader, hits, sections>>

-----------------------------------------------------------------------------
(* search_inner and expand_hits                                            *)

Tagged(tags) == { d \in Documents : DocTags[d] \cap tags # {} }

\* The documents that tags leave of those asked for, if any are
Narrowed(docs, tags) ==
  IF tags = {} THEN docs ELSE IF docs = {} THEN Tagged(tags) ELSE docs \cap Tagged(tags)

\* Tags that leave no document end the search.
Hopeless(docs, tags) == tags # {} /\ Narrowed(docs, tags) = {}

\* No filter at all searches everything.
Searched(docs) == IF docs = {} THEN Documents ELSE docs

StartSearch(docs, tags, expand) ==
  /\ reader = NoReader
  /\ ~Hopeless(docs, tags)
  /\ \E r \in shown :
       /\ r.doc \in Searched(Narrowed(docs, tags))
       /\ reader' = [at |-> "expand", row |-> r, expand |-> expand, docs |-> docs, tags |-> tags]
  /\ hits' = {} /\ sections' = {}
  /\ UNCHANGED <<current, rows, shown, commit>>

\* The position of a row in a layout, which is sorted by ordinal
Position(r, layout) == Cardinality({ x \in layout : x.part < r.part })

\* The layout is looked up after the hit.  A row that has gone by then is cited
\* alone, from what the search has read of it.
Widened(row, layout, expand) ==
  IF row \notin layout THEN {row.part}
  ELSE { r.part : r \in { x \in layout :
           /\ Position(x, layout) <= Position(row, layout) + expand
           /\ Position(row, layout) <= Position(x, layout) + expand } }

\* A citation binds a range, its first part to its last, and the text.
ExpandHit ==
  /\ reader.at = "expand"
  /\ LET row == reader.row
         text == Widened(row, RowsOf(row.doc, row.version), reader.expand)
     IN  hits' = {[doc |-> row.doc, version |-> row.version, first |-> Min(text),
                     last |-> Max(text), text |-> text,
                     docs |-> reader.docs, tags |-> reader.tags]}
  /\ reader' = NoReader
  /\ UNCHANGED <<current, rows, shown, commit, sections>>

-----------------------------------------------------------------------------
(* read, of a section                                                      *)

\* The document, and the version asked for or the current one
StartRead(d, v, section) ==
  /\ reader = NoReader /\ v <= current[d]
  /\ reader' = [at |-> "layout", doc |-> d, version |-> v, section |-> section,
              is_current |-> v = current[d], overtaken |-> FALSE]
  /\ hits' = {} /\ sections' = {}
  /\ UNCHANGED <<current, rows, shown, commit>>

\* layout_of: the rows of the current version, or the chunker once more.
FromRows(is_current, stored) == is_current /\ stored # {}

\* The parts of the section, found by the anchor of any of them.
ReadSection ==
  /\ reader.at = "layout"
  /\ LET stored == RowsOf(reader.doc, reader.version)
         layout == IF FromRows(reader.is_current, stored) THEN {r.part : r \in stored} ELSE Parts
         found  == { p \in layout : SectionOf[p] = reader.section }
     IN  sections' = IF found = {} THEN sections
                     ELSE {[section |-> reader.section, overtaken |-> reader.overtaken,
                             first |-> Min(found), last |-> Max(found)]}
  /\ reader' = NoReader
  /\ UNCHANGED <<current, rows, shown, commit, hits>>

CiteNext ==
  \/ \E d \in Documents : AddVersion(d)
  \/ FlipVersion \/ ShowRow \/ DropRow
  \/ \E request \in Requests, expand \in 0..MaxExpand :
       StartSearch(request.docs, request.tags, expand)
  \/ ExpandHit
  \/ \E d \in Documents, v \in 1..MaxVersion, p \in Parts : StartRead(d, v, SectionOf[p])
  \/ ReadSection

CiteSpec == CiteInit /\ [][CiteNext]_citeVars

-----------------------------------------------------------------------------
(* verify_resolved                                                         *)

\* The checksum of the range in the immutable text of the version
Verify(c) ==
  IF c.text # c.first..c.last THEN "invalid"
  ELSE IF c.version = current[c.doc] THEN "valid" ELSE "superseded"

-----------------------------------------------------------------------------
(* Properties                                                              *)

\* Whatever a search cites can be verified for ever, however its neighbours
\* were being replaced when it was widened.
CitationsVerify == \A c \in hits : Verify(c) # "invalid"

\* Filters only narrow: every hit is of a document that was asked for and that
\* has one of the tags that were asked for.
FiltersOnlyNarrow ==
  \A c \in hits : /\ c.docs # {} => c.doc \in c.docs
                  /\ c.tags # {} => DocTags[c.doc] \cap c.tags # {}

\* A section is read whole, unless its version was replaced meanwhile.
SectionsAreWhole ==
  \A s \in sections :
    ~s.overtaken => /\ s.first = Min({p \in Parts : SectionOf[p] = s.section})
                    /\ s.last = Max({p \in Parts : SectionOf[p] = s.section})

\* A search or a read that races commits tells nothing that is not so.
CitationsAreSound == CitationsVerify /\ FiltersOnlyNarrow /\ SectionsAreWhole
=============================================================================
