------------------------------- MODULE Bundle -------------------------------
(***************************************************************************)
(* OKF bundles go into a namespace of the wiki and come out of it again    *)
(* (wiki/okf.rs) while users edit the same documents.  A frontmatter block *)
(* is kept verbatim and written back as long as it still tells the truth.  *)
(*                                                                         *)
(* A slug is <<base, n>>, n the suffix that made it unique.  A tag is the  *)
(* set of words between the commas in it.                                  *)
(***************************************************************************)
EXTENDS Naturals, Sequences, FiniteSets, SequencesExt, FiniteSetsExt

CONSTANTS
  Importers,      \* concurrent calls of import_bundle
  Upstream,       \* bundles somebody else wrote, sequences of entries
  Words,          \* whatever names, titles, texts and tags consist of
  ReservedNames,  \* index, log
  Titles, Tags, Resources, Texts,  \* what users write
  PageSize,       \* of list_docs
  MaxDocs, MaxEdits, MaxImports    \* bounds

Absent == "none"
Perhaps == Words \cup {Absent}
Slugs == Words \X (Nat \ {0})
TagSets == SUBSET SUBSET Words
Blocks == [title : Perhaps, tags : TagSets, resource : Perhaps, kind : Perhaps,
           extra : BOOLEAN, there : BOOLEAN]
Bodies == [text : Words, heading : Perhaps]
Entries == [path : [slug : Slugs, plain : BOOLEAN], block : Blocks, body : Bodies]

ASSUME BundleAssumption ==
  /\ Absent \notin Words /\ "Document" \in Words
  /\ Upstream \subseteq Seq(Entries) /\ Titles \cup Texts \cup Resources \subseteq Words
  /\ Tags \subseteq SUBSET Words /\ 0 \notin Importers /\ MaxDocs \in Nat /\ PageSize \in Nat \ {0}

VARIABLES
  docs,      \* the documents of the namespace by id, with their versions' bodies
  importer,  \* the calls: bundle, position, and the document a lookup found
  locked,    \* holder of the wiki's write lock
  export,    \* a call of export_bundle: documents listed, and the rest of the pages
  bundle,    \* the last bundle exported
  source,    \* ghost: the entry a document was last written from
  imports, edits

bundleVars == <<docs, importer, locked, export, bundle, source, imports, edits>>

NoBlock == [title |-> Absent, tags |-> {}, resource |-> Absent, kind |-> Absent, extra |-> FALSE,
            there |-> FALSE]
NoImport == [at |-> "idle", entries |-> <<>>, found |-> 0]
NoExport == [below |-> 0, listed |-> {}]
Unwritten == [slug |-> <<Absent, 0>>]

BundleInit ==
  /\ docs = <<>> /\ source = <<>> /\ bundle = <<>>
  /\ importer = [i \in Importers |-> NoImport] /\ locked = 0 /\ export = NoExport
  /\ imports = 0 /\ edits = 0

-----------------------------------------------------------------------------
(* What an entry says                                                      *)

ReservedSlug(slug) == slug[1] \in ReservedNames /\ slug[2] = 1

\* parse_list_items: a comma ends an item, quoted or not.
Items(tags) == {{word} : word \in UNION tags}

TitleOf(block, body) == IF block.title # Absent THEN block.title ELSE body.heading

\* The name of the file is the last resort.
Said(e) ==
  [title    |-> IF TitleOf(e.block, e.body) # Absent THEN TitleOf(e.block, e.body) ELSE e.path.slug[1],
   tags     |-> Items(e.block.tags),
   resource |-> e.block.resource]

\* concept_path: the files of the format itself, spelled that way, are not
\* concepts.
Importable(path) == ~(path.plain /\ ReservedSlug(path.slug))

BodyOf(doc) == doc.versions[Len(doc.versions)]

-----------------------------------------------------------------------------
(* Commits                                                                 *)

\* find_doc_id_by_slug, archived documents included
WithSlug(slug) == { d \in 1..Len(docs) : docs[d].slug = slug }

\* unique_slug
FreshSlug(slug) ==
  LET free == { n \in slug[2]..(slug[2] + MaxDocs + 1) :
                  ~ReservedSlug(<<slug[1], n>>) /\ WithSlug(<<slug[1], n>>) = {} }
  IN  <<slug[1], Min(free)>>

\* The short-circuit of commit_prepared; what is not said is not compared.
Idempotent(doc, said, block, body) ==
  /\ BodyOf(doc) = body /\ doc.title = said.title /\ doc.tags = said.tags
  /\ said.resource \in {Absent, doc.resource}
  /\ block.there => block = doc.block

Committed(doc, said, block, body) ==
  [doc EXCEPT !.title = said.title, !.tags = said.tags,
              !.resource = IF said.resource = Absent THEN @ ELSE said.resource,
              !.block = IF block.there THEN block ELSE @,
              !.versions = Append(@, body)]

Created(slug, said, block, body) ==
  [slug |-> FreshSlug(slug), title |-> said.title, tags |-> said.tags,
   resource |-> said.resource, block |-> block, versions |-> <<body>>, active |-> TRUE]

\* wiki_commit of a new document, and of an edit
CreateDoc(title, text) ==
  /\ locked = 0 /\ edits < MaxEdits /\ Len(docs) < MaxDocs
  /\ LET said == [title |-> title, tags |-> {}, resource |-> Absent]
     IN  docs' = Append(docs, Created(<<title, 1>>, said, NoBlock, [text |-> text, heading |-> title]))
  /\ source' = Append(source, Unwritten) /\ edits' = edits + 1
  /\ UNCHANGED <<importer, locked, export, bundle, imports>>

Edit(d, said, text) ==
  /\ locked = 0 /\ edits < MaxEdits /\ docs[d].active
  /\ LET body == [BodyOf(docs[d]) EXCEPT !.text = text]
     IN  /\ ~Idempotent(docs[d], said, NoBlock, body)
         /\ docs' = [docs EXCEPT ![d] = Committed(@, said, NoBlock, body)]
  /\ source' = [source EXCEPT ![d] = Unwritten] /\ edits' = edits + 1
  /\ UNCHANGED <<importer, locked, export, bundle, imports>>

Archive(d) ==
  /\ locked = 0 /\ edits < MaxEdits /\ docs[d].active
  /\ docs' = [docs EXCEPT ![d].active = FALSE] /\ edits' = edits + 1
  /\ UNCHANGED <<importer, locked, export, bundle, source, imports>>

-----------------------------------------------------------------------------
(* import_bundle                                                           *)

Entry(i) == Head(importer[i].entries)

StartImport(i, entries) ==
  /\ importer[i].at = "idle" /\ imports < MaxImports /\ entries # <<>>
  /\ importer' = [importer EXCEPT ![i] = [at |-> "entry", entries |-> entries, found |-> 0]]
  /\ imports' = imports + 1
  /\ UNCHANGED <<docs, locked, export, bundle, source, edits>>

NextEntry(i, job) ==
  IF Len(job.entries) = 1 THEN NoImport ELSE [job EXCEPT !.at = "entry", !.entries = Tail(@)]

SkipEntry(i) ==
  /\ importer[i].at = "entry" /\ ~Importable(Entry(i).path)
  /\ importer' = [importer EXCEPT ![i] = NextEntry(i, @)]
  /\ UNCHANGED <<docs, locked, export, bundle, source, imports, edits>>

\* Mutant: the lookup does not wait for the writers.
LookupAnyway == TRUE

\* Lookup and commit of an entry are one acquisition of the write lock.
LockFree == locked = 0

LookUpSlug(i) ==
  /\ importer[i].at = "entry" /\ Importable(Entry(i).path) /\ LockFree
  /\ LET found == WithSlug(Entry(i).path.slug)
     IN  importer' = [importer EXCEPT ![i].at = "commit",
                                      ![i].found = IF found = {} THEN 0 ELSE Min(found)]
  /\ locked' = i
  /\ UNCHANGED <<docs, export, bundle, source, imports, edits>>

\* An archived document refuses the entry.
CommitEntry(i) ==
  /\ importer[i].at = "commit"
  /\ LET e == Entry(i)  said == Said(e)  d == importer[i].found
     IN  CASE d = 0 /\ Len(docs) < MaxDocs ->
                /\ docs' = Append(docs, Created(e.path.slug, said, e.block, e.body))
                /\ source' = Append(source, e)
           [] d # 0 /\ docs[d].active ->
                /\ docs' = IF Idempotent(docs[d], said, e.block, e.body) THEN docs
                           ELSE [docs EXCEPT ![d] = Committed(@, said, e.block, e.body)]
                /\ source' = [source EXCEPT ![d] = e]
           [] OTHER -> UNCHANGED <<docs, source>>
  /\ importer' = [importer EXCEPT ![i] = NextEntry(i, @)]
  /\ locked' = 0
  /\ UNCHANGED <<export, bundle, imports, edits>>

-----------------------------------------------------------------------------
(* export_bundle                                                           *)

\* One export is enough (a bound).
StartExport ==
  /\ export = NoExport /\ bundle = <<>> /\ docs # <<>>
  /\ export' = [below |-> Len(docs) + 1, listed |-> {}]
  /\ UNCHANGED <<docs, importer, locked, bundle, source, imports, edits>>

\* list_docs: the newest active documents below the cursor
ListPage ==
  /\ export.below > 1
  /\ LET open == { d \in 1..(export.below - 1) : docs[d].active }
         page == { d \in open : Cardinality({ x \in open : x > d }) < PageSize }
     IN  export' = [below  |-> IF Cardinality(page) < PageSize THEN 1 ELSE Min(page),
                    listed |-> export.listed \cup {docs[d] : d \in page}]
  /\ UNCHANGED <<docs, importer, locked, bundle, source, imports, edits>>

\* frontmatter_is_stale
Stale(doc) ==
  \/ TitleOf(doc.block, BodyOf(doc)) # doc.title
  \/ Items(doc.block.tags) # doc.tags
  \/ doc.block.resource # doc.resource

Synthesized(doc) ==
  [title |-> doc.title, tags |-> doc.tags, resource |-> doc.resource, extra |-> FALSE,
   kind |-> IF doc.block.kind = Absent THEN "Document" ELSE doc.block.kind, there |-> TRUE]

Rendered(doc) ==
  [path  |-> [slug |-> doc.slug, plain |-> TRUE],
   block |-> IF doc.block.there /\ ~Stale(doc) THEN doc.block ELSE Synthesized(doc),
   body  |-> BodyOf(doc)]

\* The version of each document as listed is immutable; the index of the bundle
\* and its manifest are files it skips itself.
FinishExport ==
  /\ export.below = 1
  /\ bundle' = SetToSeq({Rendered(doc) : doc \in export.listed})
  /\ export' = NoExport
  /\ UNCHANGED <<docs, importer, locked, source, imports, edits>>

BundleNext ==
  \/ \E title \in Titles, text \in Texts : CreateDoc(title, text)
  \/ \E d \in 1..Len(docs) :
       \/ Archive(d)
       \/ \E title \in Titles, tags \in SUBSET Tags, resource \in Resources \cup {Absent},
            text \in Texts :
            Edit(d, [title |-> title, tags |-> tags, resource |-> resource], text)
  \/ \E i \in Importers :
       \/ \E entries \in Upstream \cup {bundle} : StartImport(i, entries)
       \/ SkipEntry(i) \/ LookUpSlug(i) \/ CommitEntry(i)
  \/ StartExport \/ ListPage \/ FinishExport

BundleSpec == BundleInit /\ [][BundleNext]_bundleVars

-----------------------------------------------------------------------------
(* Properties                                                              *)

Listable(tags) == Items(tags) = tags

\* Concurrent imports converge: a concept is one document, and only the names
\* of the format's own files are evaded by a suffix.
OneDocumentPerConcept ==
  \A d \in 1..Len(docs) :
    source[d] # Unwritten /\ ~ReservedSlug(source[d].path.slug) =>
      docs[d].slug = source[d].path.slug

\* An exported entry says what its document said: read back, it reverts no
\* title, no tags and no resource, however the document came by its block.
ExportsTellTheTruth ==
  \A doc \in export.listed :
    Listable(doc.tags) =>
      Said(Rendered(doc)) = [title |-> doc.title, tags |-> doc.tags, resource |-> doc.resource]

\* A bundle that is imported again writes nothing, where nobody has written in
\* between.
ReimportWritesNothing ==
  [][\A i \in Importers :
       importer[i].at = "commit" /\ importer'[i] # importer[i]
         /\ ~ReservedSlug(Entry(i).path.slug)
         /\ (\E d \in 1..Len(docs) : source[d] = Entry(i)) =>
       docs' = docs]_bundleVars

\* The same of every concept, those included whose name has to be evaded.
ReimportNeverGrows ==
  [][\A i \in Importers :
       importer[i].at = "commit" /\ importer'[i] # importer[i]
         /\ (\E d \in 1..Len(docs) : source[d] = Entry(i)) =>
       Len(docs') = Len(docs)]_bundleVars

\* A bundle comes out of the wiki, and goes into it, as what it is.
BundlesAreFaithful == OneDocumentPerConcept /\ ExportsTellTheTruth
=============================================================================
