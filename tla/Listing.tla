------------------------------- MODULE Listing -------------------------------
(***************************************************************************)
(* Listings of the wiki (wiki/mod.rs: documents, versions, events, the     *)
(* stale report and the id scans behind tags and the sweep) walk down a    *)
(* collection page by page while rows come, go, and change their status.   *)
(* A page is the newest rows below a cursor: first their ids, then one row *)
(* after the other.                                                        *)
(***************************************************************************)
EXTENDS Naturals, FiniteSets, FiniteSetsExt

CONSTANTS
  MaxRows,    \* bound
  PageLimit   \* rows of a page

ASSUME ListingAssumption == {MaxRows, PageLimit} \subseteq Nat \ {0}

VARIABLES
  row,      \* by id: absent, listed by its status, hidden by it, or removed
  walk,     \* a listing: its cursor, the ids of a page, and how often it has shown a row
  steady    \* ghost: rows that have matched since the listing began

listVars == <<row, walk, steady>>

RowIds == 1..MaxRows
Matching == { r \in RowIds : row[r] = "open" }
NoWalk == [at |-> "idle", below |-> 0, ids |-> {}, shown |-> [r \in RowIds |-> 0]]

ListInit ==
  /\ row = [r \in RowIds |-> "absent"] /\ walk = NoWalk /\ steady = {}

\* A new row has the highest id.
AddRow ==
  /\ \E r \in RowIds :
       /\ row[r] = "absent" /\ \A x \in 1..(r - 1) : row[x] # "absent"
       /\ row' = [row EXCEPT ![r] = "open"]
  /\ UNCHANGED <<walk, steady>>

\* Archived or restored; swept or pruned.
ChangeRow(r) ==
  /\ row[r] \in {"open", "closed"}
  /\ \E to \in {"open", "closed", "removed"} \ {row[r]} : row' = [row EXCEPT ![r] = to]
  /\ steady' = steady \ {r}
  /\ UNCHANGED walk

\* cursor_or_max
StartWalk ==
  /\ walk = NoWalk
  /\ walk' = [NoWalk EXCEPT !.at = "ids",
                !.below = 1 + Cardinality({ r \in RowIds : row[r] # "absent" })]
  /\ steady' = Matching
  /\ UNCHANGED row

\* query_last_ids
TakeIds ==
  /\ walk.at = "ids"
  /\ LET open == { r \in Matching : r < walk.below }
     IN  walk' = [walk EXCEPT !.at = "rows",
                    !.ids = { r \in open : Cardinality({ x \in open : x > r }) < PageLimit }]
  /\ UNCHANGED <<row, steady>>

\* page_cursor
NextBelow(ids) == Min(ids)

\* Mutant: a page is short unless it is longer than the limit.
ShortUnlessLonger(ids) == Cardinality(ids) <= PageLimit

\* A full page has a next one.
LastPage(ids) == Cardinality(ids) < PageLimit

\* A row of the page that has been removed by now fails the listing.
TakeRows ==
  /\ walk.at = "rows"
  /\ IF \E r \in walk.ids : row[r] = "removed"
       THEN walk' = [NoWalk EXCEPT !.at = "failed"]
     ELSE LET shown == [r \in RowIds |-> walk.shown[r] + (IF r \in walk.ids THEN 1 ELSE 0)]
          IN  walk' = IF LastPage(walk.ids)
                        THEN [NoWalk EXCEPT !.at = "done", !.shown = shown]
                      ELSE [at |-> "ids", below |-> NextBelow(walk.ids), ids |-> {},
                            shown |-> shown]
  /\ UNCHANGED <<row, steady>>

\* The rows may rest while a listing is under way.
ListNext ==
  \/ AddRow \/ StartWalk \/ TakeIds \/ TakeRows
  \/ \E r \in RowIds : ChangeRow(r)

ListSpec == ListInit /\ [][ListNext]_listVars

\* No row is shown twice: not by a row that comes or goes between two pages.
ShownOnce == \A r \in RowIds : walk.shown[r] <= 1

\* A listing that ends has shown every row that matched all the while.
SteadyRowsAreShown == walk.at = "done" => \A r \in steady : walk.shown[r] # 0

\* A client that walks the pages of a list misses nothing and sees nothing twice.
ListingsAreComplete == ShownOnce /\ SteadyRowsAreShown
=============================================================================
