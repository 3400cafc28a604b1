---------------------------- MODULE WikiHistory -----------------------------
(***************************************************************************)
(* What the wiki promises to its readers and writers: a document has a     *)
(* history of versions, and commits, archives and restores take effect at  *)
(* once.  A commit follows the version its author had read, so no update   *)
(* is lost, and the text of a document is the text of its head.            *)
(***************************************************************************)
EXTENDS Naturals

CONSTANTS Docs, Versions, Bodies

VARIABLES
  view,   \* is a document absent, active or archived?
  head,   \* its current version, 0 while absent
  past,   \* the versions that are or were the head
  base,   \* the version the author of a version had read, 0 for a new document
  text    \* the text of every version in some history

hvars == <<view, head, past, base, text>>

HInit ==
  /\ view = [d \in Docs |-> "absent"]
  /\ head = [d \in Docs |-> 0]
  /\ past = [d \in Docs |-> {}]
  /\ base = [v \in Versions |-> 0]
  /\ text = [v \in Versions |-> "none"]

\* A new head, committed by an author who had read the old one.
Commit(d, v, b) ==
  /\ view[d] # "archived"
  /\ \A e \in Docs : v \notin past[e]
  /\ \A u \in past[d] : u < v
  /\ view' = [view EXCEPT ![d] = "active"]
  /\ head' = [head EXCEPT ![d] = v]
  /\ past' = [past EXCEPT ![d] = @ \cup {v}]
  /\ base' = [base EXCEPT ![v] = head[d]]
  /\ text' = [text EXCEPT ![v] = b]

Archive(d) ==
  /\ view[d] = "active"
  /\ view' = [view EXCEPT ![d] = "archived"]
  /\ UNCHANGED <<head, past, base, text>>

Restore(d) ==
  /\ view[d] = "archived"
  /\ view' = [view EXCEPT ![d] = "active"]
  /\ UNCHANGED <<head, past, base, text>>

HNext ==
  \E d \in Docs :
    \/ Archive(d)
    \/ Restore(d)
    \/ \E v \in Versions, b \in Bodies : Commit(d, v, b)

HSpec == HInit /\ [][HNext]_hvars
=============================================================================
