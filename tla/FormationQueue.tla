--------------------------- MODULE FormationQueue ---------------------------
(***************************************************************************)
(* What the formation scheduler promises to the users of a space: every    *)
(* ingested conversation is encoded at least once, the first encodings     *)
(* happen in the order of the conversation ids, and the durable watermark  *)
(* `brain_processed` only grows and never passes a conversation that was   *)
(* not encoded.  An operator who restarts formation at a later id waives   *)
(* the conversations before it.                                            *)
(***************************************************************************)
EXTENDS Naturals

VARIABLES
  total,      \* conversations 1..total have been accepted
  formed,     \* the conversations whose memories are in the graph
  waived,     \* the conversations an operator jumped over
  processed   \* the durable watermark

qvars == <<total, formed, waived, processed>>

QInit ==
  /\ total = 0
  /\ formed = {}
  /\ waived = {}
  /\ processed = 0

Accept ==
  /\ total' = total + 1
  /\ UNCHANGED <<formed, waived, processed>>

\* The first encoding of conversation i waits for everything before it.
Form(i) ==
  /\ i \notin formed
  /\ \A j \in 1..(i - 1) : j \in formed \cup waived
  /\ formed' = formed \cup {i}
  /\ UNCHANGED <<total, waived, processed>>

Advance ==
  /\ processed' \in (processed + 1)..total
  /\ \A j \in 1..processed' : j \in formed \cup waived
  /\ UNCHANGED <<total, formed, waived>>

Waive(from) ==
  /\ waived' = waived \cup 1..(from - 1)
  /\ UNCHANGED <<total, formed, processed>>

QNext ==
  \/ Accept
  \/ \E i \in 1..total : Form(i) \/ Waive(i)
  \/ Advance

QSpec == QInit /\ [][QNext]_qvars
=============================================================================
