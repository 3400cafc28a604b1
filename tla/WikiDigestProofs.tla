-------------------------- MODULE WikiDigestProofs --------------------------
(***************************************************************************)
(* What the digest promises, for any documents, bodies and any number of   *)
(* versions and faults:                                                    *)
(*   NothingForgotten     whatever the cursor has passed is recorded,      *)
(*                        queued or accounted for;                         *)
(*   EveryFuseEarned      a version is given up only for failures of its   *)
(*                        own;                                             *)
(*   EveryFactAccounted   active facts are vouched for or known adrift,    *)
(*                        and withheld documents are silent.               *)
(* The first needs an invariant of the run and of the commit beside it:    *)
(* between cursor and the version at hand all rows are swept (RunOK), a    *)
(* version that is not current yet lies ahead of the run (AheadOK), and    *)
(* what the run has read of a document either still holds or has left a    *)
(* trace that excuses it (ReadOK).  A restart only falls back: the written *)
(* cursor is never ahead of the one in memory (StoredOK), so what lies     *)
(* behind it was covered before, and a mark that is gone is noted as       *)
(* missed.  The last theorem needs what the run holds back                 *)
(* between the graph and the ledger: the facts of the newest entry that    *)
(* the next one drops are out of the graph, or adrift, before it is        *)
(* written (FactsAtHand).                                                  *)
(***************************************************************************)
EXTENDS WikiDigest, FiniteSetTheorems, SequenceTheorems, TLAPS

Event == [ver : Nat, facts : SUBSET Bodies, retracted : BOOLEAN]

\* After the version at hand has been read; while it is worked on.
Reading == {"chunks", "extract", "write", "supersede", "record"}
Working == {"read", "retract", "retracted", "retire"} \cup Reading

Run == [pc : {"pick"} \cup Working, mode : {"main", "pending"}, at : Nat, left : Nat,
        todo : SUBSET (Nat \cup Docs), doc : Docs \cup {"none"}, ver : Nat,
        facts : SUBSET Bodies, again : BOOLEAN]
Commit  == [kind : {"commit"}, doc : Docs, ver : Nat, body : Bodies]
Restore == [kind : {"restore"}, doc : Docs, ver : Nat]

\* The rows and marks, as far as the cursor depends on them.
TablesOK ==
  /\ status \in [Docs -> {"none", "active", "archived"}]
  /\ current \in [Docs -> Nat]
  /\ versions \in Seq([doc : Docs, body : Bodies]) /\ Len(versions) <= MaxVersions
  /\ gone \subseteq DOMAIN versions
  /\ op \in {Free} \cup Commit \cup Restore
  /\ cursor \in 0 .. Len(versions)
  /\ pending \subseteq Docs
  /\ ledger \in [Docs -> Seq(Event)]

\* A current version is a row of its document, and so is the one a commit has
\* written; a restore ends with the version that it found.
HeadsOK ==
  /\ \A d \in Docs : /\ current[d] # 0 => current[d] \in rows /\ owner(current[d]) = d
                     /\ status[d] = "none" => current[d] = 0
  /\ op \in Commit =>
       /\ status[op.doc] = "active"
       /\ op.ver = 0 => Len(versions) < MaxVersions
       /\ op.ver # 0 => /\ op.ver = Len(versions) /\ op.ver \in rows
                        /\ owner(op.ver) = op.doc /\ current[op.doc] < op.ver
  /\ op \in Restore => op.ver = current[op.doc] /\ op.ver # 0

\* How far the run has come, if one is under way.
Reach == IF dg = Idle THEN cursor ELSE dg.at
AtWork == dg # Idle /\ dg.pc \in Working

\* No live row is left between the cursor of a run, its version at hand, and
\* those that wait; the documents of the pending pass stay queued.
RunOK ==
  dg # Idle =>
    /\ dg \in Run
    /\ cursor <= dg.at /\ dg.at <= Len(versions)
    /\ dg.mode = "main" =>
         \A u \in dg.todo :
           /\ u \in DOMAIN versions /\ dg.at < u
           /\ AtWork => dg.ver < u
           /\ \A v \in rows : dg.at < v /\ v < u => v \in dg.todo \/ (AtWork /\ v = dg.ver)
    /\ dg.mode = "pending" => dg.todo \subseteq pending
    /\ AtWork =>
         /\ dg.ver \in DOMAIN versions /\ dg.doc = owner(dg.ver)
         /\ dg.mode = "main" => /\ dg.at < dg.ver
                                /\ \A v \in rows : dg.at < v => dg.ver <= v
         /\ dg.mode = "pending" => dg.doc \in pending \ dg.todo /\ dg.ver <= dg.at

\* What a commit is about to make current lies ahead, unless it was given up,
\* or its document was read before it had any version.
AheadOK ==
  op \in Commit /\ op.ver # 0 =>
    \/ Reach < op.ver
    \/ op.ver \in fused
    \/ op.ver \in missed /\ current[op.doc] = 0

\* Why the version at hand may go unrecorded although it is current.
Excused ==
  \/ ~Distillable(dg.doc)
  \/ dg.ver \in missed
  \/ dg.again
  \/ dg.mode = "main" /\ dg.doc \in pending
  \/ op \in Restore /\ op.doc = dg.doc

\* What the run knows of the version at hand once it has read its document.
ReadOK ==
  AtWork =>
    /\ dg.pc \in Reading \cup {"retract", "retracted"} => dg.ver <= current[dg.doc]
    /\ dg.pc \in {"retract", "retracted"} /\ dg.ver = current[dg.doc] => Excused
    /\ dg.pc = "retire" /\ dg.ver = current[dg.doc] => Digested(dg.doc, dg.ver) \/ Excused
    /\ dg.pc = "retire" /\ current[dg.doc] < dg.ver => dg.again /\ current[dg.doc] = 0
    /\ dg.mode = "pending" => /\ dg.ver <= current[dg.doc]
                              /\ \/ current[dg.doc] = dg.ver \/ dg.at < current[dg.doc]
                                 \/ current[dg.doc] \in fused

\* Why the current version of a document may lie behind the cursor.
Covered(d) ==
  \/ Digested(d, current[d])
  \/ d \in pending \/ current[d] \in missed \cup fused
  \/ op \in Restore /\ op.doc = d

PassedOK == \A d \in Docs : Exists(d) /\ Distillable(d) /\ current[d] <= Reach => Covered(d)

\* The inductive invariant, as far as memory is concerned.
DigestInv == TablesOK /\ HeadsOK /\ RunOK /\ AheadOK /\ ReadOK /\ PassedOK

\* What a restart finds is not ahead of what is in memory.
StoredOK == stored.cursor \in 0 .. cursor /\ stored.pending \subseteq Docs

\* Only versions that were current have events.
EventsOK == \A d \in Docs : \A i \in DOMAIN ledger[d] : ledger[d][i].ver \in 1 .. current[d]

\* The strikes, in memory and as written, are failures of the version they
\* are noted for.
Suffered(s) ==
  /\ s \in [ver : Nat, count : Nat]
  /\ s.ver # 0 => s.ver \in Versions /\ s.count <= failed[s.ver]

FuseOK ==
  /\ failed \in [Versions -> Nat]
  /\ Suffered(strikes) /\ Suffered(stored.strikes)
  /\ \A v \in fused : v \in Versions /\ failed[v] >= MaxStrikes

-----------------------------------------------------------------------------
(* The start                                                               *)

LEMMA InitDigest == Init => DigestInv
BY WikiDigestAssumption
DEF Init, DigestInv, TablesOK, HeadsOK, RunOK, AheadOK, ReadOK, PassedOK, AtWork, Reach, Exists,
    Free, Idle, Commit, Restore, Run, Event, rows

LEMMA InitFuse == Init => FuseOK
BY WikiDigestAssumption DEF Init, FuseOK, Suffered, Versions

-----------------------------------------------------------------------------
(* The writers                                                             *)

\* What a document's writer leaves to the run.
LEMMA OpKinds ==
  ASSUME TablesOK
  PROVE  /\ op.kind = "commit" => op \in Commit
         /\ op.kind = "restore" => op \in Restore
         /\ op = Free => op \notin Commit \cup Restore
         /\ op \in Commit => op \notin Restore
BY DEF TablesOK, Commit, Restore, Free

LEMMA Element ==
  ASSUME NEW S, NEW s \in Seq(S), NEW i \in DOMAIN s
  PROVE  s[i] \in S
OBVIOUS

\* The version at hand is a row of a document.
LEMMA AtHand ==
  ASSUME TablesOK, RunOK, AtWork
  PROVE  dg \in Run /\ dg.ver \in Versions /\ dg.ver <= Len(versions) /\ dg.doc \in Docs
<1>1. dg \in Run /\ dg.ver \in DOMAIN versions /\ dg.doc = versions[dg.ver].doc
  BY DEF RunOK, AtWork, owner
<1>2. DOMAIN versions = 1 .. Len(versions) /\ Len(versions) \in Nat /\ Len(versions) <= MaxVersions
  BY DEF TablesOK
<1>3. versions[dg.ver] \in [doc : Docs, body : Bodies]
  BY <1>1, Element DEF TablesOK
<1> QED
  BY <1>1, <1>2, <1>3, WikiDigestAssumption DEF Versions

\* A request takes the lock, or archives a document.
LEMMA RequestKeeps ==
  ASSUME DigestInv, Request
  PROVE  DigestInv'
<1> USE DEF DigestInv, docVars, runVars, metadata, graphVars
<1>1. ASSUME NEW d \in Docs, Archive(d) PROVE DigestInv'
  <2>0. /\ op \notin Commit \cup Restore /\ current[d] # 0
        /\ status' = [status EXCEPT ![d] = "archived"] /\ missed' = missed \ {current[d]}
        /\ UNCHANGED <<current, versions, gone, op, dg, metadata, graphVars, fused>>
    BY <1>1, OpKinds DEF Archive, Exists
  <2>1. TablesOK' /\ HeadsOK'
    BY <2>0 DEF TablesOK, HeadsOK, rows, owner
  <2>2. RunOK' /\ AheadOK'
    BY <2>0 DEF RunOK, AheadOK, AtWork, rows, owner
  <2>3. ReadOK'
    <3> SUFFICES ASSUME AtWork PROVE ReadOK'
      BY <2>0 DEF ReadOK, AtWork
    <3>1. dg.doc \in Docs /\ (dg.ver = current[dg.doc] /\ dg.doc # d => dg.ver # current[d])
      BY <2>0, AtHand DEF HeadsOK, RunOK, owner
    <3>2. dg.ver = current[dg.doc] /\ Excused => Excused'
      BY <2>0, <3>1 DEF Excused, Distillable, body, TablesOK
    <3> QED
      BY <2>0, <3>2 DEF ReadOK, Digested, Newest
  <2>4. PassedOK'
    <3> SUFFICES ASSUME NEW c \in Docs, Exists(c)', Distillable(c)', current'[c] <= Reach'
                 PROVE  Covered(c)'
      BY DEF PassedOK
    <3>1. c # d /\ Exists(c) /\ Distillable(c) /\ current[c] <= Reach
      BY <2>0 DEF Exists, Distillable, body, Reach, TablesOK
    <3>2. current[c] # current[d]
      BY <2>0, <3>1 DEF HeadsOK, Exists
    <3> QED
      BY <2>0, <3>1, <3>2 DEF PassedOK, Covered, Digested, Newest
  <2> QED
    BY <2>1, <2>2, <2>3, <2>4
<1>2. ASSUME NEW d \in Docs, BeginRestore(d) PROVE DigestInv'
  <2> USE <1>2 DEF BeginRestore
  <2>0. op \notin Commit \cup Restore /\ op' \in Restore /\ op' \notin Commit /\ op'.doc = d
    BY OpKinds DEF TablesOK, Restore, Commit
  <2>1. TablesOK' /\ HeadsOK'
    BY <2>0 DEF TablesOK, HeadsOK, rows, owner, Exists
  <2>2. RunOK' /\ AheadOK'
    BY <2>0 DEF RunOK, AheadOK, AtWork, Reach, rows, owner
  <2>3. ReadOK'
    BY <2>0 DEF ReadOK, AtWork, Excused, Digested, Newest, Distillable, body, TablesOK
  <2>4. PassedOK'
    BY <2>0 DEF PassedOK, Covered, Exists, Digested, Newest, Distillable, body, Reach, TablesOK
  <2> QED
    BY <2>1, <2>2, <2>3, <2>4
<1>3. ASSUME NEW d \in Docs, NEW b \in Bodies, BeginCommit(d, b) PROVE DigestInv'
  <2> USE <1>3 DEF BeginCommit
  <2>0. /\ op \notin Commit \cup Restore /\ op' \in Commit /\ op' \notin Restore
        /\ op'.doc = d /\ op'.ver = 0
    BY OpKinds DEF TablesOK, Restore, Commit
  <2>1. (status' = [status EXCEPT ![d] = "active"] /\ ~Exists(d)) \/ status' = status
    BY DEF Exists
  <2>2. TablesOK' /\ HeadsOK'
    BY <2>0, <2>1 DEF TablesOK, HeadsOK, rows, owner, Exists
  <2>3. RunOK' /\ AheadOK'
    BY <2>0 DEF RunOK, AheadOK, AtWork, Reach, rows, owner
  <2>4. ReadOK'
    <3>1. AtWork => dg.ver # 0 /\ dg.doc \in Docs
      BY AtHand DEF Versions
    <3>2. \/ status' = status
          \/ status' = [status EXCEPT ![d] = "active"] /\ current[d] = 0
      BY <2>1 DEF Exists, HeadsOK
    <3>3. AtWork /\ status'[dg.doc] # status[dg.doc] => current[dg.doc] = 0
      BY <3>1, <3>2 DEF TablesOK
    <3>4. current' = current /\ AtWork' = AtWork /\ dg' = dg /\ pending' = pending
      BY DEF AtWork
    <3> QED
      BY <2>0, <3>1, <3>3, <3>4 DEF ReadOK, Excused, Digested, Newest, Distillable, body
  <2>5. PassedOK'
    BY <2>0, <2>1 DEF PassedOK, Covered, Exists, Digested, Newest, Distillable, body, Reach, TablesOK, HeadsOK
  <2> QED
    BY <2>2, <2>3, <2>4, <2>5
<1> QED
  BY <1>1, <1>2, <1>3 DEF Request

\* A new version is the newest row, so ahead of every run.
LEMMA AddVersionKeeps ==
  ASSUME DigestInv, AddVersion
  PROVE  DigestInv'
<1> USE DEF DigestInv, docVars, runVars, metadata, graphVars
<1>1. /\ op \in Commit /\ op' = [op EXCEPT !.ver = Len(versions')] /\ op.ver = 0
      /\ versions' = Append(versions, [doc |-> op.doc, body |-> op.body])
      /\ UNCHANGED <<status, current, gone, runVars, mishaps>>
  BY OpKinds DEF AddVersion
<1>2. /\ versions' \in Seq([doc : Docs, body : Bodies])
      /\ Len(versions') = Len(versions) + 1 /\ Len(versions) \in Nat
      /\ \A v \in DOMAIN versions : v \in DOMAIN versions' /\ versions'[v] = versions[v]
      /\ versions'[Len(versions')].doc = op.doc
      /\ DOMAIN versions' = 1 .. Len(versions') /\ DOMAIN versions = 1 .. Len(versions)
  BY <1>1 DEF TablesOK, Commit
<1>3. /\ op' \in Commit /\ op' \notin Restore /\ op'.doc = op.doc /\ op'.ver = Len(versions')
      /\ op \notin Restore
  BY <1>1, <1>2 DEF Commit, Restore
<1>4. rows' = rows \cup {Len(versions')} /\ Len(versions') \notin gone
  BY <1>1, <1>2 DEF rows, TablesOK
<1>5. \A d \in Docs : current[d] # 0 => current[d] \in DOMAIN versions
  BY DEF HeadsOK, rows
<1>6. TablesOK'
  BY <1>1, <1>2, <1>3, WikiDigestAssumption DEF TablesOK, HeadsOK
<1>7. \A d \in Docs : body(current[d])' = body(current[d]) \/ current[d] = 0
  BY <1>1, <1>2, <1>5 DEF body
<1>8. HeadsOK'
  <2>1. \A d \in Docs : current[d] # 0 => current[d] \in rows' /\ owner(current[d])' = d
    BY <1>1, <1>2, <1>4, <1>5 DEF HeadsOK, owner
  <2>2. op.doc \in Docs /\ current[op.doc] \in Nat /\ current[op.doc] < Len(versions')
    <3>1. op.doc \in Docs /\ current[op.doc] \in Nat
      BY <1>1 DEF TablesOK, Commit
    <3>2. current[op.doc] = 0 \/ current[op.doc] \in 1 .. Len(versions)
      BY <1>2, <1>5, <3>1
    <3> QED
      BY <1>2, <3>1, <3>2
  <2>3. owner(op.ver)' = op.doc /\ op'.ver # 0
    BY <1>2, <1>3 DEF owner
  <2> QED
    BY <1>1, <1>3, <1>4, <2>1, <2>2, <2>3 DEF HeadsOK
<1>9. RunOK'
  <2>1. AtWork' = AtWork /\ dg' = dg /\ cursor' = cursor /\ pending' = pending
    BY <1>1 DEF AtWork
  <2>2. \A v \in DOMAIN versions : owner(v)' = owner(v) /\ v # Len(versions')
    BY <1>2 DEF owner
  <2>3. dg # Idle => dg.at < Len(versions')
    BY <1>2 DEF RunOK, Run
  <2>4. ASSUME dg # Idle, dg.mode = "main", NEW u \in dg.todo, NEW v \in rows', dg.at < v, v < u
        PROVE  v \in dg.todo \/ (AtWork /\ dg.ver = v)
    <3>1. u \in DOMAIN versions
      BY <2>4 DEF RunOK
    <3>2. v \in rows
      BY <1>2, <1>4, <2>4, <3>1
    <3> QED
      BY <2>4, <3>2 DEF RunOK
  <2>5. ASSUME AtWork, dg.mode = "main", NEW v \in rows', dg.at < v PROVE dg.ver <= v
    BY <1>2, <1>4, <2>5, AtHand DEF RunOK, AtWork
  <2> QED
    <3>1. dg # Idle => dg.at <= Len(versions')
      BY <1>2, <2>3 DEF RunOK, Run
    <3>2. AtWork => dg.ver \in DOMAIN versions' /\ owner(dg.ver)' = dg.doc
      BY <1>2, <2>1, <2>2, AtHand DEF RunOK, owner, AtWork
    <3> QED
      BY <1>2, <2>1, <2>4, <2>5, <3>1, <3>2 DEF RunOK
<1>10. AheadOK'
  <2>1. Reach < Len(versions')
    BY <1>2 DEF Reach, RunOK, Run, TablesOK
  <2>2. Reach' = Reach
    BY <1>1 DEF Reach
  <2> QED
    BY <1>3, <2>1, <2>2 DEF AheadOK
<1>11. ReadOK'
  <2>1. AtWork => dg.ver # 0 /\ dg.doc \in Docs
    BY AtHand DEF Versions
  <2>2. AtWork' = AtWork /\ dg' = dg /\ pending' = pending /\ current' = current /\ status' = status
    BY <1>1 DEF AtWork
  <2>3. AtWork /\ dg.ver = current[dg.doc] => (Excused => Excused')
    BY <1>1, <1>3, <1>7, <2>1 DEF Excused, Distillable
  <2> QED
    BY <1>1, <1>3, <2>1, <2>2, <2>3 DEF ReadOK, Digested, Newest
<1>12. PassedOK'
  BY <1>1, <1>3, <1>7 DEF PassedOK, Covered, Exists, Digested, Newest, Distillable, Reach
<1> QED
  BY <1>6, <1>8, <1>9, <1>10, <1>11, <1>12

\* A version that becomes current lies ahead of the run, was given up, or is
\* the first of a document that the run took for gone.
LEMMA FlipKeeps ==
  ASSUME DigestInv, Flip
  PROVE  DigestInv'
<1> USE DEF DigestInv, docVars, runVars, metadata, graphVars
<1>1. /\ op \in Commit /\ op' = Free /\ op' \notin Commit \cup Restore /\ op.ver # 0
      /\ op.doc \in Docs /\ current' = [current EXCEPT ![op.doc] = op.ver]
      /\ missed' = missed \ {current[op.doc]}
      /\ UNCHANGED <<status, versions, gone, dg, metadata, graphVars, fused>>
  BY OpKinds DEF Flip, Free, Commit, Restore
<1>2. /\ op.ver \in rows /\ owner(op.ver) = op.doc /\ current[op.doc] < op.ver
      /\ op.ver \in Nat /\ op.ver = Len(versions)
  BY <1>1 DEF HeadsOK, Commit
<1>3. TablesOK' /\ HeadsOK'
  BY <1>1, <1>2 DEF TablesOK, HeadsOK, rows, owner
<1>4. RunOK' /\ AheadOK'
  BY <1>1 DEF RunOK, AheadOK, AtWork, rows, owner
<1>5. ReadOK'
  <2>0. SUFFICES ASSUME AtWork PROVE ReadOK'
    BY <1>1 DEF ReadOK, AtWork
  <2>1. dg.ver \in Nat \ {0} /\ dg.doc \in Docs /\ dg.ver <= op.ver /\ dg \in Run
    BY <1>2, <2>0, AtHand, WikiDigestAssumption DEF Versions
  <2>2. AtWork' = AtWork /\ dg' = dg /\ UNCHANGED <<pending, fused, ledger, status, versions>>
    BY <1>1 DEF AtWork
  <2>3. CASE dg.doc # op.doc
    <3>1. current'[dg.doc] = current[dg.doc]
      BY <1>1, <2>1, <2>3 DEF TablesOK
    <3>2. dg.ver # current[op.doc]
      BY <1>1, <2>0, <2>1, <2>3 DEF HeadsOK, RunOK, AtWork
    <3>3. Excused => Excused'
      BY <1>1, <2>2, <3>1, <3>2 DEF Excused, Distillable, body, Commit, Restore
    <3> QED
      BY <2>0, <2>2, <3>1, <3>3 DEF ReadOK, Digested, Newest
  <2>4. CASE dg.doc = op.doc
    <3>1. current'[dg.doc] = op.ver /\ current[dg.doc] < op.ver /\ current[dg.doc] \in Nat
      BY <1>1, <1>2, <2>4 DEF TablesOK
    <3>2. dg.ver = op.ver => dg.pc \notin Reading \cup {"retract", "retracted"}
      BY <1>2, <2>0, <2>1, <3>1 DEF ReadOK
    <3>3. dg.ver = op.ver /\ dg.pc = "retire" => dg.again
      BY <2>0, <3>1 DEF ReadOK
    <3>4. dg.mode = "pending" => dg.ver < op.ver
      BY <1>2, <2>0, <2>1, <3>1 DEF ReadOK
    <3>5. dg.mode = "pending" => dg.at < op.ver \/ op.ver \in fused
      BY <1>1, <2>0, <2>1, <2>4 DEF ReadOK, AheadOK, Reach, AtWork
    <3> QED
      BY <1>2, <2>0, <2>1, <2>2, <3>1, <3>2, <3>3, <3>4, <3>5 DEF ReadOK, Excused
  <2> QED
    BY <2>3, <2>4
<1>6. PassedOK'
  <2>1. ASSUME NEW d \in Docs, d # op.doc, Exists(d)', Distillable(d)', current'[d] <= Reach'
        PROVE  Covered(d)'
    <3>1. current'[d] = current[d]
      BY <1>1, <2>1 DEF TablesOK
    <3>2. Covered(d)
      BY <1>1, <2>1, <3>1 DEF PassedOK, Exists, Distillable, body, Reach
    <3>3. current[d] # current[op.doc]
      BY <1>1, <2>1, <3>1 DEF HeadsOK, Exists
    <3> QED
      BY <1>1, <3>1, <3>2, <3>3 DEF Covered, Digested, Newest, Commit, Restore
  <2>2. op.ver <= Reach => op.ver \in missed' \cup fused
    BY <1>1, <1>2 DEF AheadOK, Reach, RunOK, Run, TablesOK
  <2> QED
    BY <1>1, <2>1, <2>2 DEF PassedOK, Covered, Reach, TablesOK
<1> QED
  BY <1>3, <1>4, <1>5, <1>6

\* A restore that returns leaves its mark where the pending pass cannot clear
\* it unseen.
LEMMA RestoreReturnsKeeps ==
  ASSUME DigestInv, RestoreReturns
  PROVE  DigestInv'
<1> USE DEF DigestInv, docVars, metadata, graphVars
<1>1. /\ op \in Restore /\ op \notin Commit /\ op' = Free /\ op' \notin Commit \cup Restore
      /\ op.doc \in Docs /\ op.ver = current[op.doc] /\ op.ver # 0
      /\ pending' = pending \cup {op.doc} /\ missed' = missed \ {op.ver}
      /\ UNCHANGED <<status, current, versions, gone, cursor, ledger, fused>>
  BY OpKinds DEF RestoreReturns, Free, Commit, Restore, HeadsOK
<1>2. /\ dg = Idle <=> dg' = Idle
      /\ dg = Idle => dg' = dg
      /\ dg # Idle => /\ dg' \in Run
                      /\ dg'.pc = dg.pc /\ dg'.mode = dg.mode /\ dg'.at = dg.at /\ dg'.todo = dg.todo
                      /\ dg'.doc = dg.doc /\ dg'.ver = dg.ver
                      /\ dg.again => dg'.again
                      /\ dg.mode = "pending" /\ dg.doc = op.doc => dg'.again
  BY DEF RestoreReturns, RunOK, Run, Idle
<1>3. \A d \in Docs : current[d] = op.ver => d = op.doc
  BY <1>1 DEF HeadsOK
<1>4. TablesOK' /\ HeadsOK'
  BY <1>1 DEF TablesOK, HeadsOK, rows, owner
<1>5. RunOK'
  BY <1>1, <1>2 DEF RunOK, AtWork, rows, owner
<1>6. AheadOK'
  BY <1>1 DEF AheadOK
<1>7. AtWork' = AtWork /\ Reach' = Reach
  BY <1>1, <1>2 DEF AtWork, Reach
<1>8. ReadOK'
  <2> SUFFICES ASSUME AtWork PROVE ReadOK'
    BY <1>7 DEF ReadOK
  <2>1. dg # Idle /\ dg \in Run /\ dg.doc \in Docs /\ dg.ver \in Nat
    BY AtHand DEF AtWork, Versions
  <2>2. dg.ver = current[dg.doc] /\ Excused => Excused'
    BY <1>1, <1>2, <1>3, <2>1 DEF Excused, Distillable, body, Run
  <2> QED
    BY <1>1, <1>2, <2>1, <2>2 DEF ReadOK, Digested, Newest
<1>9. PassedOK'
  BY <1>1, <1>3, <1>7 DEF PassedOK, Covered, Exists, Digested, Newest, Distillable, body
<1> QED
  BY <1>4, <1>5, <1>6, <1>8, <1>9

\* What a failure or a sweep of the writers leaves behind.
LEMMA FailuresKeep ==
  ASSUME DigestInv, CommitFails \/ RestoreFails
  PROVE  DigestInv'
<1> USE DEF DigestInv, docVars, runVars, metadata, graphVars
<1>1. /\ op' = Free /\ op' \notin Commit \cup Restore
      /\ UNCHANGED <<status, current, versions, gone, dg, cursor, pending, ledger, fused>>
      /\ missed \subseteq missed'
      /\ op \in Restore => op.ver = current[op.doc] /\ op.ver \in missed'
  BY OpKinds DEF CommitFails, RestoreFails, Free, Commit, Restore, HeadsOK, TablesOK
<1>2. TablesOK' /\ HeadsOK'
  BY <1>1 DEF TablesOK, HeadsOK, rows, owner
<1>3. RunOK' /\ AheadOK'
  BY <1>1 DEF RunOK, AheadOK, AtWork, rows, owner
<1>4. ReadOK'
  <2> SUFFICES ASSUME AtWork PROVE ReadOK'
    BY <1>1 DEF ReadOK, AtWork
  <2>1. dg.ver = current[dg.doc] /\ Excused => Excused'
    BY <1>1 DEF Excused, Distillable, body
  <2> QED
    BY <1>1, <2>1 DEF ReadOK, Digested, Newest
<1>5. PassedOK'
  BY <1>1 DEF PassedOK, Covered, Exists, Digested, Newest, Distillable, body, Reach
<1> QED
  BY <1>2, <1>3, <1>4, <1>5

LEMMA SweepKeeps ==
  ASSUME DigestInv, NEW d \in Docs, Sweep(d)
  PROVE  DigestInv'
<1> USE DEF DigestInv, docVars, runVars, metadata, graphVars
<1>1. /\ op = Free /\ op \notin Commit \cup Restore
      /\ gone' = gone \cup Leftover(d)
      /\ status' = [status EXCEPT ![d] = IF current[d] = 0 THEN "none" ELSE @]
      /\ UNCHANGED <<current, versions, op, runVars>>
  BY OpKinds DEF Sweep
<1>2. Leftover(d) \subseteq rows /\ rows' \subseteq rows
  BY <1>1 DEF Leftover, rows
<1>3. \A c \in Docs : current[c] # 0 => current[c] \in rows'
  BY <1>1 DEF Leftover, rows, HeadsOK, owner, TablesOK
<1>4. TablesOK' /\ HeadsOK'
  BY <1>1, <1>2, <1>3 DEF TablesOK, HeadsOK, rows, owner
<1>5. RunOK' /\ AheadOK'
  BY <1>1, <1>2 DEF RunOK, AheadOK, AtWork, owner
<1>6. ReadOK'
  <2> SUFFICES ASSUME AtWork PROVE ReadOK'
    BY <1>1 DEF ReadOK, AtWork
  <2>1. dg.doc \in Docs /\ dg.ver # 0
    BY AtHand DEF Versions
  <2>2. dg.ver = current[dg.doc] => status'[dg.doc] = status[dg.doc]
    BY <1>1, <2>1 DEF TablesOK
  <2>3. dg.ver = current[dg.doc] /\ Excused => Excused'
    BY <1>1, <2>2 DEF Excused, Distillable, body
  <2> QED
    BY <1>1, <2>2, <2>3 DEF ReadOK, Digested, Newest, Distillable, body
<1>7. PassedOK'
  BY <1>1 DEF PassedOK, Covered, Exists, Digested, Newest, Distillable, body, Reach, TablesOK
<1> QED
  BY <1>4, <1>5, <1>6, <1>7

-----------------------------------------------------------------------------
(* The run                                                                 *)

\* The start of a run and the ends that leave the marks alone.
LEMMA RunEndsKeep ==
  ASSUME DigestInv, StartDigest \/ EndRun \/ RunDies
  PROVE  DigestInv'
<1> USE DEF DigestInv, docVars, metadata, graphVars
<1>1. /\ UNCHANGED <<status, current, versions, gone, op, cursor, pending, ledger, fused, missed>>
      /\ ~AtWork'
      /\ Reach' <= Reach /\ Reach' \in Nat /\ Reach \in Nat
  BY DEF StartDigest, EndRun, RunDies, RunsAt, AtWork, Working, Reading, Reach, RunOK, Run, TablesOK, Idle
<1>2. TablesOK' /\ HeadsOK'
  BY <1>1 DEF TablesOK, HeadsOK, rows, owner
<1>3. RunOK'
  <2>1. CASE StartDigest
    <3>1. /\ dg' \in Run /\ dg'.at = cursor /\ dg'.todo = {} /\ dg'.mode = "main"
          /\ cursor <= Len(versions)
      BY <2>1, WikiDigestAssumption DEF StartDigest, Run, TablesOK
    <3> QED
      BY <1>1, <3>1 DEF RunOK, TablesOK
  <2>2. CASE EndRun \/ RunDies
    BY <2>2 DEF EndRun, RunDies, RunOK
  <2> QED
    BY <2>1, <2>2
<1>4. AheadOK'
  BY <1>1 DEF AheadOK, Commit
<1>5. ReadOK'
  BY <1>1 DEF ReadOK
<1>6. PassedOK'
  <2>1. \A d \in Docs : current[d] <= Reach' => current[d] <= Reach
    BY <1>1 DEF TablesOK
  <2> QED
    BY <1>1, <2>1 DEF PassedOK, Covered, Exists, Digested, Newest, Distillable, body
<1> QED
  BY <1>2, <1>3, <1>4, <1>5, <1>6

\* A batch leaves no smaller row behind.
LEMMA Batch ==
  ASSUME NEW S \in SUBSET Nat, IsFiniteSet(S), NEW n \in Nat,
         NEW u \in FirstOf(S, n), NEW v \in S, v < u
  PROVE  v \in FirstOf(S, n)
<1> DEFINE below(x) == {w \in S : w < x}
<1>1. below(v) \subseteq below(u) /\ IsFiniteSet(below(u)) /\ IsFiniteSet(below(v))
  <2>1. below(v) \subseteq below(u)
    <3>1. u \in Nat /\ v \in Nat /\ \A w \in S : w \in Nat
      BY DEF FirstOf
    <3>2. ASSUME NEW w \in S, w < v PROVE w < u
      BY <3>1, <3>2
    <3> QED
      BY <3>2
  <2>2. below(u) \in SUBSET S /\ below(v) \in SUBSET S
    OBVIOUS
  <2> QED
    BY <2>1, <2>2, FS_Subset
<1>2. Cardinality(below(v)) <= Cardinality(below(u))
  BY <1>1, FS_Subset
<1>3. Cardinality(below(u)) < n /\ Cardinality(below(u)) \in Nat /\ Cardinality(below(v)) \in Nat
  BY <1>1, FS_CardinalityType DEF FirstOf
<1> QED
  BY <1>2, <1>3 DEF FirstOf

\* Between two versions the run reads rows and marks.
LEMMA FetchKeeps ==
  ASSUME DigestInv, FetchVersions
  PROVE  DigestInv'
<1> USE DEF DigestInv, docVars, metadata, graphVars, RunsAt
<1>1. /\ dg # Idle /\ dg \in Run /\ ~AtWork /\ dg.pc = "pick"
      /\ UNCHANGED <<status, current, versions, gone, op, cursor, pending, ledger, fused, missed>>
  BY DEF FetchVersions, Idle, AtWork, Working, Reading, RunOK
<1> DEFINE ahead == {v \in rows : v > dg.at}
<1>2. ahead \in SUBSET Nat /\ IsFiniteSet(ahead) /\ ahead \subseteq DOMAIN versions
  <2>1. ahead \subseteq 1 .. Len(versions) /\ Len(versions) \in Nat
    BY DEF rows, TablesOK
  <2>2. IsFiniteSet(1 .. Len(versions))
    BY <2>1, FS_Interval
  <2> QED
    BY <2>1, <2>2, FS_Subset DEF TablesOK
<1>3. /\ dg' \in Run /\ dg' # Idle /\ dg'.at = dg.at /\ dg'.pc = "pick"
      /\ \/ dg'.mode = "pending" /\ dg'.todo = pending
         \/ dg'.mode = "main" /\ dg'.todo = FirstOf(ahead, PerRun)
  <2>1. FirstOf(ahead, PerRun) \subseteq Nat
    BY <1>2 DEF FirstOf
  <2>2. pending \subseteq Docs
    BY DEF TablesOK
  <2> QED
    BY <1>1, <2>1, <2>2 DEF FetchVersions, PendingPass, Run, Idle
<1>4. ~AtWork' /\ Reach' = Reach
  BY <1>1, <1>3 DEF AtWork, Working, Reading, Reach
<1>5. RunOK'
  <2>1. CASE dg'.mode = "pending"
    BY <1>1, <1>3, <1>4, <2>1 DEF RunOK
  <2>2. CASE dg'.mode = "main"
    <3>1. dg'.todo = FirstOf(ahead, PerRun)
      BY <1>3, <2>2
    <3>2. ASSUME NEW u \in dg'.todo
          PROVE  /\ u \in DOMAIN versions /\ dg.at < u
                 /\ \A v \in rows : dg.at < v /\ v < u => v \in dg'.todo
      <4>1. u \in ahead
        BY <3>1, <3>2 DEF FirstOf
      <4>2. ASSUME NEW v \in rows, dg.at < v, v < u PROVE v \in dg'.todo
        <5>1. v \in ahead
          BY <1>1, <1>2, <4>2 DEF rows, TablesOK, Run
        <5> QED
          BY <1>2, <3>1, <3>2, <4>2, <5>1, Batch, WikiDigestAssumption
      <4> QED
        BY <1>2, <4>1, <4>2, <1>1 DEF Run, TablesOK
    <3> QED
      BY <1>1, <1>3, <1>4, <2>2, <3>2 DEF RunOK, rows
  <2> QED
    BY <1>3, <2>1, <2>2
<1>6. TablesOK' /\ HeadsOK' /\ AheadOK'
  BY <1>1, <1>4 DEF TablesOK, HeadsOK, AheadOK, rows, owner
<1>7. ReadOK' /\ PassedOK'
  BY <1>1, <1>4 DEF ReadOK, PassedOK, Covered, Exists, Digested, Newest, Distillable, body
<1> QED
  BY <1>5, <1>6, <1>7

LEMMA PickVersionKeeps ==
  ASSUME DigestInv, PickVersion
  PROVE  DigestInv'
<1> USE DEF DigestInv, docVars, metadata, graphVars, RunsAt
<1>1. /\ dg # Idle /\ dg \in Run /\ ~AtWork /\ dg.pc = "pick" /\ dg.mode = "main" /\ dg.todo # {}
      /\ UNCHANGED <<status, current, versions, gone, op, cursor, pending, ledger, fused, missed>>
  BY DEF PickVersion, Idle, AtWork, Working, Reading, RunOK
<1>2. dg.todo \subseteq DOMAIN versions /\ \A u \in dg.todo : dg.at < u
  BY <1>1 DEF RunOK
<1>3. PICK least \in dg.todo :
        /\ \A u \in dg.todo : least <= u
        /\ dg' = IF dg.left = 0 THEN PendingPass
                 ELSE [dg EXCEPT !.pc = "read", !.todo = @ \ {least}, !.left = @ - 1,
                                 !.doc = owner(least), !.ver = least]
  BY DEF PickVersion
<1>4. CASE dg' = PendingPass
  <2>1. /\ dg' \in Run /\ dg' # Idle /\ dg'.at = dg.at /\ dg'.pc = "pick"
        /\ dg'.mode = "pending" /\ dg'.todo = pending
    BY <1>1, <1>4 DEF PendingPass, Run, Idle, TablesOK
  <2>2. ~AtWork' /\ Reach' = Reach
    BY <1>1, <2>1 DEF AtWork, Working, Reading, Reach
  <2>3. RunOK'
    BY <1>1, <2>1, <2>2 DEF RunOK
  <2>4. TablesOK' /\ HeadsOK' /\ AheadOK'
    BY <1>1, <2>2 DEF TablesOK, HeadsOK, AheadOK, rows, owner
  <2>5. ReadOK' /\ PassedOK'
    BY <1>1, <2>2 DEF ReadOK, PassedOK, Covered, Exists, Digested, Newest, Distillable, body
  <2> QED
    BY <2>3, <2>4, <2>5
<1>5. CASE dg' # PendingPass
  <2>0. least \in DOMAIN versions /\ owner(least) \in Docs
    <3>1. least \in DOMAIN versions
      BY <1>2, <1>3
    <3>2. versions[least] \in [doc : Docs, body : Bodies]
      BY <3>1, Element DEF TablesOK
    <3> QED
      BY <3>1, <3>2 DEF owner
  <2>1. dg' = [dg EXCEPT !.pc = "read", !.todo = @ \ {least}, !.left = @ - 1,
                         !.doc = owner(least), !.ver = least] /\ dg.left # 0
    BY <1>3, <1>5
  <2>2. /\ dg' \in Run /\ dg' # Idle /\ dg'.at = dg.at /\ dg'.pc = "read" /\ dg'.mode = "main"
        /\ dg'.todo = dg.todo \ {least} /\ dg'.doc = owner(least) /\ dg'.ver = least
    <3>1. dg.left - 1 \in Nat /\ least \in Nat /\ dg.todo \ {least} \in SUBSET (Nat \cup Docs)
      <4>1. dg.left \in Nat /\ dg.left # 0 /\ dg.todo \in SUBSET (Nat \cup Docs)
        BY <1>1, <2>1 DEF Run
      <4>2. least \in Nat
        BY <2>0 DEF TablesOK
      <4> QED
        BY <4>1, <4>2
    <3>2. dg' \in Run
      BY <1>1, <2>0, <2>1, <3>1 DEF Run, Working
    <3> QED
      BY <1>1, <2>1, <3>2 DEF Run, Idle
  <2>3. AtWork' /\ Reach' = Reach
    BY <1>1, <2>2 DEF AtWork, Working, Reach
  <2>4. RunOK'
    <3>1. ASSUME NEW v \in rows, dg.at < v PROVE least <= v
      <4>1. v \in Nat /\ least \in Nat
        BY <1>2, <1>3 DEF rows, TablesOK
      <4>2. v < least => v \in dg.todo
        BY <1>1, <1>3, <3>1 DEF RunOK
      <4> QED
        BY <1>3, <4>1, <4>2
    <3>2. \A u \in dg'.todo : u \in DOMAIN versions /\ dg.at < u /\ least < u
      BY <1>2, <1>3, <2>2 DEF TablesOK
    <3>3. \A u \in dg'.todo : \A v \in rows : dg.at < v /\ v < u => v \in dg'.todo \/ v = least
      BY <1>1, <2>2 DEF RunOK
    <3> QED
      BY <1>1, <1>2, <1>3, <2>0, <2>2, <2>3, <3>1, <3>2, <3>3 DEF RunOK, rows, owner
  <2>5. TablesOK' /\ HeadsOK' /\ AheadOK'
    BY <1>1, <2>3 DEF TablesOK, HeadsOK, AheadOK, rows, owner
  <2>6. ReadOK'
    BY <2>2, <2>3 DEF ReadOK, Reading
  <2>7. PassedOK'
    BY <1>1, <2>3 DEF PassedOK, Covered, Exists, Digested, Newest, Distillable, body
  <2> QED
    BY <2>4, <2>5, <2>6, <2>7
<1> QED
  BY <1>4, <1>5

\* A mark is dropped only for a document that is gone or recorded.
LEMMA PickPendingKeeps ==
  ASSUME DigestInv, PickPending
  PROVE  DigestInv'
<1> USE DEF DigestInv, docVars, metadata, graphVars, RunsAt
<1>1. /\ dg # Idle /\ dg \in Run /\ ~AtWork /\ dg.pc = "pick" /\ dg.mode = "pending" /\ dg.left > 0
      /\ UNCHANGED <<status, current, versions, gone, op, cursor, ledger, fused, missed>>
  BY DEF PickPending, Idle, AtWork, Working, Reading, RunOK
<1>2. PICK d \in dg.todo :
        LET v    == current[d]
            drop == ~Exists(d) \/ (v <= dg.at /\ Recorded(d, v)) \/ (v <= dg.at /\ v \notin rows)
        IN  /\ IF drop THEN ClearPending(d) ELSE UNCHANGED pending
            /\ dg' = IF drop \/ v > dg.at
                       THEN [dg EXCEPT !.todo = @ \ {d}]
                       ELSE [dg EXCEPT !.pc = "read", !.todo = @ \ {d}, !.left = @ - 1,
                                       !.doc = d, !.ver = v]
  BY DEF PickPending
<1>3. d \in Docs /\ d \in pending /\ dg.todo \subseteq pending
  BY <1>1 DEF RunOK, TablesOK
<1>4. Exists(d) => current[d] \in rows /\ owner(current[d]) = d
  BY <1>3 DEF Exists, HeadsOK
<1>5. dg' # Idle /\ dg'.at = dg.at /\ Reach' = Reach
  BY <1>1, <1>2 DEF Reach, Run, Idle
<1>6. TablesOK' /\ HeadsOK' /\ AheadOK'
  BY <1>1, <1>2, <1>5 DEF TablesOK, HeadsOK, AheadOK, rows, owner, ClearPending
<1>7. CASE dg' = [dg EXCEPT !.todo = @ \ {d}]
  <2>1. ~AtWork' /\ dg' \in Run /\ dg'.todo = dg.todo \ {d} /\ dg'.mode = "pending"
    BY <1>1, <1>7 DEF AtWork, Working, Reading, Run
  <2>2. pending \ {d} \subseteq pending'
    BY <1>2 DEF ClearPending
  <2>3. RunOK'
    BY <1>1, <1>3, <1>5, <2>1, <2>2 DEF RunOK
  <2>4. ReadOK'
    BY <2>1 DEF ReadOK
  <2>5. ASSUME NEW c \in Docs, Exists(c)', Distillable(c)', current'[c] <= Reach' PROVE Covered(c)'
    <3>1. Exists(c) /\ Covered(c)
      BY <1>1, <1>5, <2>5 DEF PassedOK, Exists, Distillable, body
    <3>2. c = d /\ pending' # pending => Digested(c, current[c])
      BY <1>2, <1>4, <3>1 DEF Recorded, Digested
    <3> QED
      BY <1>1, <2>2, <3>1, <3>2 DEF Covered, Digested, Newest
  <2> QED
    BY <1>6, <2>3, <2>4, <2>5 DEF PassedOK
<1>8. CASE dg' # [dg EXCEPT !.todo = @ \ {d}]
  <2>1. /\ Exists(d) /\ ~(current[d] > dg.at) /\ pending' = pending
        /\ dg' = [dg EXCEPT !.pc = "read", !.todo = @ \ {d}, !.left = @ - 1,
                            !.doc = d, !.ver = current[d]]
    BY <1>2, <1>8
  <2>2. /\ dg' \in Run /\ dg'.pc = "read" /\ dg'.mode = "pending" /\ dg'.todo = dg.todo \ {d}
        /\ dg'.doc = d /\ dg'.ver = current[d] /\ dg'.at = dg.at
    <3>1. dg.left - 1 \in Nat /\ current[d] \in Nat /\ dg.todo \ {d} \in SUBSET (Nat \cup Docs)
      BY <1>1, <1>3 DEF Run, TablesOK
    <3>2. dg' \in Run
      BY <1>1, <1>3, <2>1, <3>1 DEF Run, Working
    <3> QED
      BY <1>1, <2>1, <3>2 DEF Run
  <2>3. current[d] \in DOMAIN versions /\ current[d] <= dg.at
    BY <1>1, <1>3, <1>4, <2>1 DEF rows, TablesOK, Run
  <2>4. AtWork'
    BY <1>5, <2>2 DEF AtWork, Working
  <2>5. RunOK'
    BY <1>1, <1>3, <1>4, <1>5, <2>1, <2>2, <2>3, <2>4 DEF RunOK, owner
  <2>6. ReadOK'
    BY <1>1, <1>3, <2>2 DEF ReadOK, Reading, TablesOK
  <2>7. PassedOK'
    BY <1>1, <1>5, <2>1 DEF PassedOK, Covered, Exists, Digested, Newest, Distillable, body
  <2> QED
    BY <1>6, <2>5, <2>6, <2>7
<1> QED
  BY <1>7, <1>8

\* Steps on one version that leave the tables alone.
LEMMA WorkKeeps ==
  ASSUME DigestInv, AtWork, ReadOK',
         UNCHANGED <<status, current, versions, gone, op, cursor, pending, ledger, fused, missed>>,
         dg' \in Run, dg' # Idle, dg'.pc \in Working,
         dg'.mode = dg.mode, dg'.at = dg.at, dg'.todo = dg.todo, dg'.doc = dg.doc, dg'.ver = dg.ver
  PROVE  DigestInv'
<1> USE DEF DigestInv
<1>1. dg # Idle /\ AtWork' /\ Reach' = Reach
  BY DEF AtWork, Reach
<1>2. TablesOK' /\ HeadsOK' /\ AheadOK'
  BY <1>1 DEF TablesOK, HeadsOK, AheadOK, rows, owner
<1>3. RunOK'
  BY <1>1 DEF RunOK, rows, owner
<1>4. PassedOK'
  BY <1>1 DEF PassedOK, Covered, Exists, Digested, Newest, Distillable, body
<1> QED
  BY <1>2, <1>3, <1>4

\* Extraction, writes to the graph, and what is read again before them.
LEMMA GraphStepsKeep ==
  ASSUME DigestInv, ReadChunks \/ Extract \/ WriteFacts \/ Supersede \/ Retract
  PROVE  DigestInv'
<1> USE DEF DigestInv, docVars, metadata, graphVars, RunsAt, Go
<1>1. AtWork /\ dg # Idle /\ dg \in Run
  <2>1. dg.pc \in {"chunks", "extract", "write", "supersede", "retract"}
    BY DEF ReadChunks, Extract, WriteFacts, Supersede, Retract
  <2>2. dg # Idle
    BY <2>1 DEF Idle
  <2> QED
    BY <2>1, <2>2 DEF AtWork, Working, Reading, RunOK
<1>2. dg.ver \in DOMAIN versions /\ dg.doc \in Docs
  BY <1>1, AtHand DEF RunOK
<1>3. \A facts \in SUBSET {body(dg.ver)} : facts \in SUBSET Bodies
  <2>1. versions[dg.ver] \in [doc : Docs, body : Bodies]
    BY <1>2, Element DEF TablesOK
  <2> QED
    BY <2>1 DEF body
<1>4. UNCHANGED <<status, current, versions, gone, op, cursor, pending, ledger, fused, missed>>
  BY DEF ReadChunks, Extract, WriteFacts, Supersede, Retract
<1>5. PICK to \in Working :
        /\ dg' \in Run /\ dg' # Idle /\ dg'.pc = to
        /\ dg'.mode = dg.mode /\ dg'.at = dg.at /\ dg'.todo = dg.todo /\ dg'.doc = dg.doc
        /\ dg'.ver = dg.ver /\ dg'.again = dg.again
        /\ \/ dg.pc \in Reading /\ to \in Reading
           \/ dg.pc \in Reading /\ to = "retire" /\ dg.ver # current[dg.doc]
           \/ dg.pc = "retract" /\ to \in {"retire", "retracted"}
  <2>1. CASE ReadChunks \/ WriteFacts \/ Supersede \/ Retract
    <3>1. PICK to \in Working :
            /\ dg' = [dg EXCEPT !.pc = to]
            /\ \/ dg.pc \in Reading /\ to \in Reading
               \/ dg.pc \in Reading /\ to = "retire" /\ dg.ver # current[dg.doc]
               \/ dg.pc = "retract" /\ to \in {"retire", "retracted"}
      BY <2>1 DEF ReadChunks, WriteFacts, Supersede, Retract, Working, Reading
    <3> QED
      BY <1>1, <3>1 DEF Run, Idle
  <2>2. CASE Extract
    <3>1. PICK facts \in SUBSET Bodies : dg' = [dg EXCEPT !.pc = "write", !.facts = facts]
      BY <1>3, <2>2 DEF Extract
    <3>2. dg' \in Run
      BY <1>1, <3>1 DEF Run, Working, Reading
    <3>3. /\ dg'.pc = "write" /\ dg' # Idle
          /\ dg'.mode = dg.mode /\ dg'.at = dg.at /\ dg'.todo = dg.todo /\ dg'.doc = dg.doc
          /\ dg'.ver = dg.ver /\ dg'.again = dg.again
      BY <1>1, <3>1 DEF Run, Idle
    <3>4. dg.pc = "extract"
      BY <2>2 DEF Extract
    <3> QED
      BY <3>2, <3>3, <3>4 DEF Working, Reading
  <2> QED
    BY <2>1, <2>2
<1>6. ReadOK'
  <2>1. Excused => Excused'
    BY <1>4, <1>5 DEF Excused, Distillable, body
  <2>2. current[dg.doc] \in Nat /\ dg.ver \in Nat
    BY <1>1, <1>2 DEF TablesOK, Run
  <2> QED
    BY <1>1, <1>4, <1>5, <2>1, <2>2 DEF ReadOK, Reading
<1> QED
  BY <1>1, <1>4, <1>5, <1>6, WorkKeeps

\* What the document says of the version, and what its end will rely on.
LEMMA ReadDocKeeps ==
  ASSUME DigestInv, ReadDoc
  PROVE  DigestInv'
<1> USE DEF DigestInv, docVars, metadata, graphVars, RunsAt
<1>1. AtWork /\ dg # Idle /\ dg \in Run /\ dg.pc = "read"
  BY DEF ReadDoc, Idle, AtWork, Working, Reading, RunOK
<1>2. dg.ver \in Nat \ {0} /\ dg.doc \in Docs /\ current[dg.doc] \in Nat
  BY <1>1, AtHand DEF Versions, TablesOK
<1>3. UNCHANGED <<status, current, versions, gone, op, cursor, pending, ledger, fused, missed>>
  BY DEF ReadDoc
<1>4. Exists(dg.doc) \/ current[dg.doc] = 0
  BY <1>2 DEF Exists, HeadsOK
<1>5. CASE Outcome(dg.doc, dg.ver) = "notReady" /\ dg.mode = "main"
  <2>1. /\ dg' \in Run /\ dg' # Idle /\ dg'.at = dg.at /\ dg'.pc = "pick"
        /\ dg'.mode = "pending" /\ dg'.todo = pending
    BY <1>1, <1>5 DEF ReadDoc, PendingPass, Run, Idle, TablesOK
  <2>2. ~AtWork' /\ Reach' = Reach
    BY <1>1, <2>1 DEF AtWork, Working, Reading, Reach
  <2>3. RunOK'
    BY <1>1, <1>3, <2>1, <2>2 DEF RunOK
  <2>4. TablesOK' /\ HeadsOK' /\ AheadOK'
    BY <1>3, <2>2 DEF TablesOK, HeadsOK, AheadOK, rows, owner
  <2>5. ReadOK' /\ PassedOK'
    BY <1>3, <2>2 DEF ReadOK, PassedOK, Covered, Exists, Digested, Newest, Distillable, body
  <2> QED
    BY <2>3, <2>4, <2>5
<1>6. CASE Outcome(dg.doc, dg.ver) = "notReady" /\ dg.mode # "main"
  <2>1. Exists(dg.doc) /\ dg.ver > current[dg.doc]
    BY <1>2, <1>6 DEF Outcome
  <2> QED
    BY <1>1, <1>2, <1>6, <2>1 DEF ReadOK, Run
<1>7. CASE Outcome(dg.doc, dg.ver) # "notReady"
  <2>1. dg' = [dg EXCEPT !.pc = Outcome(dg.doc, dg.ver), !.again = dg.ver > current[dg.doc]]
    BY <1>7 DEF ReadDoc
  <2>2. /\ Outcome(dg.doc, dg.ver) \in {"retire", "chunks", "retract"}
        /\ Outcome(dg.doc, dg.ver) # "retire" => dg.ver = current[dg.doc]
        /\ Outcome(dg.doc, dg.ver) = "retract" => ~Distillable(dg.doc)
        /\ Outcome(dg.doc, dg.ver) = "retire" => ~Exists(dg.doc) \/ dg.ver < current[dg.doc]
    BY <1>2, <1>7 DEF Outcome
  <2>3. /\ dg' \in Run /\ dg' # Idle /\ dg'.pc = Outcome(dg.doc, dg.ver) /\ dg'.pc \in Working
        /\ dg'.mode = dg.mode /\ dg'.at = dg.at /\ dg'.todo = dg.todo /\ dg'.doc = dg.doc
        /\ dg'.ver = dg.ver /\ dg'.again = (dg.ver > current[dg.doc])
    <3>1. (dg.ver > current[dg.doc]) \in BOOLEAN
      BY <1>2
    <3> QED
      BY <1>1, <2>1, <2>2, <3>1 DEF Run, Idle, Working, Reading
  <2>4. ReadOK'
    <3>1. dg'.pc = "retract" => Excused'
      BY <1>3, <2>2, <2>3 DEF Excused, Distillable, body
    <3>2. dg'.pc = "retire" => dg.ver < current[dg.doc] \/ (current[dg.doc] = 0 /\ dg'.again)
      <4>1. current[dg.doc] = 0 => dg.ver > current[dg.doc]
        BY <1>2
      <4>2. current[dg.doc] = 0 => dg'.again
        BY <2>3, <4>1, Zenon
      <4> QED
        BY <1>4, <2>2, <2>3, <4>2
    <3> QED
      BY <1>1, <1>2, <1>3, <2>2, <2>3, <3>1, <3>2 DEF ReadOK, Reading
  <2> QED
    BY <1>1, <1>3, <2>3, <2>4, WorkKeeps
<1> QED
  BY <1>5, <1>6, <1>7

\* An entry in the ledger is the newest of its document.
LEMMA Newly ==
  ASSUME TablesOK, NEW d \in Docs, NEW v \in Nat, NEW facts \in SUBSET Bodies,
         NEW retracted \in BOOLEAN, Record(d, v, facts, retracted)
  PROVE  /\ ledger' \in [Docs -> Seq(Event)]
         /\ \A c \in Docs \ {d} : ledger'[c] = ledger[c]
         /\ ledger'[d] # <<>>
         /\ ledger'[d][Len(ledger'[d])] = [ver |-> v, facts |-> facts, retracted |-> retracted]
<1> DEFINE entry == [ver |-> v, facts |-> facts, retracted |-> retracted]
<1>1. ledger[d] \in Seq(Event) /\ entry \in Event
  BY DEF TablesOK, Event
<1>2. Without(ledger[d], v) \in Seq(Event)
  <2> DEFINE its == {i \in DOMAIN ledger[d] : ledger[d][i].ver = v}
             at  == CHOOSE i \in its : TRUE
  <2>1. CASE its = {}
    BY <1>1, <2>1 DEF Without
  <2>2. CASE its # {}
    <3>1. at \in 1 .. Len(ledger[d])
      BY <1>1, <2>2
    <3>2. SubSeq(ledger[d], 1, at - 1) \o SubSeq(ledger[d], at + 1, Len(ledger[d])) \in Seq(Event)
      <4> HIDE DEF at
      <4> QED
        BY <1>1, <3>1
    <3> QED
      BY <2>2, <3>2 DEF Without
  <2> QED
    BY <2>1, <2>2
<1> DEFINE new == Append(Without(ledger[d], v), entry)
<1>3. ledger' = [ledger EXCEPT ![d] = new]
  BY DEF Record
<1>4. new \in Seq(Event) /\ new # <<>> /\ new[Len(new)] = entry
  <2> HIDE DEF entry
  <2> QED
    BY <1>1, <1>2
<1> HIDE DEF new
<1> QED
  BY <1>3, <1>4 DEF TablesOK

\* What goes into the ledger speaks of a current version, or of one that has
\* a successor ahead of the run.
LEMMA RecordsKeep ==
  ASSUME DigestInv, RecordDigest \/ RecordRetraction
  PROVE  DigestInv'
<1> USE DEF DigestInv, docVars, metadata, graphVars, RunsAt, Go
<1>1. AtWork /\ dg # Idle /\ dg \in Run /\ dg.pc \in {"record", "retracted"}
  <2>1. dg.pc \in {"record", "retracted"}
    BY DEF RecordDigest, RecordRetraction
  <2>2. dg # Idle
    BY <2>1 DEF Idle
  <2> QED
    BY <2>1, <2>2 DEF AtWork, Working, Reading, RunOK
<1>2. dg.ver \in Nat \ {0} /\ dg.doc \in Docs /\ current[dg.doc] \in Nat /\ dg.facts \in SUBSET Bodies
  BY <1>1, AtHand DEF Versions, TablesOK, Run
<1>3. /\ UNCHANGED <<status, current, versions, gone, op, cursor, pending, fused, missed>>
      /\ dg' \in Run /\ dg' # Idle /\ dg'.pc = "retire"
      /\ dg'.mode = dg.mode /\ dg'.at = dg.at /\ dg'.todo = dg.todo /\ dg'.doc = dg.doc
      /\ dg'.ver = dg.ver /\ dg'.again = dg.again
  <2>1. dg' = [dg EXCEPT !.pc = "retire"]
    BY DEF RecordDigest, RecordRetraction
  <2>2. UNCHANGED <<status, current, versions, gone, op, cursor, pending, fused, missed>>
    BY DEF RecordDigest, RecordRetraction
  <2> QED
    BY <1>1, <2>1, <2>2 DEF Run, Idle, Working
<1>4. /\ ledger' \in [Docs -> Seq(Event)]
      /\ \A c \in Docs \ {dg.doc} : ledger'[c] = ledger[c]
      /\ dg.pc = "record" => Digested(dg.doc, dg.ver)'
  <2>1. CASE RecordDigest
    <3>1. Record(dg.doc, dg.ver, dg.facts, FALSE)
      BY <2>1 DEF RecordDigest
    <3>2. /\ ledger' \in [Docs -> Seq(Event)]
          /\ \A c \in Docs \ {dg.doc} : ledger'[c] = ledger[c]
          /\ ledger'[dg.doc] # <<>>
          /\ ledger'[dg.doc][Len(ledger'[dg.doc])]
               = [ver |-> dg.ver, facts |-> dg.facts, retracted |-> FALSE]
      BY <1>2, <3>1, Newly
    <3> QED
      BY <1>3, <3>2 DEF Digested, Newest
  <2>2. CASE RecordRetraction
    BY <1>2, <1>3, <2>2, Newly DEF RecordRetraction
  <2> QED
    BY <2>1, <2>2
<1>5. AtWork' /\ Reach' = Reach
  BY <1>1, <1>3 DEF AtWork, Working, Reach
<1>6. TablesOK' /\ HeadsOK' /\ AheadOK'
  BY <1>3, <1>4, <1>5 DEF TablesOK, HeadsOK, AheadOK, rows, owner
<1>7. RunOK'
  BY <1>1, <1>3, <1>5 DEF RunOK, rows, owner
<1>8. ReadOK'
  <2>1. Excused => Excused'
    BY <1>3 DEF Excused, Distillable, body
  <2> QED
    BY <1>1, <1>2, <1>3, <1>4, <2>1 DEF ReadOK, Reading
<1>9. PassedOK'
  <2>1. ASSUME NEW d \in Docs, d # dg.doc, Exists(d)', Distillable(d)', current'[d] <= Reach'
        PROVE  Covered(d)'
    <3>1. Covered(d)
      BY <1>3, <1>5, <2>1 DEF PassedOK, Exists, Distillable, body
    <3> QED
      BY <1>3, <1>4, <2>1, <3>1 DEF Covered, Digested, Newest
  <2>2. CASE dg.mode = "pending"
    <3>1. dg.doc \in pending
      BY <1>1, <2>2 DEF RunOK
    <3> QED
      BY <1>3, <2>1, <3>1 DEF PassedOK, Covered
  <2>3. CASE dg.mode = "main"
    <3>1. Reach < current[dg.doc]
      BY <1>1, <1>2, <2>3 DEF RunOK, ReadOK, Reach, Run, Reading
    <3>2. ~(current'[dg.doc] <= Reach')
      BY <1>1, <1>2, <1>3, <1>5, <3>1 DEF Reach, Run
    <3> QED
      BY <2>1, <3>2 DEF PassedOK
  <2> QED
    BY <1>1, <2>2, <2>3 DEF Run
<1> QED
  BY <1>6, <1>7, <1>8, <1>9

\* The end of a version: the run or its mark passes it.
LEMMA RetireKeeps ==
  ASSUME DigestInv, EventsOK, Retire
  PROVE  DigestInv'
<1> USE DEF DigestInv, docVars, metadata, graphVars, RunsAt
<1>1. AtWork /\ dg # Idle /\ dg \in Run /\ dg.pc = "retire"
  BY DEF Retire, Idle, AtWork, Working, Reading, RunOK
<1>2. /\ dg.ver \in Nat \ {0} /\ dg.ver <= Len(versions) /\ dg.doc \in Docs
      /\ current[dg.doc] \in Nat /\ dg.doc = owner(dg.ver)
  BY <1>1, AtHand DEF Versions, TablesOK, RunOK
<1>3. /\ UNCHANGED <<status, current, versions, gone, op, ledger, fused>>
      /\ missed \subseteq missed'
      /\ dg.again /\ dg.ver >= current[dg.doc] =>
           dg.ver \in missed' \/ Digested(dg.doc, dg.ver)
  BY DEF Retire, Passed, Recorded, Digested
<1>4. /\ dg' \in Run /\ dg' # Idle /\ dg'.pc = "pick" /\ dg'.mode = dg.mode /\ dg'.todo = dg.todo
      /\ dg'.at = IF dg.mode = "main" THEN dg.ver ELSE dg.at
  BY <1>1, <1>2 DEF Retire, Run, Idle
<1>5. ~AtWork' /\ Reach' = dg'.at /\ Reach = dg.at
  BY <1>1, <1>4 DEF AtWork, Working, Reading, Reach
<1>6. CASE dg.mode = "main"
  <2>1. pending' = pending /\ cursor' \in {cursor, dg.ver} /\ dg'.at = dg.ver /\ dg.at < dg.ver
    BY <1>1, <1>4, <1>6 DEF Retire, Saved, SaveFails, RunOK
  <2>2. cursor' \in 0 .. Len(versions) /\ cursor' <= dg.ver
    BY <1>1, <1>2, <2>1 DEF TablesOK, RunOK, Run
  <2>3. TablesOK' /\ HeadsOK'
    BY <1>3, <2>1, <2>2 DEF TablesOK, HeadsOK, rows, owner
  <2>4. RunOK'
    <3>1. dg.at \in Nat /\ rows \subseteq Nat /\ rows' = rows
      BY <1>1, <1>3 DEF Run, rows, TablesOK
    <3>2. ASSUME NEW u \in dg.todo PROVE u \in DOMAIN versions /\ dg.ver < u
      BY <1>1, <1>6, <3>2 DEF RunOK
    <3>3. ASSUME NEW u \in dg.todo, NEW v \in rows, dg.ver < v, v < u PROVE v \in dg.todo
      <4>1. v \in Nat /\ dg.at < v /\ v # dg.ver
        BY <1>2, <2>1, <3>1, <3>3
      <4> QED
        BY <1>1, <1>6, <3>3, <4>1 DEF RunOK
    <3> QED
      BY <1>2, <1>3, <1>4, <1>5, <1>6, <2>1, <2>2, <3>1, <3>2, <3>3 DEF RunOK
  <2>5. AheadOK'
    <3> SUFFICES ASSUME op \in Commit, op.ver # 0 PROVE AheadOK'
      BY <1>3 DEF AheadOK
    <3>1. op.ver = Len(versions) /\ owner(op.ver) = op.doc /\ current[op.doc] < op.ver
      BY DEF HeadsOK
    <3>2. CASE dg.ver = op.ver
      <4>1. dg.again /\ current[dg.doc] = 0 /\ dg.doc = op.doc
        BY <1>1, <1>2, <3>1, <3>2 DEF ReadOK
      <4>2. ~Digested(dg.doc, dg.ver)
        <5>1. ledger[dg.doc] \in Seq(Event)
          BY <1>2 DEF TablesOK
        <5>2. ledger[dg.doc] = <<>> \/ Len(ledger[dg.doc]) \in DOMAIN ledger[dg.doc]
          BY <5>1
        <5> QED
          BY <1>2, <4>1, <5>2 DEF EventsOK, Digested, Newest
      <4> QED
        BY <1>2, <1>3, <3>2, <4>1, <4>2 DEF AheadOK
    <3>3. CASE dg.ver # op.ver
      <4>1. dg.ver < op.ver
        BY <1>2, <3>1, <3>3 DEF TablesOK
      <4> QED
        BY <1>3, <1>5, <2>1, <4>1 DEF AheadOK
    <3> QED
      BY <3>2, <3>3
  <2>6. PassedOK'
    <3>1. ASSUME NEW d \in Docs, Exists(d)', Distillable(d)', current'[d] <= Reach' PROVE Covered(d)'
      <4>1. Exists(d) /\ Distillable(d) /\ current[d] <= dg.ver /\ current[d] \in rows
            /\ owner(current[d]) = d
        BY <1>3, <1>5, <2>1, <3>1 DEF Exists, Distillable, body, HeadsOK
      <4>2. CASE current[d] <= dg.at
        BY <1>3, <1>5, <2>1, <4>1, <4>2 DEF PassedOK, Covered, Digested, Newest
      <4>3. CASE ~(current[d] <= dg.at)
        <5>1. current[d] = dg.ver /\ d = dg.doc
          <6>1. current[d] \in Nat /\ dg.at \in Nat
            BY <1>1, <3>1 DEF Run, TablesOK
          <6>2. dg.ver <= current[d]
            BY <1>1, <1>6, <4>1, <4>3, <6>1 DEF RunOK
          <6> QED
            BY <1>2, <4>1, <6>1, <6>2
        <5> QED
          BY <1>1, <1>3, <2>1, <4>1, <5>1 DEF ReadOK, Excused, Covered, Digested, Newest
      <4> QED
        BY <4>2, <4>3
    <3> QED
      BY <3>1 DEF PassedOK
  <2> QED
    BY <1>5, <2>3, <2>4, <2>5, <2>6 DEF ReadOK
<1>7. CASE dg.mode = "pending"
  <2>1. pending' = pending \ {dg.doc} /\ cursor' = cursor /\ dg'.at = dg.at
    BY <1>4, <1>7 DEF Retire, ClearPending
  <2>2. TablesOK' /\ HeadsOK'
    BY <1>3, <2>1 DEF TablesOK, HeadsOK, rows, owner
  <2>3. RunOK'
    BY <1>1, <1>4, <1>5, <1>3, <1>7, <2>1 DEF RunOK
  <2>4. AheadOK'
    BY <1>3, <1>5, <2>1 DEF AheadOK
  <2>5. ASSUME NEW d \in Docs, Exists(d)', Distillable(d)', current'[d] <= Reach' PROVE Covered(d)'
    <3>1. Exists(d) /\ Distillable(d) /\ Covered(d) /\ current[d] <= dg.at
      BY <1>3, <1>5, <2>1, <2>5 DEF PassedOK, Exists, Distillable, body
    <3>2. CASE d # dg.doc
      BY <1>3, <2>1, <3>1, <3>2 DEF Covered, Digested, Newest
    <3>3. CASE d = dg.doc
      <4>1. current[d] = dg.ver \/ current[d] \in fused
        BY <1>1, <1>2, <1>7, <3>1, <3>3 DEF ReadOK, Run
      <4> QED
        BY <1>1, <1>3, <1>7, <3>1, <3>3, <4>1 DEF ReadOK, Excused, Covered, Digested, Newest
    <3> QED
      BY <3>2, <3>3
  <2> QED
    BY <1>5, <2>2, <2>3, <2>4, <2>5 DEF ReadOK, PassedOK
<1> QED
  BY <1>1, <1>6, <1>7 DEF Run

\* A failed attempt ends the run, or the fuse gives the version up and says so.
LEMMA AttemptFailsKeeps ==
  ASSUME DigestInv, AttemptFails
  PROVE  DigestInv'
<1> USE DEF DigestInv, docVars, metadata, graphVars, RunsAt
<1>1. AtWork /\ dg # Idle /\ dg \in Run
  <2>1. dg.pc \in {"extract", "read", "chunks", "write", "supersede", "record", "retract", "retracted"}
    BY DEF AttemptFails, Fails
  <2>2. dg # Idle
    BY <2>1 DEF Idle
  <2> QED
    BY <2>1, <2>2 DEF AtWork, Working, Reading, RunOK
<1>2. /\ dg.ver \in Nat \ {0} /\ dg.ver <= Len(versions) /\ dg.doc \in Docs
      /\ current[dg.doc] \in Nat /\ dg.doc = owner(dg.ver)
  BY <1>1, AtHand DEF Versions, TablesOK, RunOK
<1>3. UNCHANGED <<status, current, versions, gone, op, ledger>>
  BY DEF AttemptFails
<1>4. CASE Bump(dg.ver) < MaxStrikes
  <2>1. /\ dg' = Idle /\ UNCHANGED <<cursor, pending, fused, missed>> /\ ~AtWork'
        /\ Reach' <= Reach /\ Reach' \in Nat /\ Reach \in Nat
    BY <1>1, <1>4 DEF AttemptFails, AtWork, Reach, RunOK, Run, TablesOK
  <2>2. TablesOK' /\ HeadsOK' /\ RunOK' /\ ReadOK'
    BY <1>3, <2>1 DEF TablesOK, HeadsOK, RunOK, ReadOK, rows, owner
  <2>3. AheadOK'
    BY <1>3, <2>1 DEF AheadOK, Commit
  <2>4. PassedOK'
    <3>1. \A d \in Docs : current[d] <= Reach' => current[d] <= Reach
      BY <2>1 DEF TablesOK
    <3> QED
      BY <1>3, <2>1, <3>1 DEF PassedOK, Covered, Exists, Digested, Newest, Distillable, body
  <2> QED
    BY <2>2, <2>3, <2>4
<1>5. CASE ~(Bump(dg.ver) < MaxStrikes)
  <2>1. /\ fused' = fused \cup {dg.ver} /\ missed \subseteq missed'
        /\ IF dg.mode = "main"
             THEN cursor' \in {cursor, dg.ver} /\ pending' = pending
             ELSE pending' = pending \ {dg.doc} /\ cursor' = cursor
    BY <1>5 DEF AttemptFails, ClearPending, Saved, SaveFails, Passed
  <2>2. /\ dg' \in Run /\ dg' # Idle /\ dg'.pc = "pick" /\ dg'.mode = dg.mode /\ dg'.todo = dg.todo
        /\ dg'.at = IF dg.mode = "main" THEN dg.ver ELSE dg.at
    BY <1>1, <1>2, <1>5 DEF AttemptFails, Run, Idle
  <2>3. ~AtWork' /\ Reach' = dg'.at /\ Reach = dg.at /\ dg.at \in Nat
    BY <1>1, <2>2 DEF AtWork, Working, Reading, Reach, Run
  <2>4. TablesOK' /\ HeadsOK' /\ (dg.mode = "main" => cursor' <= dg.ver)
    <3>1. dg.mode = "main" => cursor' <= dg.ver
      BY <1>1, <1>2, <2>1, <2>3 DEF RunOK, TablesOK
    <3> QED
      BY <1>2, <1>3, <2>1, <3>1 DEF TablesOK, HeadsOK, rows, owner
  <2>5. CASE dg.mode = "main"
    <3>1. dg.at < dg.ver /\ dg'.at = dg.ver
      BY <1>1, <2>2, <2>5 DEF RunOK
    <3>2. RunOK'
      <4>1. rows \subseteq Nat /\ rows' = rows
        BY <1>3 DEF rows, TablesOK
      <4>2. ASSUME NEW u \in dg.todo PROVE u \in DOMAIN versions /\ dg.ver < u
        BY <1>1, <2>5, <4>2 DEF RunOK
      <4>3. ASSUME NEW u \in dg.todo, NEW v \in rows, dg.ver < v, v < u PROVE v \in dg.todo
        <5>1. v \in Nat /\ dg.at < v /\ v # dg.ver
          BY <1>2, <2>3, <3>1, <4>1, <4>3
        <5> QED
          BY <1>1, <2>5, <4>3, <5>1 DEF RunOK
      <4> QED
        BY <1>2, <1>3, <2>1, <2>2, <2>3, <2>4, <2>5, <3>1, <4>1, <4>2, <4>3 DEF RunOK
    <3>3. AheadOK'
      <4> SUFFICES ASSUME op \in Commit, op.ver # 0 PROVE AheadOK'
        BY <1>3 DEF AheadOK
      <4>1. op.ver = Len(versions)
        BY DEF HeadsOK
      <4>2. dg.ver = op.ver \/ dg.ver < op.ver
        BY <1>2, <4>1 DEF TablesOK
      <4> QED
        BY <1>3, <2>1, <2>3, <3>1, <4>2 DEF AheadOK
    <3>4. ASSUME NEW d \in Docs, Exists(d)', Distillable(d)', current'[d] <= Reach' PROVE Covered(d)'
      <4>1. Exists(d) /\ Distillable(d) /\ current[d] <= dg.ver /\ current[d] \in rows
        BY <1>3, <2>3, <3>1, <3>4 DEF Exists, Distillable, body, HeadsOK
      <4>2. CASE current[d] <= dg.at
        BY <1>3, <2>1, <2>3, <2>5, <4>1, <4>2 DEF PassedOK, Covered, Digested, Newest
      <4>3. CASE ~(current[d] <= dg.at)
        <5>1. current[d] \in Nat
          BY <3>4 DEF TablesOK
        <5>2. dg.ver <= current[d]
          BY <1>1, <2>3, <2>5, <4>1, <4>3, <5>1 DEF RunOK
        <5>3. current[d] = dg.ver
          BY <1>2, <4>1, <5>1, <5>2
        <5> QED
          BY <1>3, <2>1, <5>3 DEF Covered
      <4> QED
        BY <4>2, <4>3
    <3> QED
      BY <2>3, <2>4, <3>2, <3>3, <3>4 DEF ReadOK, PassedOK
  <2>6. CASE dg.mode = "pending"
    <3>1. RunOK'
      BY <1>1, <1>3, <2>1, <2>2, <2>3, <2>6 DEF RunOK
    <3>2. AheadOK'
      BY <1>3, <2>1, <2>2, <2>3, <2>6 DEF AheadOK
    <3>3. ASSUME NEW d \in Docs, Exists(d)', Distillable(d)', current'[d] <= Reach' PROVE Covered(d)'
      <4>1. Exists(d) /\ Distillable(d) /\ Covered(d) /\ current[d] <= dg.at
        BY <1>3, <2>2, <2>3, <2>6, <3>3 DEF PassedOK, Exists, Distillable, body
      <4>2. CASE d # dg.doc
        BY <1>3, <2>1, <2>6, <4>1, <4>2 DEF Covered, Digested, Newest
      <4>3. CASE d = dg.doc
        <5>1. current[d] = dg.ver \/ current[d] \in fused
          BY <1>1, <1>2, <2>6, <4>1, <4>3 DEF ReadOK, Run
        <5> QED
          BY <1>3, <2>1, <5>1 DEF Covered
      <4> QED
        BY <4>2, <4>3
    <3> QED
      BY <2>3, <2>4, <3>1, <3>2, <3>3 DEF ReadOK, PassedOK
  <2> QED
    BY <1>1, <2>5, <2>6 DEF Run
<1> QED
  BY <1>4, <1>5

\* A restart falls back to what was written.  What was queued since and lies
\* behind the cursor is missed.
LEMMA RestartKeeps ==
  ASSUME DigestInv, StoredOK, Restart
  PROVE  DigestInv'
<1> USE DEF DigestInv, metadata, graphVars
<1>1. /\ op' = Free /\ op' \notin Commit \cup Restore /\ dg' = Idle
      /\ cursor' = stored.cursor /\ pending' = stored.pending
      /\ UNCHANGED <<status, current, versions, gone, ledger, fused>> /\ missed \subseteq missed'
      /\ \A d \in Unstored : status[d] = "active" /\ current[d] <= stored.cursor =>
           current[d] \in missed' \/ Digested(d, current[d])
  BY DEF Restart, Free, Commit, Restore, Recorded, Digested
<1>2. /\ stored.cursor \in 0 .. Len(versions) /\ stored.pending \subseteq Docs
      /\ stored.cursor <= Reach /\ stored.cursor \in Nat /\ Reach \in Nat
  BY DEF StoredOK, TablesOK, Reach, RunOK, Run
<1>3. TablesOK' /\ HeadsOK'
  BY <1>1, <1>2 DEF TablesOK, HeadsOK, rows, owner
<1>4. RunOK' /\ AheadOK' /\ ReadOK'
  BY <1>1 DEF RunOK, AheadOK, ReadOK, AtWork
<1>5. PassedOK'
  <2> SUFFICES ASSUME NEW d \in Docs, Exists(d)', Distillable(d)', current'[d] <= Reach'
               PROVE  Covered(d)'
    BY DEF PassedOK
  <2>1. /\ Exists(d) /\ Distillable(d) /\ status[d] = "active" /\ current[d] <= stored.cursor
        /\ current[d] \in Nat
    BY <1>1 DEF Exists, Distillable, body, Reach, TablesOK
  <2>2. Covered(d)
    BY <1>2, <2>1 DEF PassedOK
  <2>3. CASE d \in pending \/ (op \in Restore /\ op.doc = d)
    <3>1. d \in Unstored \/ d \in stored.pending
      BY <2>3 DEF Unstored, Restore
    <3> QED
      BY <1>1, <2>1, <3>1 DEF Covered, Digested, Newest
  <2>4. CASE ~(d \in pending \/ (op \in Restore /\ op.doc = d))
    BY <1>1, <2>2, <2>4 DEF Covered, Digested, Newest
  <2> QED
    BY <2>3, <2>4
<1> QED
  BY <1>3, <1>4, <1>5

\* The cursor in memory never falls behind the written one.
LEMMA NextStored == DigestInv /\ StoredOK /\ [Next]_vars => StoredOK'
<1> SUFFICES ASSUME DigestInv, StoredOK, [Next]_vars PROVE StoredOK'
  OBVIOUS
<1>0. stored.cursor \in Nat /\ cursor \in Nat /\ stored.cursor <= cursor /\ pending \subseteq Docs
  BY DEF StoredOK, DigestInv, TablesOK
<1>1. CASE Flush \/ Restart
  BY <1>0, <1>1 DEF Flush, Restart, StoredOK
<1>2. CASE Retire \/ AttemptFails
  <2>1. dg.pc \in Working
    BY <1>2 DEF Retire, AttemptFails, Fails, RunsAt, Working, Reading
  <2>2. AtWork
    BY <2>1 DEF AtWork, Working, Reading, Idle
  <2>3. dg.ver \in Nat /\ (dg.mode = "main" => cursor <= dg.ver)
    BY <1>0, <2>2, AtHand DEF DigestInv, RunOK, AtWork, Run
  <2>4. \/ stored' = stored /\ cursor' = cursor
        \/ dg.mode = "main" /\ stored' = stored /\ cursor' = dg.ver
        \/ dg.mode = "main" /\ stored'.cursor = dg.ver /\ stored'.pending = pending /\ cursor' = dg.ver
    <3>1. CASE Retire
      BY <3>1 DEF Retire, Saved, SaveFails
    <3>2. CASE AttemptFails
      BY <3>2 DEF AttemptFails, Saved, SaveFails
    <3> QED
      BY <1>2, <3>1, <3>2
  <2> QED
    BY <1>0, <2>3, <2>4 DEF StoredOK
<1>3. CASE ~(Flush \/ Restart) /\ ~(Retire \/ AttemptFails)
  <2>1. UNCHANGED <<cursor, stored>>
    BY <1>3
    DEF Next, vars, docVars, runVars, metadata, graphVars, Request, Archive, BeginRestore, BeginCommit,
        WriterStep, AddVersion, Flip, RestoreReturns, CommitFails, RestoreFails, Sweep, StartDigest,
        RunDies, DigestStep, FetchVersions, PickVersion, PickPending, EndRun, ReadDoc, ReadChunks,
        Extract, WriteFacts, Supersede, RecordDigest, Retract, RecordRetraction
  <2> QED
    BY <2>1 DEF StoredOK
<1> QED
  BY <1>1, <1>2, <1>3

\* Every step keeps the invariant.
LEMMA NextDigest == DigestInv /\ StoredOK /\ EventsOK /\ [Next]_vars => DigestInv'
<1> SUFFICES ASSUME DigestInv, StoredOK, EventsOK, [Next]_vars PROVE DigestInv'
  OBVIOUS
<1>1. CASE UNCHANGED vars \/ Flush
  <2>1. UNCHANGED <<status, current, versions, gone, op, dg, cursor, pending, ledger, fused, missed>>
    BY <1>1 DEF Flush, vars, docVars, runVars, metadata, graphVars
  <2>2. AtWork' = AtWork /\ Reach' = Reach
    BY <2>1 DEF AtWork, Reach
  <2>3. TablesOK' /\ HeadsOK' /\ RunOK' /\ AheadOK'
    BY <2>1, <2>2 DEF DigestInv, TablesOK, HeadsOK, RunOK, AheadOK, rows, owner
  <2>4. ReadOK' /\ PassedOK'
    BY <2>1, <2>2 DEF DigestInv, ReadOK, PassedOK, Excused, Covered, Exists, Digested, Newest,
       Distillable, body
  <2> QED
    BY <2>3, <2>4 DEF DigestInv
<1>2. CASE Request \/ WriterStep \/ CommitFails \/ RestoreFails \/ \E d \in Docs : Sweep(d)
  BY <1>2, RequestKeeps, AddVersionKeeps, FlipKeeps, RestoreReturnsKeeps, FailuresKeep, SweepKeeps
  DEF WriterStep
<1>3. CASE StartDigest \/ DigestStep \/ AttemptFails \/ RunDies \/ Restart
  BY <1>3, RestartKeeps, RunEndsKeep, FetchKeeps, PickVersionKeeps, PickPendingKeeps, GraphStepsKeep, ReadDocKeeps,
     RecordsKeep, RetireKeeps, AttemptFailsKeeps
  DEF DigestStep
<1> QED
  BY <1>1, <1>2, <1>3 DEF Next

-----------------------------------------------------------------------------
(* The fuse                                                                *)

LEMMA NextFuse == DigestInv /\ FuseOK /\ [Next]_vars => FuseOK'
<1> SUFFICES ASSUME DigestInv, FuseOK, [Next]_vars PROVE FuseOK'
  OBVIOUS
<1>1. CASE AttemptFails
  <2>1. dg.ver \in Versions
    <3>1. dg.pc \in {"extract", "read", "chunks", "write", "supersede", "record", "retract", "retracted"}
      BY <1>1 DEF AttemptFails, Fails, RunsAt
    <3>2. AtWork
      BY <3>1 DEF AtWork, Working, Reading, Idle
    <3> QED
      BY <3>2, AtHand DEF DigestInv
  <2>2. dg.ver # 0 /\ 0 \notin Versions
    BY <2>1 DEF Versions
  <2>3. Bump(dg.ver) \in Nat /\ Bump(dg.ver) <= failed[dg.ver] + 1
    BY <2>1, <2>2 DEF Bump, FuseOK, Suffered
  <2>4. failed' = [failed EXCEPT ![dg.ver] = @ + 1]
    BY <1>1 DEF AttemptFails
  <2>5. /\ failed' \in [Versions -> Nat] /\ failed'[dg.ver] = failed[dg.ver] + 1
        /\ \A v \in Versions : failed[v] <= failed'[v] /\ failed[v] \in Nat
    BY <2>1, <2>4 DEF FuseOK
  <2>6. \A v \in fused : v \in Versions /\ failed'[v] >= MaxStrikes
    BY <2>5, WikiDigestAssumption DEF FuseOK
  <2>7. ASSUME NEW s, Suffered(s)
        PROVE  s \in [ver : Nat, count : Nat] /\ (s.ver # 0 => s.ver \in Versions /\ s.count <= failed'[s.ver])
    <3>1. CASE s.ver # 0
      <4>1. s.ver \in Versions /\ s.count \in Nat /\ s.count <= failed[s.ver]
        BY <2>7, <3>1 DEF Suffered
      <4>2. failed[s.ver] \in Nat /\ failed'[s.ver] \in Nat /\ failed[s.ver] <= failed'[s.ver]
        BY <2>5, <4>1
      <4>3. s.count <= failed'[s.ver]
        BY <4>1, <4>2
      <4> QED
        BY <2>7, <4>1, <4>3 DEF Suffered
    <3> QED
      BY <2>7, <3>1 DEF Suffered
  <2>8. CASE Bump(dg.ver) < MaxStrikes
    <3>1. strikes' = [ver |-> dg.ver, count |-> Bump(dg.ver)] /\ fused' = fused /\ stored' = stored
      BY <1>1, <2>8 DEF AttemptFails
    <3>2. dg.ver \in Nat
      BY <2>1, WikiDigestAssumption DEF Versions
    <3> HIDE DEF Bump
    <3>3. Suffered(strikes)'
      BY <2>1, <2>3, <2>5, <3>1, <3>2 DEF Suffered
    <3>4. Suffered(stored.strikes)'
      BY <2>7, <3>1 DEF FuseOK, Suffered
    <3> QED
      BY <2>5, <2>6, <3>1, <3>3, <3>4 DEF FuseOK
  <2>9. CASE ~(Bump(dg.ver) < MaxStrikes)
    <3>1. failed'[dg.ver] >= MaxStrikes
      BY <2>1, <2>3, <2>5, <2>9, WikiDigestAssumption
    <3>2. /\ strikes' = [ver |-> 0, count |-> 0] /\ stored'.strikes \in {strikes', stored.strikes}
          /\ fused' = fused \cup {dg.ver}
      BY <1>1, <2>9 DEF AttemptFails, NoStrikes, Saved, SaveFails
    <3>3. Suffered(strikes)'
      BY <3>2 DEF Suffered
    <3>4. Suffered(stored.strikes)'
      BY <2>7, <3>2 DEF FuseOK, Suffered
    <3> QED
      BY <2>1, <2>5, <2>6, <3>1, <3>2, <3>3, <3>4 DEF FuseOK
  <2> QED
    BY <2>8, <2>9
<1>2. CASE ~AttemptFails
  <2>1. UNCHANGED <<failed, fused>>
    BY <1>2
    DEF Next, vars, docVars, runVars, metadata, graphVars, Request, Archive, BeginRestore, BeginCommit,
        WriterStep, AddVersion, Flip, RestoreReturns, CommitFails, RestoreFails, Sweep, StartDigest,
        RunDies, Flush, Restart, DigestStep, FetchVersions, PickVersion, PickPending, EndRun, ReadDoc,
        ReadChunks, Extract, WriteFacts, Supersede, RecordDigest, Retract, RecordRetraction, Retire
  <2>2. /\ strikes' \in {strikes, stored.strikes, [ver |-> 0, count |-> 0]}
        /\ stored'.strikes \in {strikes, stored.strikes}
    <3>1. CASE Retire \/ Flush \/ Restart
      BY <3>1 DEF Retire, Flush, Restart, NoStrikes, Saved, SaveFails
    <3>2. CASE ~(Retire \/ Flush \/ Restart)
      BY <1>2, <3>2
      DEF Next, vars, docVars, runVars, metadata, graphVars, Request, Archive, BeginRestore, BeginCommit,
          WriterStep, AddVersion, Flip, RestoreReturns, CommitFails, RestoreFails, Sweep, StartDigest,
          RunDies, DigestStep, FetchVersions, PickVersion, PickPending, EndRun, ReadDoc, ReadChunks,
          Extract, WriteFacts, Supersede, RecordDigest, Retract, RecordRetraction
    <3> QED
      BY <3>1, <3>2
  <2>3. Suffered(strikes)' /\ Suffered(stored.strikes)'
    BY <2>1, <2>2 DEF FuseOK, Suffered
  <2> QED
    BY <2>1, <2>3 DEF FuseOK
<1> QED
  BY <1>1, <1>2

-----------------------------------------------------------------------------
(* What the graph asserts                                                  *)

\* The newest digest of the document has the fact; it has none.
Vouches(d, f) == ledger[d] # <<>> /\ f \in Newest(d).facts
Silent(d) == ledger[d] = <<>> \/ Newest(d).facts = {}

Bounded(s) == s.ver \in 0 .. MaxVersions /\ s.count \in 0 .. MaxStrikes - 1

FactTypes ==
  /\ Bounded(strikes) /\ Bounded(stored.strikes)
  /\ graph \in [Bodies -> {"none", "active", "superseded"}]

\* While the run works on a version, no newer one has an event; what the newest
\* event had and the next one will not have is out of the graph or adrift by
\* the time it is written.
FactsAtHand ==
  AtWork =>
    /\ dg.pc \in Reading \cup {"retract", "retracted"} =>
         \A i \in DOMAIN ledger[dg.doc] : ledger[dg.doc][i].ver <= dg.ver
    /\ dg.pc \in Reading => body(dg.ver) \notin Withheld
    /\ dg.pc = "record" /\ ledger[dg.doc] # <<>> /\ Newest(dg.doc).ver < dg.ver =>
         \A f \in Newest(dg.doc).facts \ dg.facts : graph[f] = "active" => f \in adrift
    /\ dg.pc = "retracted" =>
         \A f \in Bodies : Vouches(dg.doc, f) /\ graph[f] = "active" => f \in adrift
    /\ dg.pc = "retire" /\ dg.ver = current[dg.doc] /\ body(dg.ver) \in Withheld => Silent(dg.doc)

\* WithheldIsRetracted, as far as the run has come.
SilentOK ==
  \A d \in Docs :
    current[d] # 0 /\ body(current[d]) \in Withheld /\ current[d] <= Reach
      /\ current[d] \notin fused => Silent(d)

FactsInv == FactTypes /\ EventsOK /\ FactsAtHand /\ SilentOK /\ NothingLeaks

LEMMA InitFacts == Init => FactsInv
BY WikiDigestAssumption
DEF Init, FactsInv, FactTypes, Bounded, EventsOK, FactsAtHand, SilentOK, NothingLeaks, AtWork, Silent

LEMMA NextFactTypes == DigestInv /\ FactTypes /\ [Next]_vars => FactTypes'
<1> SUFFICES ASSUME DigestInv, FactTypes, [Next]_vars PROVE FactTypes'
  OBVIOUS
<1>1. ASSUME AttemptFails PROVE Bounded(strikes)' /\ Bounded(stored.strikes)'
  <2>1. dg.ver \in Versions
    <3>1. dg.pc \in {"extract", "read", "chunks", "write", "supersede", "record", "retract", "retracted"}
      BY <1>1 DEF AttemptFails, Fails, RunsAt
    <3>2. AtWork
      BY <3>1 DEF AtWork, Working, Reading, Idle
    <3> QED
      BY <3>2, AtHand DEF DigestInv
  <2>2. Bump(dg.ver) \in Nat
    BY WikiDigestAssumption DEF Bump, FactTypes, Bounded
  <2>3. /\ stored'.strikes \in {stored.strikes, strikes'}
        /\ \/ Bump(dg.ver) < MaxStrikes /\ strikes' = [ver |-> dg.ver, count |-> Bump(dg.ver)]
           \/ strikes' = [ver |-> 0, count |-> 0]
    BY <1>1 DEF AttemptFails, NoStrikes, Saved, SaveFails
  <2> HIDE DEF Bump
  <2>4. Bounded(strikes)'
    BY <2>1, <2>2, <2>3, WikiDigestAssumption DEF Bounded, Versions
  <2> QED
    BY <2>3, <2>4 DEF FactTypes, Bounded
<1>2. ASSUME ~AttemptFails PROVE Bounded(strikes)' /\ Bounded(stored.strikes)'
  <2>1. /\ strikes' \in {strikes, stored.strikes, [ver |-> 0, count |-> 0]}
        /\ stored'.strikes \in {strikes, stored.strikes}
    <3>1. CASE Retire \/ Flush \/ Restart
      BY <3>1 DEF Retire, Flush, Restart, NoStrikes, Saved, SaveFails
    <3>2. CASE ~(Retire \/ Flush \/ Restart)
      BY <1>2, <3>2
      DEF Next, vars, docVars, runVars, metadata, graphVars, Request, Archive, BeginRestore, BeginCommit,
          WriterStep, AddVersion, Flip, RestoreReturns, CommitFails, RestoreFails, Sweep, StartDigest,
          RunDies, DigestStep, FetchVersions, PickVersion, PickPending, EndRun, ReadDoc, ReadChunks,
          Extract, WriteFacts, Supersede, RecordDigest, Retract, RecordRetraction
    <3> QED
      BY <3>1, <3>2
  <2> QED
    BY <2>1, WikiDigestAssumption DEF FactTypes, Bounded
<1>3. graph' \in [Bodies -> {"none", "active", "superseded"}]
  <2>1. CASE WriteFacts \/ Supersede \/ Retract
    BY <2>1 DEF WriteFacts, Supersede, Retract, MarkSuperseded, FactTypes
  <2>2. CASE ~(WriteFacts \/ Supersede \/ Retract)
    <3>1. graph' = graph
      BY <2>2
      DEF Next, vars, docVars, runVars, metadata, graphVars, Request, Archive, BeginRestore, BeginCommit,
          WriterStep, AddVersion, Flip, RestoreReturns, CommitFails, RestoreFails, Sweep, StartDigest,
          AttemptFails, RunDies, Flush, Restart, DigestStep, FetchVersions, PickVersion, PickPending,
          EndRun, ReadDoc, ReadChunks, Extract, RecordDigest, RecordRetraction, Retire
    <3> QED
      BY <3>1 DEF FactTypes
  <2> QED
    BY <2>1, <2>2
<1> QED
  BY <1>1, <1>2, <1>3 DEF FactTypes

\* Steps that leave ledger, graph and heads alone, and the run where it is or
\* between two versions.
LEMMA FactsStay ==
  ASSUME DigestInv, FactsInv,
         UNCHANGED <<current, versions, ledger, graph, adrift>>, fused \subseteq fused',
         Reach' <= Reach, Reach \in Nat, Reach' \in Nat,
         AtWork' => \/ dg'.pc = "read"
                    \/ AtWork /\ dg'.pc = dg.pc /\ dg'.doc = dg.doc /\ dg'.ver = dg.ver
                       /\ dg'.facts = dg.facts
  PROVE  EventsOK' /\ FactsAtHand' /\ SilentOK' /\ NothingLeaks'
<1>1. EventsOK' /\ NothingLeaks'
  BY DEF FactsInv, EventsOK, NothingLeaks, Newest
<1>2. FactsAtHand'
  BY DEF FactsInv, FactsAtHand, Reading, Newest, Vouches, Silent, body
<1>3. SilentOK'
  <2>1. \A d \in Docs : current[d] \in Nat
    BY DEF DigestInv, TablesOK
  <2>2. \A d \in Docs : current[d] <= Reach' => current[d] <= Reach
    BY <2>1
  <2> QED
    BY <2>2 DEF FactsInv, SilentOK, Silent, Newest, body
<1> QED
  BY <1>1, <1>2, <1>3

\* Writers, but for a new version and its flip, and the run between two
\* versions, are such steps.
LEMMA AsideFacts ==
  ASSUME DigestInv, StoredOK, FactsInv,
         \/ Request \/ CommitFails \/ RestoreFails \/ RestoreReturns \/ \E d \in Docs : Sweep(d)
         \/ StartDigest \/ EndRun \/ RunDies \/ FetchVersions \/ PickVersion \/ PickPending
         \/ Flush \/ Restart
  PROVE  EventsOK' /\ FactsAtHand' /\ SilentOK' /\ NothingLeaks'
<1> USE DEF docVars, runVars, metadata, graphVars, RunsAt
<1>1. UNCHANGED <<current, versions, ledger, graph, adrift, fused>> /\ (cursor' = cursor \/ Restart)
  BY DEF Request, Archive, BeginRestore, BeginCommit, CommitFails, RestoreFails, RestoreReturns,
     Sweep, StartDigest, EndRun, RunDies, FetchVersions, PickVersion, PickPending, Flush, Restart
<1>2. Reach \in Nat /\ cursor \in Nat /\ cursor <= Reach /\ (dg # Idle => dg \in Run)
  BY DEF DigestInv, Reach, RunOK, Run, TablesOK
<1>3. CASE Request \/ CommitFails \/ RestoreFails \/ Flush \/ \E d \in Docs : Sweep(d)
  <2>1. dg' = dg /\ cursor' = cursor
    BY <1>3
    DEF Request, Archive, BeginRestore, BeginCommit, CommitFails, RestoreFails, Sweep, Flush
  <2> QED
    BY <1>1, <1>2, <2>1, FactsStay DEF Reach, AtWork
<1>4. CASE RestoreReturns
  <2>1. cursor' = cursor /\ (dg' = dg \/ (dg # Idle /\ dg' = [dg EXCEPT !.again = TRUE]))
    BY <1>4 DEF RestoreReturns
  <2>2. \/ dg = Idle /\ dg' = dg
        \/ /\ dg # Idle /\ dg' # Idle
           /\ dg'.pc = dg.pc /\ dg'.doc = dg.doc /\ dg'.ver = dg.ver
           /\ dg'.facts = dg.facts /\ dg'.at = dg.at
    BY <1>2, <2>1 DEF Run, Idle
  <2> QED
    BY <1>1, <1>2, <2>1, <2>2, FactsStay DEF Reach, AtWork
<1>5. CASE StartDigest \/ EndRun \/ RunDies \/ Restart
  <2>1. ~AtWork' /\ Reach' \in {cursor, stored.cursor}
    BY <1>1, <1>5 DEF StartDigest, EndRun, RunDies, Restart, AtWork, Reach, Working, Reading, Idle
  <2>2. Reach' \in Nat /\ Reach' <= Reach
    BY <1>2, <2>1 DEF StoredOK
  <2> QED
    BY <1>1, <1>2, <2>1, <2>2, FactsStay
<1>6. CASE FetchVersions \/ PickVersion \/ PickPending
  <2>0. dg.pc = "pick"
    BY <1>6 DEF FetchVersions, PickVersion, PickPending
  <2>1. dg.pc = "pick" /\ dg # Idle
    BY <2>0 DEF Idle
  <2>2. dg'.pc \in {"pick", "read"} /\ dg' # Idle /\ dg'.at = dg.at
    <3>1. CASE FetchVersions
      BY <1>2, <2>1, <3>1 DEF FetchVersions, PendingPass, Run, Idle
    <3>2. CASE PickVersion
      BY <1>2, <2>1, <3>2 DEF PickVersion, PendingPass, Run, Idle
    <3>3. CASE PickPending
      <4>1. PICK d \in dg.todo :
              \/ dg' = [dg EXCEPT !.todo = @ \ {d}]
              \/ dg' = [dg EXCEPT !.pc = "read", !.todo = @ \ {d}, !.left = @ - 1,
                                  !.doc = d, !.ver = current[d]]
        BY <3>3 DEF PickPending
      <4> QED
        BY <1>2, <2>1, <4>1 DEF Run, Idle
    <3> QED
      BY <1>6, <3>1, <3>2, <3>3
  <2>3. Reach' = Reach /\ (AtWork' => dg'.pc = "read")
    BY <2>1, <2>2 DEF Reach, AtWork, Working, Reading
  <2> QED
    BY <1>1, <1>2, <2>3, FactsStay
<1> QED
  BY <1>3, <1>4, <1>5, <1>6

\* A version that becomes current has no events; if the run has passed it, it
\* is the first of its document.
LEMMA HeadFacts ==
  ASSUME DigestInv, FactsInv, AddVersion \/ Flip
  PROVE  EventsOK' /\ FactsAtHand' /\ SilentOK' /\ NothingLeaks'
<1> USE DEF docVars, runVars, metadata, graphVars
<1>1. /\ UNCHANGED <<dg, cursor, ledger, graph, adrift, fused>> /\ op \in Commit
      /\ Reach' = Reach /\ AtWork' = AtWork
  BY OpKinds DEF AddVersion, Flip, DigestInv, Reach, AtWork
<1>2. \A v \in DOMAIN versions : body(v)' = body(v)
  <2>1. CASE AddVersion
    <3>1. /\ versions \in Seq([doc : Docs, body : Bodies])
          /\ versions' = Append(versions, [doc |-> op.doc, body |-> op.body])
          /\ op.doc \in Docs /\ op.body \in Bodies
      BY <1>1, <2>1 DEF AddVersion, DigestInv, TablesOK, Commit
    <3>2. \A v \in DOMAIN versions : versions'[v] = versions[v]
      BY <3>1
    <3> QED
      BY <3>2 DEF body
  <2>2. CASE Flip
    BY <2>2 DEF Flip, body
  <2> QED
    BY <2>1, <2>2
<1>3. \A d \in Docs : current[d] # 0 => current[d] \in DOMAIN versions
  BY DEF DigestInv, HeadsOK, rows
<1>4. AtWork => dg.ver \in DOMAIN versions /\ dg.doc \in Docs /\ dg.ver \in Nat
  BY AtHand DEF DigestInv, RunOK, AtWork, Versions
<1>5. NothingLeaks'
  BY <1>1 DEF FactsInv, NothingLeaks, Newest
<1>6. CASE AddVersion
  <2>1. current' = current
    BY <1>6 DEF AddVersion
  <2>2. EventsOK'
    BY <1>1, <2>1 DEF FactsInv, EventsOK
  <2>3. FactsAtHand'
    BY <1>1, <1>2, <1>4, <2>1 DEF FactsInv, FactsAtHand, Newest, Vouches, Silent
  <2>4. SilentOK'
    BY <1>1, <1>2, <1>3, <2>1 DEF FactsInv, SilentOK, Silent, Newest
  <2> QED
    BY <1>5, <2>2, <2>3, <2>4
<1>7. CASE Flip
  <2>1. /\ current' = [current EXCEPT ![op.doc] = op.ver] /\ op.doc \in Docs /\ versions' = versions
        /\ op.ver # 0 /\ op.ver \in Nat /\ current[op.doc] < op.ver /\ current[op.doc] \in Nat
    BY <1>1, <1>7 DEF Flip, Commit, DigestInv, HeadsOK, TablesOK
  <2>2. /\ current'[op.doc] = op.ver
        /\ \A d \in Docs \ {op.doc} : current'[d] = current[d]
        /\ \A d \in Docs : current[d] \in Nat /\ current'[d] \in Nat /\ current[d] <= current'[d]
    BY <2>1 DEF DigestInv, TablesOK
  <2>3. EventsOK'
    BY <1>1, <2>2 DEF FactsInv, EventsOK
  <2>4. current[op.doc] = 0 => ledger[op.doc] = <<>>
    <3>1. ledger[op.doc] \in Seq(Event)
      BY <2>1 DEF DigestInv, TablesOK
    <3>2. ledger[op.doc] # <<>> => 1 \in DOMAIN ledger[op.doc]
      BY <3>1
    <3> QED
      BY <2>1, <3>2 DEF FactsInv, EventsOK
  <2>5. FactsAtHand'
    <3>1. ASSUME AtWork, dg.pc = "retire", dg.ver = current'[dg.doc], body(dg.ver) \in Withheld
          PROVE  Silent(dg.doc)
      <4>1. CASE dg.doc = op.doc
        <5>1. current[dg.doc] < dg.ver
          BY <2>1, <2>2, <3>1, <4>1
        <5> QED
          BY <2>4, <3>1, <4>1, <5>1 DEF DigestInv, ReadOK, Silent
      <4>2. CASE dg.doc # op.doc
        BY <1>4, <2>2, <3>1, <4>2 DEF FactsInv, FactsAtHand
      <4> QED
        BY <4>1, <4>2
    <3> QED
      BY <1>1, <1>2, <1>4, <2>1, <3>1 DEF FactsInv, FactsAtHand, Newest, Vouches, Silent
  <2>6. SilentOK'
    <3>1. ASSUME NEW d \in Docs, current'[d] # 0, body(current'[d]) \in Withheld,
                 current'[d] <= Reach, current'[d] \notin fused
          PROVE  Silent(d)
      <4>1. CASE d = op.doc
        <5>1. Reach \in Nat
          BY DEF DigestInv, Reach, RunOK, Run, TablesOK
        <5>2. current[d] = 0
          BY <1>1, <2>1, <2>2, <3>1, <4>1, <5>1 DEF DigestInv, AheadOK
        <5> QED
          BY <2>4, <4>1, <5>2 DEF Silent
      <4>2. CASE d # op.doc
        BY <2>2, <3>1, <4>2 DEF FactsInv, SilentOK
      <4> QED
        BY <4>1, <4>2
    <3> QED
      BY <1>1, <2>1, <3>1 DEF SilentOK, Silent, Newest, body
  <2> QED
    BY <1>5, <2>3, <2>5, <2>6
<1> QED
  BY <1>6, <1>7

LEMMA NewestEvent ==
  ASSUME TablesOK, NEW d \in Docs, ledger[d] # <<>>
  PROVE  /\ Len(ledger[d]) \in DOMAIN ledger[d]
         /\ Newest(d) \in Event
         /\ \A k \in DOMAIN ledger[d] : k <= Len(ledger[d])
<1>1. ledger[d] \in Seq(Event)
  BY DEF TablesOK
<1>2. /\ Len(ledger[d]) \in DOMAIN ledger[d]
      /\ \A k \in DOMAIN ledger[d] : k <= Len(ledger[d])
  BY <1>1
<1> QED
  BY <1>1, <1>2, Element DEF Newest

\* What older events of the document assert is what its newest event does, as
\* long as that is older too.
LEMMA PreviousHas ==
  ASSUME TablesOK, NEW d \in Docs, NEW v \in Nat, ledger[d] # <<>>, Newest(d).ver < v
  PROVE  Newest(d).facts \subseteq PreviousFacts(d, v)
BY NewestEvent DEF PreviousFacts, Before, Newest

\* Between reading the document and the ledger's entry only the graph changes.
LEMMA GraphFacts ==
  ASSUME DigestInv, FactsInv, ReadDoc \/ ReadChunks \/ Extract \/ WriteFacts \/ Supersede \/ Retract
  PROVE  EventsOK' /\ FactsAtHand' /\ SilentOK' /\ NothingLeaks'
<1> USE DEF docVars, metadata, graphVars, RunsAt, Go
<1>1. AtWork /\ dg # Idle /\ dg \in Run
  <2>1. dg.pc \in {"read", "chunks", "extract", "write", "supersede", "retract"}
    BY DEF ReadDoc, ReadChunks, Extract, WriteFacts, Supersede, Retract
  <2>2. dg # Idle
    BY <2>1 DEF Idle
  <2> QED
    BY <2>1, <2>2 DEF AtWork, Working, Reading, RunOK, DigestInv
<1>2. dg.ver \in Nat \ {0} /\ dg.doc \in Docs /\ current[dg.doc] \in Nat
  BY <1>1, AtHand DEF Versions, DigestInv, TablesOK
<1>3. UNCHANGED <<current, versions, cursor, ledger, fused>>
  BY DEF ReadDoc, ReadChunks, Extract, WriteFacts, Supersede, Retract
<1>4. /\ dg' # Idle /\ dg'.at = dg.at
      /\ AtWork' => dg'.doc = dg.doc /\ dg'.ver = dg.ver
  <2>1. CASE ReadDoc
    BY <1>1, <2>1 DEF ReadDoc, PendingPass, Run, Idle, AtWork, Working, Reading
  <2>2. CASE Extract
    BY <1>1, <2>2 DEF Extract, Run, Idle
  <2>3. CASE ReadChunks \/ WriteFacts \/ Supersede \/ Retract
    <3>1. \E to \in Working : dg' = [dg EXCEPT !.pc = to]
      BY <2>3 DEF ReadChunks, WriteFacts, Supersede, Retract, Working, Reading
    <3> QED
      BY <1>1, <3>1 DEF Run, Idle, Working, Reading
  <2> QED
    BY <2>1, <2>2, <2>3
<1>5. EventsOK' /\ SilentOK'
  BY <1>1, <1>3, <1>4 DEF FactsInv, EventsOK, SilentOK, Silent, Newest, body, Reach
<1>6. CASE ReadDoc
  <2>1. NothingLeaks'
    BY <1>6 DEF ReadDoc, FactsInv, NothingLeaks, Newest
  <2>2. FactsAtHand'
    <3> SUFFICES ASSUME AtWork' PROVE FactsAtHand'
      BY DEF FactsAtHand
    <3>1. dg'.pc \notin {"record", "retracted"}
          /\ (dg'.pc \in Reading \cup {"retract"} => dg.ver = current[dg.doc])
          /\ (dg'.pc \in Reading => body(dg.ver) \notin Withheld)
          /\ (dg'.pc = "retire" => dg.ver # current[dg.doc])
      <4>1. \/ dg'.pc = "pick"
            \/ dg'.pc = Outcome(dg.doc, dg.ver)
            \/ dg'.pc = "retire" /\ Outcome(dg.doc, dg.ver) = "notReady"
        BY <1>1, <1>6 DEF ReadDoc, PendingPass, Run
      <4>2. CASE Exists(dg.doc)
        <5>1. /\ dg.ver = current[dg.doc] => Outcome(dg.doc, dg.ver) = IF Distillable(dg.doc) THEN "chunks" ELSE "retract"
              /\ dg.ver > current[dg.doc] => Outcome(dg.doc, dg.ver) = "notReady"
              /\ dg.ver < current[dg.doc] => Outcome(dg.doc, dg.ver) = "retire"
          BY <1>2, <4>2 DEF Outcome
        <5>2. dg.ver = current[dg.doc] \/ dg.ver > current[dg.doc] \/ dg.ver < current[dg.doc]
          BY <1>2
        <5> QED
          BY <1>2, <4>1, <5>1, <5>2 DEF Distillable, Reading, AtWork, Working
      <4>3. CASE ~Exists(dg.doc)
        <5>1. Outcome(dg.doc, dg.ver) = "retire" /\ current[dg.doc] = 0
          BY <1>2, <4>3 DEF Outcome, Exists, DigestInv, HeadsOK
        <5> QED
          BY <1>2, <4>1, <5>1 DEF Reading, AtWork, Working
      <4> QED
        BY <4>2, <4>3
    <3>2. \A i \in DOMAIN ledger[dg.doc] : ledger[dg.doc][i].ver <= current[dg.doc]
      BY <1>2 DEF FactsInv, EventsOK
    <3> QED
      BY <1>3, <1>4, <3>1, <3>2 DEF FactsAtHand, body
  <2> QED
    BY <1>5, <2>1, <2>2
<1>7. CASE ReadChunks \/ Extract
  <2>1. UNCHANGED <<graph, adrift>> /\ dg.pc \in Reading
    BY <1>7 DEF ReadChunks, Extract, Reading
  <2>2. /\ dg'.pc \in {"retire", "extract", "write"}
        /\ dg'.pc = "retire" => dg.ver # current[dg.doc]
    BY <1>1, <1>7 DEF ReadChunks, Extract, Run
  <2>3. NothingLeaks'
    BY <1>3, <2>1 DEF FactsInv, NothingLeaks, Newest
  <2>4. FactsAtHand'
    BY <1>1, <1>3, <1>4, <2>1, <2>2 DEF FactsInv, FactsAtHand, Reading, AtWork, Working, body
  <2> QED
    BY <1>5, <2>3, <2>4
<1>8. CASE WriteFacts
  <2>1. /\ dg.pc = "write" /\ dg'.pc = "supersede" /\ AtWork'
        /\ graph' = [f \in Bodies |-> IF f \in dg.facts THEN "active" ELSE graph[f]]
        /\ adrift' = adrift \cup dg.facts
    BY <1>1, <1>4, <1>8 DEF WriteFacts, Run, AtWork, Working, Reading
  <2>2. NothingLeaks'
    BY <1>3, <2>1 DEF FactsInv, NothingLeaks, Newest
  <2>3. FactsAtHand'
    BY <1>1, <1>3, <1>4, <2>1 DEF FactsInv, FactsAtHand, Reading, body
  <2> QED
    BY <1>5, <2>2, <2>3
<1>9. ASSUME NEW stale, MarkSuperseded(stale)
      PROVE  /\ NothingLeaks'
             /\ \A f \in Bodies : f \in stale /\ graph'[f] = "active" => f \in adrift'
  <2>1. PICK skipped \in SUBSET {f \in stale : graph[f] # "none"} :
          /\ graph' = [f \in Bodies |->
               IF f \in stale \ skipped /\ graph[f] # "none" THEN "superseded" ELSE graph[f]]
          /\ adrift' = (adrift \ stale) \cup {f \in skipped : graph[f] = "active"}
    BY <1>9 DEF MarkSuperseded
  <2>2. ASSUME NEW f \in Bodies, graph'[f] = "active"
        PROVE  graph[f] = "active" /\ (f \in stale => f \in adrift') /\ (f \in adrift => f \in adrift')
    BY <2>1, <2>2
  <2>3. NothingLeaks'
    BY <1>3, <2>2 DEF FactsInv, NothingLeaks, Newest
  <2> QED
    BY <2>2, <2>3
<1>10. CASE Supersede
  <2>1. /\ dg.pc = "supersede" /\ dg'.pc = "record" /\ AtWork' /\ dg'.facts = dg.facts
        /\ MarkSuperseded(PreviousFacts(dg.doc, dg.ver) \ dg.facts)
    BY <1>1, <1>4, <1>10 DEF Supersede, Run, AtWork, Working, Reading
  <2>2. ASSUME ledger[dg.doc] # <<>>, Newest(dg.doc).ver < dg.ver, NEW f \in Newest(dg.doc).facts \ dg.facts
        PROVE  f \in Bodies /\ (graph'[f] = "active" => f \in adrift')
    <3>1. f \in PreviousFacts(dg.doc, dg.ver) \ dg.facts
      BY <1>2, <2>2, PreviousHas DEF DigestInv
    <3>2. f \in Bodies
      BY <1>2, <2>2, NewestEvent DEF DigestInv, Event
    <3> QED
      BY <1>9, <2>1, <3>1, <3>2
  <2>3. FactsAtHand'
    BY <1>1, <1>3, <1>4, <2>1, <2>2 DEF FactsInv, FactsAtHand, Reading, Newest, body
  <2> QED
    BY <1>5, <1>9, <2>1, <2>3
<1>11. CASE Retract
  <2>1. dg.pc = "retract" /\ (ledger[dg.doc] # <<>> => Newest(dg.doc).ver < dg.ver + 1)
    <3>1. dg.pc = "retract"
      BY <1>11 DEF Retract
    <3>2. ASSUME ledger[dg.doc] # <<>> PROVE Newest(dg.doc).ver <= dg.ver /\ Newest(dg.doc).ver \in Nat
      BY <1>1, <1>2, <3>1, <3>2, NewestEvent DEF FactsInv, FactsAtHand, Newest, Event, DigestInv
    <3> QED
      BY <1>2, <3>1, <3>2
  <2>2. ledger[dg.doc] # <<>> => Newest(dg.doc).facts \subseteq PreviousFacts(dg.doc, dg.ver + 1)
    BY <1>2, <2>1, PreviousHas DEF DigestInv
  <2>3. CASE PreviousFacts(dg.doc, dg.ver + 1) = {}
    <3>1. UNCHANGED <<graph, adrift>> /\ dg'.pc = "retire"
      BY <1>1, <1>11, <2>3 DEF Retract, Run
    <3>2. NothingLeaks'
      BY <1>3, <3>1 DEF FactsInv, NothingLeaks, Newest
    <3>3. Silent(dg.doc)'
      BY <1>2, <1>3, <1>4, <2>2, <2>3, <3>1 DEF Silent, Newest, AtWork, Working
    <3> QED
      BY <1>3, <1>5, <3>1, <3>2, <3>3 DEF FactsAtHand, Reading, Newest, Silent
  <2>4. CASE PreviousFacts(dg.doc, dg.ver + 1) # {}
    <3>1. /\ dg'.pc = "retracted" /\ AtWork' /\ MarkSuperseded(PreviousFacts(dg.doc, dg.ver + 1))
      BY <1>1, <1>4, <1>11, <2>4 DEF Retract, Run, AtWork, Working
    <3>2. \A f \in Bodies : Vouches(dg.doc, f) /\ graph'[f] = "active" => f \in adrift'
      BY <1>9, <2>2, <3>1 DEF Vouches
    <3>3. FactsAtHand'
      BY <1>1, <1>3, <1>4, <2>1, <3>1, <3>2 DEF FactsInv, FactsAtHand, Reading, Vouches, Newest
    <3> QED
      BY <1>5, <1>9, <3>1, <3>3
  <2> QED
    BY <2>3, <2>4
<1> QED
  BY <1>6, <1>7, <1>8, <1>10, <1>11

\* A sequence without one element has elements of the whole.
LEMMA WithoutOne ==
  ASSUME NEW S, NEW s \in Seq(S), NEW n \in 1 .. Len(s)
  PROVE  LET w == SubSeq(s, 1, n - 1) \o SubSeq(s, n + 1, Len(s))
         IN  w \in Seq(S) /\ \A k \in DOMAIN w : \E j \in DOMAIN s : w[k] = s[j]
<1> DEFINE front == SubSeq(s, 1, n - 1)
           back  == SubSeq(s, n + 1, Len(s))
<1>a. /\ front \in Seq(S) /\ Len(front) = n - 1
      /\ \A j \in 1 .. n - 1 : front[j] = s[j]
  OBVIOUS
<1>b. /\ back \in Seq(S) /\ Len(back) = Len(s) - n
      /\ \A j \in 1 .. Len(s) - n : back[j] = s[j + n]
  OBVIOUS
<1> SUFFICES /\ front \o back \in Seq(S)
             /\ \A k \in DOMAIN (front \o back) : \E j \in DOMAIN s : (front \o back)[k] = s[j]
  OBVIOUS
<1> HIDE DEF front, back
<1> USE <1>a, <1>b
<1>1. /\ front \o back \in Seq(S)
      /\ Len(front \o back) = Len(front) + Len(back)
      /\ \A k \in 1 .. Len(front) + Len(back) :
           (front \o back)[k] = IF k <= Len(front) THEN front[k] ELSE back[k - Len(front)]
  BY ConcatProperties
<1>2. Len(s) \in Nat /\ DOMAIN s = 1 .. Len(s) /\ DOMAIN (front \o back) = 1 .. Len(front \o back)
  BY <1>1
<1>3. ASSUME NEW k \in DOMAIN (front \o back) PROVE \E j \in DOMAIN s : (front \o back)[k] = s[j]
  <2>1. k \in 1 .. Len(s) - 1 /\ k \in 1 .. Len(front) + Len(back)
    BY <1>1, <1>2, <1>3
  <2>2. CASE k <= n - 1
    <3>1. k \in 1 .. n - 1 /\ k \in 1 .. Len(s) /\ k <= Len(front)
      BY <1>2, <2>1, <2>2
    <3>2. (front \o back)[k] = s[k]
      BY <1>1, <2>1, <3>1
    <3> QED
      BY <1>2, <3>1, <3>2
  <2>3. CASE ~(k <= n - 1)
    <3>1. /\ k - (n - 1) \in 1 .. Len(s) - n /\ k - (n - 1) + n = k + 1
          /\ k + 1 \in 1 .. Len(s) /\ ~(k <= Len(front)) /\ k - Len(front) = k - (n - 1)
      BY <1>2, <2>1, <2>3
    <3>2. (front \o back)[k] = back[k - (n - 1)]
      BY <1>1, <2>1, <3>1
    <3>3. back[k - (n - 1)] = s[k + 1]
      BY <3>1
    <3> QED
      BY <1>2, <3>1, <3>2, <3>3
  <2> QED
    BY <2>2, <2>3
<1> QED
  BY <1>1, <1>3

\* An entry is added to what the document has already.
LEMMA KeptEvents ==
  ASSUME TablesOK, NEW d \in Docs, NEW v \in Nat, NEW facts \in SUBSET Bodies,
         NEW retracted \in BOOLEAN, Record(d, v, facts, retracted), NEW i \in DOMAIN ledger'[d]
  PROVE  \/ ledger'[d][i].ver = v
         \/ \E j \in DOMAIN ledger[d] : ledger'[d][i] = ledger[d][j]
<1> DEFINE entry == [ver |-> v, facts |-> facts, retracted |-> retracted]
           old   == ledger[d]
           kept  == Without(ledger[d], v)
<1>1. old \in Seq(Event) /\ entry \in Event
  BY DEF TablesOK, Event
<1>2. /\ kept \in Seq(Event)
      /\ \A k \in DOMAIN kept : \E j \in DOMAIN old : kept[k] = old[j]
  <2> DEFINE its == {k \in DOMAIN ledger[d] : ledger[d][k].ver = v}
             at  == CHOOSE k \in its : TRUE
  <2>1. CASE its = {}
    BY <1>1, <2>1 DEF Without
  <2>2. CASE its # {}
    <3>1. at \in 1 .. Len(old)
      BY <1>1, <2>2
    <3>2. kept = SubSeq(old, 1, at - 1) \o SubSeq(old, at + 1, Len(old))
      BY <2>2 DEF Without
    <3>3. PICK n \in 1 .. Len(old) : kept = SubSeq(old, 1, n - 1) \o SubSeq(old, n + 1, Len(old))
      <4> HIDE DEF at, kept, old
      <4> QED
        BY <3>1, <3>2
    <3> HIDE DEF kept, old
    <3> QED
      BY <1>1, <3>3, WithoutOne
  <2> HIDE DEF kept, old
  <2> QED
    BY <2>1, <2>2
<1>3. ledger'[d] = Append(kept, entry)
  BY DEF Record, TablesOK
<1>4. i \in 1 .. Len(kept) + 1 /\ ledger'[d][i] = IF i = Len(kept) + 1 THEN entry ELSE kept[i]
  <2> HIDE DEF kept, entry
  <2> QED
    BY <1>1, <1>2, <1>3
<1>5. CASE i = Len(kept) + 1
  BY <1>4, <1>5
<1>6. CASE i # Len(kept) + 1
  <2> HIDE DEF kept
  <2>1. i \in DOMAIN kept
    BY <1>2, <1>4, <1>6
  <2> QED
    BY <1>2, <1>4, <1>6, <2>1
<1> QED
  BY <1>5, <1>6

LEMMA Disowning ==
  ASSUME NEW d, NEW v, NEW facts, NEW i \in DOMAIN ledger[d], ledger[d][i].ver = v,
         NEW f \in ledger[d][i].facts, f \notin facts
  PROVE  f \in Disowned(d, v, facts)
<1> DEFINE its == {j \in DOMAIN ledger[d] : ledger[d][j].ver = v}
<1>1. i \in its
  OBVIOUS
<1>2. f \in UNION {ledger[d][j].facts : j \in its}
  BY <1>1
<1> QED
  BY <1>2 DEF Disowned

\* What the entry drops of the newest one is out of the graph, or adrift.
LEMMA RecordFacts ==
  ASSUME DigestInv, FactsInv, RecordDigest \/ RecordRetraction
  PROVE  EventsOK' /\ FactsAtHand' /\ SilentOK' /\ NothingLeaks'
<1> USE DEF docVars, metadata, graphVars, RunsAt, Go
<1>1. AtWork /\ dg # Idle /\ dg \in Run /\ dg.pc \in {"record", "retracted"}
  <2>1. dg.pc \in {"record", "retracted"}
    BY DEF RecordDigest, RecordRetraction
  <2>2. dg # Idle
    BY <2>1 DEF Idle
  <2> QED
    BY <2>1, <2>2 DEF AtWork, Working, Reading, RunOK, DigestInv
<1>2. /\ dg.ver \in Nat \ {0} /\ dg.doc \in Docs /\ current[dg.doc] \in Nat
      /\ dg.ver <= current[dg.doc] /\ dg.facts \in SUBSET Bodies
  BY <1>1, AtHand DEF Versions, DigestInv, TablesOK, ReadOK, Reading, Run
<1>3. /\ UNCHANGED <<current, versions, cursor, graph, fused>>
      /\ dg' # Idle /\ dg'.pc = "retire" /\ dg'.at = dg.at /\ dg'.doc = dg.doc /\ dg'.ver = dg.ver
  <2>1. dg' = [dg EXCEPT !.pc = "retire"] /\ UNCHANGED <<current, versions, cursor, graph, fused>>
    BY DEF RecordDigest, RecordRetraction
  <2> QED
    BY <1>1, <2>1 DEF Run, Idle
<1>4. PICK facts \in SUBSET Bodies, retracted \in BOOLEAN :
        /\ Record(dg.doc, dg.ver, facts, retracted)
        /\ RecordDigest => facts = dg.facts
        /\ ~RecordDigest => facts = {}
  BY <1>2 DEF RecordDigest, RecordRetraction
<1>5. /\ \A c \in Docs \ {dg.doc} : ledger'[c] = ledger[c]
      /\ ledger'[dg.doc] # <<>> /\ ledger'[dg.doc][Len(ledger'[dg.doc])].facts = facts
  <2>1. /\ \A c \in Docs \ {dg.doc} : ledger'[c] = ledger[c]
        /\ ledger'[dg.doc] # <<>>
        /\ ledger'[dg.doc][Len(ledger'[dg.doc])]
             = [ver |-> dg.ver, facts |-> facts, retracted |-> retracted]
    BY <1>2, <1>4, Newly DEF DigestInv
  <2> QED
    BY <2>1
<1>6. EventsOK'
  <2>1. ASSUME NEW i \in DOMAIN ledger'[dg.doc]
        PROVE  ledger'[dg.doc][i].ver \in 1 .. current[dg.doc]
    <3>1. \/ ledger'[dg.doc][i].ver = dg.ver
          \/ \E j \in DOMAIN ledger[dg.doc] : ledger'[dg.doc][i] = ledger[dg.doc][j]
      BY <1>2, <1>4, <2>1, KeptEvents DEF DigestInv
    <3> QED
      BY <1>2, <3>1 DEF FactsInv, EventsOK
  <2> QED
    BY <1>3, <1>5, <2>1 DEF FactsInv, EventsOK
<1>7. dg.pc = "record" => body(dg.ver) \notin Withheld
  BY <1>1 DEF FactsInv, FactsAtHand, Reading
<1>8. ASSUME NEW d \in Docs, d = dg.doc, dg.pc # "record" PROVE Silent(d)'
  <2>1. facts = {}
    BY <1>4, <1>8 DEF RecordDigest
  <2> QED
    BY <1>5, <1>8, <2>1 DEF Silent, Newest
<1>9. FactsAtHand'
  BY <1>2, <1>3, <1>7, <1>8 DEF FactsAtHand, Reading, Silent, body, Newest
<1>10. SilentOK'
  <2>1. ASSUME NEW d \in Docs, current[d] # 0, body(current[d]) \in Withheld,
               current[d] <= Reach, current[d] \notin fused
        PROVE  Silent(d)'
    <3>1. Silent(d)
      BY <2>1 DEF FactsInv, SilentOK
    <3>2. CASE d # dg.doc
      BY <1>5, <3>1, <3>2 DEF Silent, Newest
    <3>3. CASE d = dg.doc /\ dg.pc = "record"
      <4>1. current[d] # dg.ver
        BY <1>7, <2>1, <3>3
      <4>2. dg.mode = "main" => dg.at < dg.ver
        BY <1>1 DEF DigestInv, RunOK
      <4>3. dg.mode = "pending" => dg.at < current[d]
        BY <1>1, <2>1, <3>3, <4>1 DEF DigestInv, ReadOK
      <4> QED
        BY <1>1, <1>2, <2>1, <3>3, <4>2, <4>3 DEF Reach, Run
    <3> QED
      BY <1>8, <3>2, <3>3
  <2> QED
    BY <1>1, <1>3, <2>1 DEF SilentOK, Silent, Newest, body, Reach
<1>11. NothingLeaks'
  <2>1. ASSUME NEW f \in Bodies, graph[f] = "active"
        PROVE  \/ f \in adrift'
               \/ \E d \in Docs : ledger'[d] # <<>> /\ f \in ledger'[d][Len(ledger'[d])].facts
    <3>1. CASE f \in adrift /\ f \notin adrift'
      BY <1>2, <1>4, <1>5, <3>1 DEF RecordDigest, RecordRetraction
    <3>2. ASSUME NEW d \in Docs, d # dg.doc, ledger[d] # <<>>, f \in Newest(d).facts
          PROVE  ledger'[d] # <<>> /\ f \in ledger'[d][Len(ledger'[d])].facts
      BY <1>5, <3>2 DEF Newest
    <3>3. CASE ledger[dg.doc] # <<>> /\ f \in Newest(dg.doc).facts
      <4>1. CASE RecordRetraction
        BY <1>1, <2>1, <3>3, <4>1 DEF RecordRetraction, FactsInv, FactsAtHand, Vouches
      <4>2. CASE RecordDigest
        <5>1. /\ adrift' = (adrift \ dg.facts)
                   \cup {g \in Disowned(dg.doc, dg.ver, dg.facts) : graph[g] = "active"}
              /\ dg.pc = "record"
          BY <4>2 DEF RecordDigest
        <5>2. f \in dg.facts \/ Newest(dg.doc).ver < dg.ver \/ Newest(dg.doc).ver = dg.ver
          <6>1. Newest(dg.doc).ver \in Nat /\ Newest(dg.doc).ver <= dg.ver
            BY <1>1, <1>2, <3>3, <5>1, NewestEvent
            DEF FactsInv, FactsAtHand, Reading, Newest, Event, DigestInv
          <6> QED
            BY <1>2, <6>1
        <5>3. CASE f \in dg.facts
          BY <1>2, <1>4, <1>5, <4>2, <5>3
        <5>4. CASE f \notin dg.facts /\ Newest(dg.doc).ver < dg.ver
          BY <1>1, <2>1, <3>3, <5>1, <5>4 DEF FactsInv, FactsAtHand
        <5>5. CASE f \notin dg.facts /\ Newest(dg.doc).ver = dg.ver
          <6>1. f \in Disowned(dg.doc, dg.ver, dg.facts)
            <7>0. Len(ledger[dg.doc]) \in DOMAIN ledger[dg.doc]
              BY <1>2, <3>3, NewestEvent DEF DigestInv
            <7>1. PICK i \in DOMAIN ledger[dg.doc] :
                     ledger[dg.doc][i].ver = dg.ver /\ f \in ledger[dg.doc][i].facts
              BY <3>3, <5>5, <7>0 DEF Newest
            <7> QED
              BY <5>5, <7>1, Disowning
          <6> QED
            BY <2>1, <5>1, <6>1
        <5> QED
          BY <5>2, <5>3, <5>4, <5>5
      <4> QED
        BY <4>1, <4>2
    <3> QED
      BY <2>1, <3>1, <3>2, <3>3 DEF FactsInv, NothingLeaks
  <2> QED
    BY <1>3, <2>1 DEF NothingLeaks, Newest
<1> QED
  BY <1>6, <1>9, <1>10, <1>11

\* The run passes a withheld version only when its document is silent, or when
\* the fuse says so.
LEMMA PassFacts ==
  ASSUME DigestInv, FactsInv, Retire \/ AttemptFails
  PROVE  EventsOK' /\ FactsAtHand' /\ SilentOK' /\ NothingLeaks'
<1> USE DEF docVars, metadata, graphVars, RunsAt
<1>1. AtWork /\ dg # Idle /\ dg \in Run
  <2>1. dg.pc \in {"extract", "read", "chunks", "write", "supersede", "record", "retract",
                   "retracted", "retire"}
    BY DEF Retire, AttemptFails, Fails
  <2>2. dg # Idle
    BY <2>1 DEF Idle
  <2> QED
    BY <2>1, <2>2 DEF AtWork, Working, Reading, RunOK, DigestInv
<1>2. /\ dg.ver \in Nat \ {0} /\ dg.doc \in Docs /\ dg.doc = owner(dg.ver)
      /\ cursor \in Nat /\ dg.at \in Nat /\ cursor <= dg.at
  BY <1>1, AtHand DEF Versions, DigestInv, TablesOK, RunOK, Run
<1>3. UNCHANGED <<current, versions, ledger, graph, adrift>> /\ fused \subseteq fused'
  BY DEF Retire, AttemptFails
<1>4. \/ dg' = Idle /\ cursor' = cursor
      \/ /\ dg' # Idle /\ dg'.pc = "pick"
         /\ dg'.at = (IF dg.mode = "main" THEN dg.ver ELSE dg.at)
         /\ dg.pc = "retire" \/ dg.ver \in fused'
  <2>1. CASE Retire
    BY <1>1, <2>1 DEF Retire, Run, Idle
  <2>2. CASE AttemptFails
    BY <1>1, <2>2 DEF AttemptFails, Run, Idle
  <2> QED
    BY <2>1, <2>2
<1>5. ~AtWork'
  BY <1>4 DEF AtWork, Working, Reading
<1>6. EventsOK' /\ FactsAtHand' /\ NothingLeaks'
  BY <1>3, <1>5 DEF FactsInv, EventsOK, FactsAtHand, NothingLeaks, Newest
<1>7. SilentOK'
  <2>1. ASSUME NEW d \in Docs, current[d] # 0, body(current[d]) \in Withheld,
               current[d] <= Reach', current[d] \notin fused'
        PROVE  Silent(d)
    <3>1. current[d] \in Nat /\ current[d] \in rows /\ owner(current[d]) = d
      BY <2>1 DEF DigestInv, TablesOK, HeadsOK
    <3>2. CASE current[d] <= dg.at
      BY <1>1, <1>3, <2>1, <3>2 DEF FactsInv, SilentOK, Reach
    <3>3. CASE ~(current[d] <= dg.at)
      <4>1. /\ dg.mode = "main" /\ current[d] <= dg.ver
            /\ dg.pc = "retire" \/ dg.ver \in fused'
        BY <1>2, <1>4, <2>1, <3>1, <3>3 DEF Reach
      <4>2. dg.ver <= current[d]
        BY <1>1, <1>2, <3>1, <3>3, <4>1 DEF DigestInv, RunOK
      <4>3. dg.ver = current[d] /\ d = dg.doc
        BY <1>2, <3>1, <4>1, <4>2
      <4> QED
        BY <1>1, <2>1, <4>1, <4>3 DEF FactsInv, FactsAtHand
    <3> QED
      BY <3>2, <3>3
  <2> QED
    BY <1>3, <2>1 DEF SilentOK, Silent, Newest, body
<1> QED
  BY <1>6, <1>7

LEMMA NextFacts == DigestInv /\ StoredOK /\ FactsInv /\ [Next]_vars => FactsInv'
<1> SUFFICES ASSUME DigestInv, StoredOK, FactsInv, [Next]_vars PROVE FactsInv'
  OBVIOUS
<1>1. FactTypes'
  BY NextFactTypes DEF FactsInv
<1>2. CASE UNCHANGED vars
  BY <1>2
  DEF vars, docVars, runVars, metadata, graphVars, FactsInv, FactTypes, EventsOK, FactsAtHand, SilentOK,
      NothingLeaks, AtWork, Reach, Silent, Vouches, Newest, body
<1>3. CASE Request \/ WriterStep \/ CommitFails \/ RestoreFails \/ \E d \in Docs : Sweep(d)
  BY <1>1, <1>3, AsideFacts, HeadFacts DEF WriterStep, FactsInv
<1>4. CASE StartDigest \/ DigestStep \/ AttemptFails \/ RunDies \/ Flush \/ Restart
  BY <1>1, <1>4, AsideFacts, GraphFacts, RecordFacts, PassFacts DEF DigestStep, FactsInv
<1> QED
  BY <1>2, <1>3, <1>4 DEF Next

-----------------------------------------------------------------------------
(* The theorems                                                            *)

LEMMA Invariant == Spec => [](DigestInv /\ StoredOK /\ FuseOK /\ FactsInv)
<1>1. Init => StoredOK
  BY DEF Init, StoredOK
<1>2. FactsInv => EventsOK
  BY DEF FactsInv
<1> QED
  BY <1>1, <1>2, InitDigest, InitFuse, InitFacts, NextDigest, NextStored, NextFuse, NextFacts, PTL
  DEF Spec

\* Whatever commits, archives, restores, sweeps, failures, metadata writes and
\* restarts come between the steps of a run, no current version that may be
\* distilled lies behind the cursor without being recorded, queued, given up,
\* or missed in one of the recorded ways, the loss of its mark with the
\* process among them.
THEOREM NothingForgotten == Spec => []DigestedOrQueued
<1>1. DigestInv => DigestedOrQueued
  <2> SUFFICES ASSUME DigestInv, NEW d \in Docs, Exists(d), Distillable(d), current[d] <= cursor
      PROVE  Covered(d)
    BY OpKinds DEF DigestInv, DigestedOrQueued, Covered, TablesOK, Free, Commit, Restore
  <2>1. current[d] <= Reach
    BY DEF Reach, DigestInv, RunOK, Run, TablesOK
  <2> QED
    BY <2>1 DEF DigestInv, PassedOK
<1> QED
  BY <1>1, Invariant, PTL

\* The fuse never gives a version up for the failures of another, whatever
\* runs, restarts and writers come between its attempts.
THEOREM EveryFuseEarned == Spec => []FuseIsEarned
<1>1. FuseOK => FuseIsEarned
  BY DEF FuseOK, FuseIsEarned
<1> QED
  BY <1>1, Invariant, PTL

\* Whatever fails or comes between the writes of a digest, an active fact has a
\* newest digest that vouches for it, or is known to be adrift; and once the
\* cursor is past a withheld version, no newest digest of its document vouches
\* for anything.
THEOREM EveryFactAccounted == Spec => []FactsAreAccountedFor
<1>1. DigestInv /\ StoredOK /\ FactsInv => FactsAreAccountedFor
  <2> SUFFICES ASSUME DigestInv, StoredOK, FactsInv PROVE FactsAreAccountedFor
    OBVIOUS
  <2>1. \A d \in Docs : current[d] \in 0 .. MaxVersions
    <3>1. Len(versions) \in Nat /\ Len(versions) <= MaxVersions
      BY DEF DigestInv, TablesOK
    <3>2. \A d \in Docs : current[d] = 0 \/ current[d] \in 1 .. Len(versions)
      BY DEF DigestInv, TablesOK, HeadsOK, rows
    <3> QED
      BY <3>1, <3>2, WikiDigestAssumption
  <2>2. TypeOK
    <3>1. cursor \in 0 .. MaxVersions /\ pending \subseteq Docs
      BY WikiDigestAssumption DEF DigestInv, TablesOK
    <3>2. \A d \in Docs : \A i \in DOMAIN ledger[d] : ledger[d][i].ver \in Versions
      BY <2>1, WikiDigestAssumption DEF FactsInv, EventsOK, Versions
    <3> QED
      BY <3>1, <3>2 DEF TypeOK, StoredOK, FactsInv, FactTypes, Bounded
  <2>3. WithheldIsRetracted
    <3> SUFFICES ASSUME NEW d \in Docs, Exists(d), body(current[d]) \in Withheld,
                        current[d] <= cursor, current[d] \notin fused
                 PROVE  Silent(d)
      BY DEF WithheldIsRetracted, Silent
    <3>1. current[d] <= Reach
      BY DEF Reach, DigestInv, RunOK, Run, TablesOK
    <3> QED
      BY <3>1 DEF FactsInv, SilentOK, Exists
  <2> QED
    BY <2>2, <2>3 DEF FactsAreAccountedFor, FactsInv
<1> QED
  BY <1>1, Invariant, PTL
=============================================================================
