-------------------------- MODULE QuotaStoreProofs --------------------------
(***************************************************************************)
(* The safety properties of the quota store, for any files, any editor and *)
(* any number of edits.                                                    *)
(***************************************************************************)
EXTENDS QuotaStore, TLAPS

\* What a step of the editor leaves alone and what it does to the file: the
\* four ways to edit, as one fact.
LEMMA EditorEffect ==
  ASSUME TypeOK, Editor
  PROVE  /\ UNCHANGED storeVars /\ Writes
         /\ file' \in Good \cup Bad \cup Torn \cup {NoFile}
         /\ rewrite' \in Good \cup Bad \cup {NoFile}
<1>whole. ASSUME NEW c \in Good \cup Bad, Replace(c) \/ BeginRewrite(c)
          PROVE  /\ Writes /\ file' \in Good \cup Bad \cup Torn
                 /\ rewrite' \in Good \cup Bad \cup {NoFile}
  BY <1>whole, StoreAssumption DEF TypeOK, Replace, BeginRewrite
<1>rest. ASSUME EndRewrite \/ Remove
         PROVE  /\ Writes /\ file' \in Good \cup Bad \cup {NoFile}
                /\ rewrite' = NoFile
  BY <1>rest, StoreAssumption DEF TypeOK, EndRewrite, Remove
<1> QED
  BY <1>whole, <1>rest DEF Editor, Writes

\* Every reachable state is well typed: in particular a watcher that runs has a
\* configuration, and not one that Parse rejects.
THEOREM StoreTypeCorrect == Spec => []TypeOK
<1>start. Init => TypeOK
  BY StoreAssumption DEF Init, TypeOK
<1>step. ASSUME TypeOK, [Next]_vars PROVE TypeOK'
  <2>editor. ASSUME Editor PROVE TypeOK'
    BY <1>step, <2>editor, EditorEffect, StoreAssumption DEF TypeOK, Writes, storeVars
  <2>look. ASSUME Poll \/ Stat PROVE TypeOK'
    BY <1>step, <2>look, StoreAssumption
       DEF TypeOK, Poll, Stat, ReadError, Rejected, editorVars
  <2>load. ASSUME ReadFile PROVE TypeOK'
    BY <1>step, <2>load, StoreAssumption
       DEF TypeOK, ReadFile, ReadError, Rejected, Accepted, editorVars
  <2> QED
    BY <1>step, <2>editor, <2>look, <2>load DEF Next, Watch, vars, TypeOK
<1> QED
  BY <1>start, <1>step, PTL DEF Spec

\* The times the watcher knows are never ahead of the file's, and a file with
\* the remembered time is the one the store serves, wherever the watcher is.
TimeInv ==
    /\ mtime <= ftime
    /\ pc = "read" => seen <= ftime
    /\ mtime = ftime /\ file \in Good => cfg = file

\* If every write gets a later modification time, no update is lost in the
\* window between Stat and ReadFile, not even one that meets Open there.
THEOREM StoreIsCurrent == ~ Coarse => (Spec => []CurrentWhenQuiet)
<1> SUFFICES ASSUME ~ Coarse PROVE Spec => []CurrentWhenQuiet
  OBVIOUS
<1>start. Init => TimeInv
  BY DEF Init, TimeInv
<1>step. ASSUME TypeOK, TimeInv, [Next]_vars PROVE TimeInv'
  <2>editor. ASSUME Editor PROVE TimeInv'
    BY <1>step, <2>editor, EditorEffect DEF TypeOK, TimeInv, Writes, storeVars
  <2>look. ASSUME Poll \/ Stat PROVE TimeInv'
    BY <1>step, <2>look DEF TypeOK, TimeInv, Poll, Stat, ReadError, Rejected, editorVars
  <2>load. ASSUME ReadFile PROVE TimeInv'
    BY <1>step, <2>load, StoreAssumption
       DEF TypeOK, TimeInv, ReadFile, ReadError, Rejected, Accepted, editorVars
  <2> QED
    BY <1>step, <2>editor, <2>look, <2>load DEF Next, Watch, vars, TimeInv
<1>quiet. TimeInv => CurrentWhenQuiet
  BY DEF TimeInv, CurrentWhenQuiet
<1> QED
  BY <1>start, <1>step, <1>quiet, StoreTypeCorrect, PTL DEF Spec
=============================================================================
