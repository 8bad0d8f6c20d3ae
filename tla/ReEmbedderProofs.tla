--------------------------- MODULE ReEmbedderProofs ---------------------------
(***************************************************************************)
(* Theorems of ReEmbedder for every set of rows, batch size, payloads and  *)
(* bounds.                                                                 *)
(***************************************************************************)
EXTENDS ReEmbedder, TLAPS

LEMMA InitType == Init => TypeOK
<1> SUFFICES ASSUME Init PROVE TypeOK
    OBVIOUS
<1> USE ConstantAssumption DEF Init, Contents, Gone
<1>1. content \in [Chunks -> Contents] /\ written \in [Chunks -> Contents]
      OBVIOUS
<1>2. version \in [Chunks -> Versions]
      BY DEF Versions
<1>3. changes \in 0 .. MaxChanges /\ crashes \in 0 .. MaxCrashes
      OBVIOUS
<1>. QED  BY <1>1, <1>2, <1>3 DEF TypeOK

LEMMA NextType == TypeOK /\ [Next]_vars => TypeOK'
<1> SUFFICES ASSUME TypeOK, [Next]_vars PROVE TypeOK'
    OBVIOUS
<1> USE ConstantAssumption DEF TypeOK, Contents, Gone, Versions
<1>1. CASE Start
      BY <1>1 DEF Start, table
<1>2. CASE Query
  <2>1. ASSUME NEW B \in SUBSET Stale,
               batch' = {[chunk |-> c, content |-> content[c]] : c \in B}
        PROVE  batch' \in SUBSET [chunk : Chunks, content : 0 .. MaxChanges]
    <3>1. \A c \in B : c \in Chunks /\ content[c] \in 0 .. MaxChanges
          BY <2>1 DEF Stale
    <3>. QED  BY <2>1, <3>1
  <2>2. batch' \in SUBSET [chunk : Chunks, content : 0 .. MaxChanges]
        BY <1>2, <2>1 DEF Query
  <2>3. more' \in BOOLEAN /\ pc' \in {"idle", "query", "rows", "finish", "done"}
        BY <1>2 DEF Query
  <2>. QED  BY <1>2, <2>2, <2>3 DEF Query, table, history
<1>3. CASE Migrate
      BY <1>3 DEF Migrate, WriteBack
<1>4. CASE EndBatch
      BY <1>4 DEF EndBatch, table, history
<1>5. CASE Finish
      BY <1>5 DEF Finish, table
<1>6. CASE Crash
      BY <1>6 DEF Crash, table, history
<1>7. ASSUME NEW c \in Chunks, Upsert(c) PROVE TypeOK'
      BY <1>7 DEF Upsert, Changed, WriteBack, run
<1>8. ASSUME NEW c \in Chunks, Delete(c) PROVE TypeOK'
      BY <1>8 DEF Delete, Changed, WriteBack, run
<1>9. CASE UNCHANGED vars
      BY <1>9 DEF vars
<1>. QED  BY <1>1, <1>2, <1>3, <1>4, <1>5, <1>6, <1>7, <1>8, <1>9 DEF Next, Work

(* Type correctness of the migration, whatever the consumer does meanwhile. *)
THEOREM TypeCorrect == Spec => []TypeOK
<1>. QED  BY InitType, NextType, PTL DEF Spec

-----------------------------------------------------------------------------
(* A row of the batch still says what was read, or is known to have raced. *)
HoldsRows == \A r \in batch : content[r.chunk] = r.content \/ r.chunk \in raced

Keeping == HoldsRows /\ KeepsContent

LEMMA NextKeeping == TypeOK /\ Keeping /\ [Next]_vars => Keeping'
<1> SUFFICES ASSUME TypeOK, Keeping, [Next]_vars PROVE Keeping'
    OBVIOUS
<1> USE DEF TypeOK, Keeping, HoldsRows, KeepsContent
<1>1. CASE Start
      BY <1>1 DEF Start, table
<1>2. CASE Query
      BY <1>2 DEF Query, table, history
<1>3. CASE Migrate
  <2>1. PICK r \in batch : WriteBack(r.chunk, r.content, New) /\ batch' = batch \ {r}
        BY <1>3 DEF Migrate
  <2>2. raced' = raced /\ written' = written
        BY <1>3 DEF Migrate
  <2>3. content' = content \/ r.chunk \in raced
        BY <2>1 DEF WriteBack
  <2>4. \A c \in Chunks : content'[c] = content[c] \/ c \in raced
        BY <2>1, <2>3 DEF WriteBack
  <2>. QED  BY <2>1, <2>2, <2>4
<1>4. CASE EndBatch
      BY <1>4 DEF EndBatch, table, history
<1>5. CASE Finish
      BY <1>5 DEF Finish, table
<1>6. CASE Crash
      BY <1>6 DEF Crash, table, history
<1>7. ASSUME NEW c \in Chunks, Upsert(c) \/ Delete(c) PROVE Keeping'
  <2>1. /\ batch' = batch
        /\ raced' = IF c \in Held THEN raced \cup {c} ELSE raced \ {c}
        /\ content'[c] = written'[c]
        /\ \A d \in Chunks \ {c} : content'[d] = content[d] /\ written'[d] = written[d]
        BY <1>7 DEF Upsert, Delete, Changed, WriteBack, run
  <2>2. \A r \in batch : r.chunk = c => c \in raced'
        BY <2>1 DEF Held
  <2>. QED  BY <2>1, <2>2
<1>9. CASE UNCHANGED vars
      BY <1>9 DEF vars
<1>. QED  BY <1>1, <1>2, <1>3, <1>4, <1>5, <1>6, <1>7, <1>9 DEF Next, Work

(* No migration changes what a row says, except for the chunks that were   *)
(* changed between the read and the write-back of their row.               *)
THEOREM FieldsAreKept == Spec => []KeepsContent
<1>1. Init => Keeping
      BY DEF Init, Keeping, HoldsRows, KeepsContent
<1>2. Keeping => KeepsContent
      BY DEF Keeping
<1>. QED  BY TypeCorrect, NextKeeping, <1>1, <1>2, PTL DEF Spec

-----------------------------------------------------------------------------
(* What the run still has to migrate is in its batch, or the next query    *)
(* will find it.                                                           *)
Progressing ==
    /\ pc = "rows" /\ ~more => Stale \subseteq Held \cup since
    /\ pc \in {"finish", "done"} => Stale \subseteq since

LEMMA NextProgressing == TypeOK /\ Progressing /\ [Next]_vars => Progressing'
<1> SUFFICES ASSUME TypeOK, Progressing, [Next]_vars PROVE Progressing'
    OBVIOUS
<1> USE ConstantAssumption DEF TypeOK, Progressing
<1>1. CASE Start
      BY <1>1 DEF Start
<1>2. CASE Query
  <2>1. Stale' = Stale /\ since' = since
        BY <1>2 DEF Query, table, history, Stale
  <2>2. CASE Stale = {} /\ pc' = "finish"
        BY <2>1, <2>2
  <2>3. ASSUME NEW B \in SUBSET Stale, pc' = "rows", more' = (B # Stale),
               batch' = {[chunk |-> c, content |-> content[c]] : c \in B}
        PROVE  Progressing'
    <3>1. ASSUME NEW c \in B PROVE c \in Held'
      <4>1. [chunk |-> c, content |-> content[c]] \in batch'
            BY <2>3
      <4>2. [chunk |-> c, content |-> content[c]].chunk = c
            OBVIOUS
      <4>. QED  BY <4>1, <4>2 DEF Held
    <3>. QED  BY <2>1, <2>3, <3>1
  <2>. QED  BY <1>2, <2>2, <2>3 DEF Query
<1>3. CASE Migrate
  <2>1. PICK r \in batch : WriteBack(r.chunk, r.content, New) /\ batch' = batch \ {r}
        BY <1>3 DEF Migrate
  <2>2. pc' = pc /\ more' = more /\ since' = since /\ pc = "rows"
        BY <1>3 DEF Migrate
  <2>3. Stale' \subseteq Stale \ {r.chunk}
        BY <2>1 DEF WriteBack, Stale, Versions, Contents, Gone
  <2>4. Held \subseteq Held' \cup {r.chunk}
        BY <2>1 DEF Held
  <2>. QED  BY <2>2, <2>3, <2>4
<1>4. CASE EndBatch
  <2>1. Stale' = Stale /\ since' = since
        BY <1>4 DEF EndBatch, table, history, Stale
  <2>2. Held = {}
        BY <1>4 DEF EndBatch, Held
  <2>. QED  BY <1>4, <2>1, <2>2 DEF EndBatch
<1>5. CASE Finish
  <2>1. Stale' = Stale /\ since' = since
        BY <1>5 DEF Finish, table, Stale
  <2>. QED  BY <1>5, <2>1 DEF Finish
<1>6. CASE Crash
      BY <1>6 DEF Crash
<1>7. ASSUME NEW c \in Chunks, Upsert(c) \/ Delete(c) PROVE Progressing'
  <2>1. pc' = pc /\ more' = more /\ batch' = batch /\ since' = since \cup {c}
        BY <1>7 DEF Upsert, Delete, Changed, run
  <2>2. Stale' \subseteq Stale \cup {c}
        BY <1>7 DEF Upsert, Delete, WriteBack, Stale
  <2>3. Held' = Held
        BY <2>1 DEF Held
  <2>. QED  BY <2>1, <2>2, <2>3
<1>9. CASE UNCHANGED vars
  <2>1. Stale' = Stale /\ Held' = Held
        BY <1>9 DEF vars, Stale, Held
  <2>. QED  BY <1>9, <2>1 DEF vars
<1>. QED  BY <1>1, <1>2, <1>3, <1>4, <1>5, <1>6, <1>7, <1>9 DEF Next, Work

(* Resuming is complete: a run that ends, after any number of crashed      *)
(* ones, leaves on the old version only rows written while it ran.         *)
THEOREM RunsAreComplete == Spec => []CompleteUnlessTouched
<1>1. Init => Progressing
      BY DEF Init, Progressing
<1>2. Progressing => CompleteUnlessTouched
      BY DEF Progressing, CompleteUnlessTouched
<1>. QED  BY TypeCorrect, NextProgressing, <1>1, <1>2, PTL DEF Spec

-----------------------------------------------------------------------------
(* Without a crash, a pending invalidation belongs to the current run.     *)
Remembered == pending /\ crashes = 0 => migrated /\ pc \in {"query", "rows", "finish"}

LEMMA NextRemembered == TypeOK /\ Remembered /\ [Next]_vars => Remembered'
<1> SUFFICES ASSUME TypeOK, Remembered, [Next]_vars PROVE Remembered'
    OBVIOUS
<1> USE DEF TypeOK, Remembered
<1>1. CASE Start
      BY <1>1 DEF Start
<1>2. CASE Query
      BY <1>2 DEF Query, history
<1>3. CASE Migrate
      BY <1>3 DEF Migrate
<1>4. CASE EndBatch
      BY <1>4 DEF EndBatch, history
<1>5. CASE Finish
      BY <1>5 DEF Finish
<1>6. CASE Crash
      BY <1>6 DEF Crash, history
<1>7. ASSUME NEW c \in Chunks, Upsert(c) \/ Delete(c) PROVE Remembered'
      BY <1>7 DEF Upsert, Delete, run
<1>9. CASE UNCHANGED vars
      BY <1>9 DEF vars
<1>. QED  BY <1>1, <1>2, <1>3, <1>4, <1>5, <1>6, <1>7, <1>9 DEF Next, Work

(* When a run ends and none was ever cut off, the cache has been told      *)
(* about every row that left the old version.                              *)
THEOREM InvalidationReached == Spec => []InvalidatedUnlessCrashed
<1>1. Init => Remembered
      BY DEF Init, Remembered
<1>2. Remembered => InvalidatedUnlessCrashed
      BY DEF Remembered, InvalidatedUnlessCrashed
<1>. QED  BY TypeCorrect, NextRemembered, <1>1, <1>2, PTL DEF Spec
=============================================================================
