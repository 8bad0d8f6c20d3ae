--------------------------- MODULE IngestionProofs ---------------------------
(***************************************************************************)
(* Theorems of Ingestion for any directory, any front matter, documents    *)
(* and events, any sessions and any number of callers.                     *)
(***************************************************************************)
EXTENDS Ingestion, TLAPS

LEMMA SecurityType ==
    ASSUME NEW m \in FrontMatters, ~Refused(m)
    PROVE  Security(m) \in Footprints
<1>1. m \in FrontMatter
      BY IngestionAssumption
<1>2. Level(m) \in Clearances /\ Class(m) \in STRING /\ Acl(m) \in SUBSET Roles
      BY <1>1, IngestionAssumption DEF Refused, Level, Class, Acl, FrontMatter
<1>3. {"PUBLIC"} \in SUBSET Roles
      BY IngestionAssumption
<1>4. m.need_to_know_roles \in SUBSET Roles /\ m.partial_for \in SUBSET Roles
      BY <1>1 DEF FrontMatter
<1>5. QED BY <1>2, <1>3, <1>4 DEF Security, Footprints

LEMMA ObjectTypes ==
    /\ \A n \in Names, m \in FrontMatters : ~Refused(m) => TextChunk(n, m) \in Objects
    /\ \A doc \in Documents : Extract(doc) \in Objects
    /\ \A e \in Events : Rewritten(e) \in Objects
<1>1. ASSUME NEW n \in Names, NEW m \in FrontMatters, ~Refused(m)
      PROVE  TextChunk(n, m) \in Objects
      BY <1>1, SecurityType DEF TextChunk, Objects, Sources, Ids
<1>2. ASSUME NEW doc \in Documents PROVE Extract(doc) \in Objects
  <2>1. doc.doc_id \in Names /\ doc.security \in Footprints
        BY IngestionAssumption
  <2>2. [doc.security EXCEPT !.partial_for = {}] \in Footprints
        BY <2>1 DEF Footprints
  <2>3. QED BY <2>1, <2>2 DEF Extract, Objects, Sources, Ids
<1>3. ASSUME NEW e \in Events PROVE Rewritten(e) \in Objects
  <2>1. e.id \in Ids /\ e.security \in Footprints
        BY IngestionAssumption
  <2>2. [e.security EXCEPT !.partial_for = {}] \in Footprints
        BY <2>1 DEF Footprints
  <2>3. QED BY <2>1, <2>2 DEF Rewritten, Objects, Sources
<1>4. QED BY <1>1, <1>2, <1>3

LEMMA EventType ==
    ASSUME NEW e \in Events, NEW S \in SUBSET Objects
    PROVE  AfterEvent(e, S) \in SUBSET Objects
BY ObjectTypes DEF AfterEvent

(* Every reachable state is well typed.                                    *)
THEOREM TypeCorrect == Spec => []TypeOK
<1>1. Init => TypeOK
      BY IngestionAssumption DEF Init, TypeOK, CallPcs
<1>2. TypeOK /\ [Next]_vars => TypeOK'
  <2> SUFFICES ASSUME TypeOK, [Next]_vars PROVE TypeOK'
      OBVIOUS
  <2> USE DEF TypeOK, CallPcs, Goto, bounds, index, history
  <2>1. CASE Edit
        BY <2>1, IngestionAssumption DEF Edit
  <2>2. ASSUME NEW a \in Ingesters, ListCorpus(a) PROVE TypeOK'
        BY <2>2 DEF ListCorpus, Actors
  <2>3. ASSUME NEW a \in Ingesters, LoadFile(a) PROVE TypeOK'
    <3>1. PICK n \in todo[a] :
             /\ Readable(n)
             /\ todo' = [todo EXCEPT ![a] = @ \ {n}]
             /\ mine' = [mine EXCEPT ![a] = @ \cup {TextChunk(n, files[n])}]
          BY <2>3 DEF LoadFile
    <3>2. n \in Names /\ files[n] \in FrontMatters
          BY <3>1 DEF Actors, Readable
    <3>3. TextChunk(n, files[n]) \in Objects
          BY <3>1, <3>2, ObjectTypes DEF Readable
    <3>4. mine' \in [Actors -> SUBSET Objects] /\ todo' \in [Actors -> SUBSET Names]
          BY <3>1, <3>3 DEF Actors
    <3>5. QED BY <2>3, <3>4 DEF LoadFile
  <2>4. ASSUME NEW a \in Ingesters, LoadFails(a) PROVE TypeOK'
        BY <2>4 DEF LoadFails, Forget, Actors
  <2>5. ASSUME NEW a \in Ingesters, ReplaceCorpus(a) PROVE TypeOK'
        BY <2>5 DEF ReplaceCorpus, StoreChunks, Holding, Actors
  <2>6. ASSUME NEW a \in Ingesters, BeginExtract(a) PROVE TypeOK'
        BY <2>6, ObjectTypes DEF BeginExtract, Actors
  <2>7. ASSUME NEW a \in Ingesters, ExtractFails(a) PROVE TypeOK'
        BY <2>7 DEF ExtractFails, Forget, Actors
  <2>8. ASSUME NEW a \in Ingesters, ReadChunks(a) PROVE TypeOK'
        BY <2>8 DEF ReadChunks, Actors
  <2>9. ASSUME NEW a \in Ingesters, AppendChunks(a) PROVE TypeOK'
        BY <2>9 DEF AppendChunks, StoreChunks, Holding, Race, Actors
  <2>10. CASE ReadForChange
    <3>1. PICK e \in Events :
             /\ change' = {e}
             /\ mine' = [mine EXCEPT ![Consumer] = AfterEvent(e, chunks)]
          BY <2>10 DEF ReadForChange
    <3>2. AfterEvent(e, chunks) \in SUBSET Objects
          BY EventType
    <3>3. mine' \in [Actors -> SUBSET Objects]
          BY <3>1, <3>2
    <3>4. QED BY <2>10, <3>1, <3>3 DEF ReadForChange
  <2>11. CASE StoreChange
    <3>1. PICK e \in change :
             /\ book' = AfterEvent(e, book)
             /\ applied' = [applied EXCEPT ![e.id] = e.version]
             /\ \/ pc' = [pc EXCEPT ![Consumer] = "reindex"] /\ UNCHANGED mine
                \/ /\ pc' = [pc EXCEPT ![Consumer] = "idle"]
                   /\ mine' = [mine EXCEPT ![Consumer] = {}]
          BY <2>11 DEF StoreChange
    <3>2. e \in Events /\ e.version \in Nat
          BY IngestionAssumption
    <3>3. AfterEvent(e, book) \in SUBSET Objects
          BY <3>2, EventType
    <3>4. book' \in SUBSET Objects /\ applied' \in [Ids -> Nat]
          BY <3>1, <3>2, <3>3
    <3>5. pc' \in [Actors -> CallPcs] /\ mine' \in [Actors -> SUBSET Objects]
          BY <3>1
    <3>6. chunks' \in SUBSET Objects /\ behind' \in SUBSET Actors
          BY <2>11 DEF StoreChange, StoreChunks, Holding, Actors
    <3>7. QED BY <2>11, <3>4, <3>5, <3>6 DEF StoreChange, Race
  <2>12. ASSUME NEW a \in Actors, PassChunks(a) PROVE TypeOK'
        BY <2>12 DEF PassChunks
  <2>13. ASSUME NEW a \in Actors, IndexDense(a) PROVE TypeOK'
        BY <2>13 DEF IndexDense, Race
  <2>14. ASSUME NEW a \in Actors, IndexLex(a) PROVE TypeOK'
        BY <2>14 DEF IndexLex, Race, Forget
  <2>15. CASE UNCHANGED vars
        BY <2>15 DEF vars
  <2>16. QED
         BY <2>1, <2>2, <2>3, <2>4, <2>5, <2>6, <2>7, <2>8, <2>9, <2>10, <2>11, <2>12,
            <2>13, <2>14, <2>15
            DEF Next, IndexCorpus, IndexMultimodal, ApplyChange, Reindex
<1>3. QED BY <1>1, <1>2, PTL DEF Spec

-----------------------------------------------------------------------------
(* The loader and the access gates together keep a declaration.            *)
LEMMA LoaderKeepsDeclaration ==
    ASSUME NEW m \in FrontMatters, ~Refused(m), NEW s \in Sessions,
           Evaluate(Security(m), s) = "allow"
    PROVE  MayReadRaw(m, s)
<1> DEFINE f == Security(m)
<1>1. m \in FrontMatter
      BY IngestionAssumption
<1>0. Level(m) \in Int /\ s.clearance_level \in Int
      BY <1>1 DEF Level, FrontMatter, Clearances, Sessions
<1>b. /\ m.keys # {} /\ Class(m) \in ValidClasses \cup {""}
      /\ Class(m) = PiiClass => ~(Level(m) < 2)
      BY DEF Refused
<1>c. \A l \in Int : ~(l < 2) => l >= 2 /\ l # 0
      OBVIOUS
<1>2. /\ m.keys # {} /\ Class(m) \in ValidClasses \cup {""}
      /\ Class(m) = PiiClass => Level(m) >= 2 /\ Level(m) # 0
      BY <1>0, <1>b, <1>c, Zenon
<1>3. /\ f.clearance_level = Level(m) /\ f.sensitivity_class = Class(m)
      /\ f.allowed_roles = IF Acl(m) = {} THEN {"PUBLIC"} ELSE Acl(m)
      /\ f.need_to_know_roles = m.need_to_know_roles
      BY DEF Security
<1>a. Evaluate(f, s) = "allow"
      OBVIOUS
<1> HIDE DEF f
<1>4. IsPublic(f) => DeclaredPublic(m)
      BY <1>3 DEF IsPublic, DeclaredPublic
<1>5. CASE Class(m) = PiiClass
  <2>1. ~IsPublic(f) /\ ~Unrecognised(f)
        BY <1>0, <1>2, <1>3, <1>5 DEF IsPublic, Unrecognised
  <2>2. PiiDecision(s.clearance_level) = "allow"
        BY <1>a, <1>3, <1>5, <2>1 DEF Evaluate
  <2>3. s.clearance_level >= 4
        BY <2>2 DEF PiiDecision
  <2>4. QED BY <1>2, <1>5, <2>3 DEF MayReadRaw
<1>6. CASE Class(m) # PiiClass /\ ~IsPublic(f)
  <2>1. ~(s.clearance_level < Level(m))
        BY <1>a, <1>2, <1>3, <1>6 DEF Evaluate, Unrecognised
  <2>2. m.need_to_know_roles = {} \/ ~Disjoint(m.need_to_know_roles, s.roles)
        BY <1>a, <1>2, <1>3, <1>6, <2>1 DEF Evaluate, Unrecognised, ScopedDecision
  <2>3. Class(m) # "" \/ ~Disjoint(f.allowed_roles, s.roles)
        BY <1>a, <1>2, <1>3, <1>6, <2>1, <2>2 DEF Evaluate, Unrecognised
  <2>4. \/ Class(m) # ""
        \/ Acl(m) = {} /\ "PUBLIC" \in s.roles
        \/ ~Disjoint(Acl(m), s.roles)
        BY <1>3, <2>3 DEF Disjoint
  <2>5. s.clearance_level >= Level(m)
        BY <1>0, <2>1
  <2>6. QED BY <1>2, <1>6, <2>2, <2>4, <2>5 DEF MayReadRaw
<1>7. QED BY <1>2, <1>4, <1>5, <1>6 DEF MayReadRaw

(* Without partial_for a decision is what it was, or a denial.             *)
LEMMA LosingPartialDenies ==
    ASSUME NEW f \in Footprints, NEW s \in Sessions
    PROVE  Evaluate([f EXCEPT !.partial_for = {}], s) \in {"deny", Evaluate(f, s)}
<1> DEFINE g == [f EXCEPT !.partial_for = {}]
<1>1. /\ g.clearance_level = f.clearance_level /\ g.allowed_roles = f.allowed_roles
      /\ g.sensitivity_class = f.sensitivity_class
      /\ g.need_to_know_roles = f.need_to_know_roles /\ g.partial_for = {}
      BY DEF Footprints
<1>2. ScopedDecision(g, s) = "deny"
      BY <1>1 DEF ScopedDecision, Disjoint
<1>3. IsPublic(g) = IsPublic(f) /\ Unrecognised(g) = Unrecognised(f)
      BY <1>1 DEF IsPublic, Unrecognised
<1>4. QED BY <1>1, <1>2, <1>3 DEF Evaluate

(* The footprint of every chunk is the one its source gives it.            *)
Sourced(S) ==
    \A o \in S :
        /\ o.source \in FrontMatters =>
              ~Refused(o.source) /\ o.security = Security(o.source)
        /\ o.source \in Documents =>
              o.security = [o.source.security EXCEPT !.partial_for = {}]

AllSourced ==
    /\ Sourced(chunks) /\ Sourced(dense) /\ Sourced(lex)
    /\ \A a \in Actors : Sourced(mine[a]) /\ Sourced(fresh[a])

LEMMA NewChunksSourced ==
    /\ \A n \in Names, m \in FrontMatters : ~Refused(m) => Sourced({TextChunk(n, m)})
    /\ \A doc \in Documents : Sourced({Extract(doc)})
    /\ \A e \in Events : Sourced({Rewritten(e)})
<1>1. \A m \in FrontMatters : m \notin Documents
      BY IngestionAssumption
<1>2. Changed \notin FrontMatters /\ Changed \notin Documents
      BY IngestionAssumption
<1>3. QED BY <1>1, <1>2 DEF Sourced, TextChunk, Extract, Rewritten

LEMMA SourcedUnion ==
    ASSUME NEW S, NEW T, Sourced(S), Sourced(T)
    PROVE  Sourced(S \cup T)
BY DEF Sourced

LEMMA SourcedAfterEvent ==
    ASSUME NEW e \in Events, NEW S, Sourced(S)
    PROVE  Sourced(AfterEvent(e, S))
BY NewChunksSourced DEF Sourced, AfterEvent

LEMMA SourcesKept == Spec => []AllSourced
<1>1. Init => AllSourced
      BY DEF Init, AllSourced, Sourced
<1>2. TypeOK /\ AllSourced /\ [Next]_vars => AllSourced'
  <2> SUFFICES ASSUME TypeOK, AllSourced, [Next]_vars PROVE AllSourced'
      OBVIOUS
  <2> USE DEF TypeOK, AllSourced, index
  <2>e. Sourced({})
        BY DEF Sourced
  <2>f. ASSUME UNCHANGED <<chunks, dense, lex, mine, fresh>> PROVE AllSourced'
        BY <2>f DEF Sourced
  <2>1. CASE Edit
        BY <2>1, <2>f DEF Edit
  <2>2. ASSUME NEW a \in Ingesters, ListCorpus(a) PROVE AllSourced'
        BY <2>2, <2>f DEF ListCorpus
  <2>3. ASSUME NEW a \in Ingesters, LoadFile(a) PROVE AllSourced'
    <3>1. PICK n \in todo[a] :
             /\ Readable(n)
             /\ mine' = [mine EXCEPT ![a] = @ \cup {TextChunk(n, files[n])}]
          BY <2>3 DEF LoadFile
    <3>2. n \in Names /\ files[n] \in FrontMatters /\ ~Refused(files[n])
          BY <3>1 DEF Actors, Readable
    <3>3. Sourced(mine[a] \cup {TextChunk(n, files[n])})
          BY <3>2, NewChunksSourced, SourcedUnion DEF Actors
    <3>4. \A b \in Actors : Sourced(mine'[b])
          BY <3>1, <3>3
    <3>5. QED BY <2>3, <3>4 DEF LoadFile, Sourced
  <2>4. ASSUME NEW a \in Actors, Forget(a), UNCHANGED <<chunks, dense>>,
               lex' \in {lex, mine[a]}
        PROVE  AllSourced'
    <3>1. \A b \in Actors : Sourced(mine'[b]) /\ Sourced(fresh'[b])
          BY <2>4, <2>e DEF Forget
    <3>2. Sourced(chunks') /\ Sourced(dense') /\ Sourced(lex')
          BY <2>4
    <3>3. QED BY <3>1, <3>2 DEF Sourced
  <2>5. ASSUME NEW a \in Ingesters, LoadFails(a) \/ ExtractFails(a) PROVE AllSourced'
        BY <2>4, <2>5 DEF LoadFails, ExtractFails, Actors
  <2>6. ASSUME NEW a \in Ingesters, ReplaceCorpus(a) \/ AppendChunks(a) PROVE AllSourced'
    <3>1. chunks' = mine[a] /\ UNCHANGED <<dense, lex, mine, fresh>>
          BY <2>6 DEF ReplaceCorpus, AppendChunks, StoreChunks
    <3>2. QED BY <3>1 DEF Sourced, Actors
  <2>7. ASSUME NEW a \in Ingesters, BeginExtract(a) PROVE AllSourced'
    <3>1. \A b \in Actors : Sourced(fresh'[b])
          BY <2>7, NewChunksSourced DEF BeginExtract
    <3>2. QED BY <2>7, <3>1 DEF BeginExtract, Sourced
  <2>8. ASSUME NEW a \in Ingesters, ReadChunks(a) PROVE AllSourced'
    <3>1. Sourced(chunks \cup fresh[a])
          BY SourcedUnion DEF Actors
    <3>2. \A b \in Actors : Sourced(mine'[b])
          BY <2>8, <3>1 DEF ReadChunks
    <3>3. QED BY <2>8, <3>2 DEF ReadChunks, Sourced
  <2>9. CASE ReadForChange
    <3>1. PICK e \in Events : mine' = [mine EXCEPT ![Consumer] = AfterEvent(e, chunks)]
          BY <2>9 DEF ReadForChange
    <3>2. \A b \in Actors : Sourced(mine'[b])
          BY <3>1, SourcedAfterEvent
    <3>3. QED BY <2>9, <3>2 DEF ReadForChange, Sourced
  <2>10. CASE StoreChange
    <3>1. chunks' = mine[Consumer] /\ UNCHANGED <<dense, lex, fresh>>
          BY <2>10 DEF StoreChange, StoreChunks
    <3>2. mine' = mine \/ mine' = [mine EXCEPT ![Consumer] = {}]
          BY <2>10 DEF StoreChange
    <3>3. \A b \in Actors : Sourced(mine'[b])
          BY <3>2, <2>e
    <3>4. QED BY <3>1, <3>3 DEF Sourced, Actors
  <2>11. ASSUME NEW a \in Actors, PassChunks(a) PROVE AllSourced'
    <3>1. \A b \in Actors : Sourced(mine'[b])
          BY <2>11 DEF PassChunks
    <3>2. QED BY <2>11, <3>1 DEF PassChunks, Sourced
  <2>12. ASSUME NEW a \in Actors, IndexDense(a) PROVE AllSourced'
        BY <2>12 DEF IndexDense, Sourced
  <2>13. ASSUME NEW a \in Actors, IndexLex(a) PROVE AllSourced'
        BY <2>4, <2>13 DEF IndexLex
  <2>14. CASE UNCHANGED vars
        BY <2>14, <2>f DEF vars
  <2>15. QED
         BY <2>1, <2>2, <2>3, <2>5, <2>6, <2>7, <2>8, <2>9, <2>10, <2>11, <2>12, <2>13,
            <2>14
            DEF Next, IndexCorpus, IndexMultimodal, ApplyChange, Reindex
<1>3. QED BY <1>1, <1>2, TypeCorrect, PTL DEF Spec

(* A file's text is shown unredacted only to whom its front matter, as it  *)
(* was when it was read, declares it open.                                 *)
THEOREM DeclarationsKept == Spec => []RawAsDeclared
<1>1. TypeOK /\ AllSourced => RawAsDeclared
  <2> SUFFICES ASSUME TypeOK, AllSourced, NEW o \in Stored, o.source \in FrontMatters,
                      NEW s \in Readers, Evaluate(o.security, s) = "allow"
               PROVE  MayReadRaw(o.source, s)
      BY DEF RawAsDeclared
  <2>1. ~Refused(o.source) /\ o.security = Security(o.source)
        BY DEF AllSourced, Sourced, Stored
  <2>2. s \in Sessions
        BY IngestionAssumption
  <2>3. QED BY <2>1, <2>2, LoaderKeepsDeclaration
<1>2. QED BY <1>1, SourcesKept, TypeCorrect, PTL

(* Extraction declassifies nothing.                                        *)
THEOREM ExtractsKeepFootprint == Spec => []ExtractsNoMoreOpen
<1>1. AllSourced => ExtractsNoMoreOpen
  <2> SUFFICES ASSUME AllSourced, NEW o \in Stored, o.source \in Documents,
                      NEW s \in Readers
               PROVE  Evaluate(o.security, s) \in {"deny", Evaluate(o.source.security, s)}
      BY DEF ExtractsNoMoreOpen
  <2>1. o.security = [o.source.security EXCEPT !.partial_for = {}]
        BY DEF AllSourced, Sourced, Stored
  <2>2. o.source.security \in Footprints /\ s \in Sessions
        BY IngestionAssumption
  <2>3. QED BY <2>1, <2>2, LosingPartialDenies
<1>2. QED BY <1>1, SourcesKept, PTL

(* No payload is shown below a full permission on its document.            *)
THEOREM PayloadsStayWithheld == Spec => []PayloadsWithheld
<1>1. ExtractsNoMoreOpen => PayloadsWithheld
  <2> SUFFICES ASSUME ExtractsNoMoreOpen, NEW o \in dense \cup lex,
                      o.source \in Documents, NEW s \in Readers,
                      NEW shown \in Shown(o, s), shown.payload
               PROVE  Evaluate(o.source.security, s) = "allow"
      BY DEF PayloadsWithheld
  <2>1. CASE Evaluate(o.security, s) # "allow"
    <3>1. shown = [payload |-> FALSE, raw |-> FALSE]
          BY <2>1 DEF Shown
    <3>2. QED BY <3>1
  <2>2. QED BY <2>1 DEF ExtractsNoMoreOpen, Stored
<1>2. QED BY <1>1, ExtractsKeepFootprint, PTL

-----------------------------------------------------------------------------
(* A load has a text chunk of every file it found and has read, and a      *)
(* caller that has not begun to build a list holds none.                   *)
LoadSoFar ==
    \A a \in Ingesters :
        /\ pc[a] \in {"idle", "extract"} => mine[a] = {}
        /\ pc[a] = "load" =>
              /\ todo[a] \subseteq listed[a]
              /\ {o.id : o \in mine[a]} = {<<n, "text">> : n \in listed[a] \ todo[a]}

LEMMA LoadsKeepTrack == Spec => []LoadSoFar
<1>1. Init => LoadSoFar
      BY DEF Init, LoadSoFar, Actors
<1>2. TypeOK /\ LoadSoFar /\ [Next]_vars => LoadSoFar'
  <2> SUFFICES ASSUME TypeOK, LoadSoFar, [Next]_vars PROVE LoadSoFar'
      OBVIOUS
  <2> USE DEF TypeOK, LoadSoFar, Goto, Actors
  <2>1. CASE Edit
        BY <2>1 DEF Edit
  <2>2. ASSUME NEW a \in Ingesters, ListCorpus(a) PROVE LoadSoFar'
    <3>1. /\ pc[a] = "idle" /\ pc' = [pc EXCEPT ![a] = "load"] /\ UNCHANGED mine
          /\ listed'[a] = todo'[a]
          /\ \A b \in Ingesters : b # a => listed'[b] = listed[b] /\ todo'[b] = todo[b]
          BY <2>2 DEF ListCorpus
    <3>2. mine[a] = {}
          BY <3>1
    <3>3. QED BY <3>1, <3>2
  <2>3. ASSUME NEW a \in Ingesters, LoadFile(a) PROVE LoadSoFar'
    <3>1. PICK n \in todo[a] :
             /\ todo' = [todo EXCEPT ![a] = @ \ {n}]
             /\ mine' = [mine EXCEPT ![a] = @ \cup {TextChunk(n, files[n])}]
          BY <2>3 DEF LoadFile
    <3>2. pc[a] = "load" /\ pc'[a] = "load" /\ UNCHANGED listed
          BY <2>3 DEF LoadFile
    <3>3. TextChunk(n, files[n]).id = <<n, "text">>
          BY DEF TextChunk
    <3>4. {o.id : o \in mine'[a]} = {o.id : o \in mine[a]} \cup {<<n, "text">>}
          BY <3>1, <3>3
    <3>5. n \in listed[a] /\ listed[a] \ todo'[a] = (listed[a] \ todo[a]) \cup {n}
          BY <3>1, <3>2
    <3>6. {o.id : o \in mine'[a]} = {<<k, "text">> : k \in listed[a] \ todo'[a]}
          BY <3>2, <3>4, <3>5
    <3>7. \A b \in Ingesters : b # a =>
             pc'[b] = pc[b] /\ mine'[b] = mine[b] /\ todo'[b] = todo[b]
          BY <2>3, <3>1 DEF LoadFile
    <3>8. todo'[a] \subseteq listed[a]
          BY <3>1, <3>2
    <3>9. QED BY <3>2, <3>6, <3>7, <3>8
  <2>4. ASSUME NEW a \in Actors, Forget(a), pc' = [pc EXCEPT ![a] = "idle"]
        PROVE  LoadSoFar'
        BY <2>4 DEF Forget
  <2>5. ASSUME NEW a \in Ingesters, LoadFails(a) \/ ExtractFails(a) PROVE LoadSoFar'
        BY <2>4, <2>5 DEF LoadFails, ExtractFails
  <2>6. ASSUME NEW a \in Ingesters, ReplaceCorpus(a) \/ AppendChunks(a) PROVE LoadSoFar'
        BY <2>6 DEF ReplaceCorpus, AppendChunks
  <2>7. ASSUME NEW a \in Ingesters, BeginExtract(a) PROVE LoadSoFar'
        BY <2>7 DEF BeginExtract
  <2>8. ASSUME NEW a \in Ingesters, ReadChunks(a) PROVE LoadSoFar'
        BY <2>8 DEF ReadChunks
  <2>9. CASE ReadForChange
    <3>1. \A b \in Ingesters : pc'[b] = pc[b] /\ mine'[b] = mine[b]
          BY <2>9, IngestionAssumption DEF ReadForChange
    <3>2. QED BY <2>9, <3>1 DEF ReadForChange
  <2>10. CASE StoreChange
    <3>1. \A b \in Ingesters : pc'[b] = pc[b] /\ mine'[b] = mine[b]
          BY <2>10, IngestionAssumption DEF StoreChange
    <3>2. QED BY <2>10, <3>1 DEF StoreChange
  <2>11. ASSUME NEW a \in Actors, PassChunks(a) PROVE LoadSoFar'
        BY <2>11 DEF PassChunks
  <2>12. ASSUME NEW a \in Actors, IndexDense(a) PROVE LoadSoFar'
        BY <2>12 DEF IndexDense
  <2>13. ASSUME NEW a \in Actors, IndexLex(a) PROVE LoadSoFar'
        BY <2>4, <2>13 DEF IndexLex
  <2>14. CASE UNCHANGED vars
        BY <2>14 DEF vars
  <2>15. QED
         BY <2>1, <2>2, <2>3, <2>5, <2>6, <2>7, <2>8, <2>9, <2>10, <2>11, <2>12, <2>13,
            <2>14
            DEF Next, IndexCorpus, IndexMultimodal, ApplyChange, Reindex
<1>3. QED BY <1>1, <1>2, TypeCorrect, PTL DEF Spec

(* A load takes the directory over whole, as it found it, or not at all.   *)
THEOREM CorpusIsWhole == Spec => WholeCorpus
<1>1. TypeOK /\ LoadSoFar /\ [Next]_vars =>
         [\A a \in Ingesters : pc[a] = "load" /\ pc'[a] = "dense" =>
             {o.id : o \in chunks'} = {<<n, "text">> : n \in listed[a]}]_vars
  <2> SUFFICES ASSUME TypeOK, LoadSoFar, Next, NEW a \in Ingesters,
                      pc[a] = "load", pc'[a] = "dense"
               PROVE  {o.id : o \in chunks'} = {<<n, "text">> : n \in listed[a]}
      BY DEF vars
  <2> USE DEF TypeOK, Goto, Actors
  <2>1. ReplaceCorpus(a)
    <3>1. ~Edit
          BY DEF Edit
    <3>2. \A b \in Ingesters :
             /\ ~ListCorpus(b) /\ ~LoadFile(b) /\ ~LoadFails(b)
             /\ b # a => ~ReplaceCorpus(b)
             /\ ~BeginExtract(b) /\ ~ExtractFails(b) /\ ~ReadChunks(b) /\ ~AppendChunks(b)
          BY DEF ListCorpus, LoadFile, LoadFails, ReplaceCorpus, BeginExtract,
                 ExtractFails, ReadChunks, AppendChunks
    <3>3. ~ReadForChange /\ ~StoreChange
          BY IngestionAssumption DEF ReadForChange, StoreChange
    <3>4. \A b \in Actors : ~PassChunks(b) /\ ~IndexDense(b) /\ ~IndexLex(b)
          BY DEF PassChunks, IndexDense, IndexLex
    <3>5. QED BY <3>1, <3>2, <3>3, <3>4
              DEF Next, IndexCorpus, IndexMultimodal, ApplyChange, Reindex
  <2>2. todo[a] = {} /\ chunks' = mine[a]
        BY <2>1 DEF ReplaceCorpus, StoreChunks
  <2>3. {o.id : o \in mine[a]} = {<<n, "text">> : n \in listed[a] \ todo[a]}
        BY DEF LoadSoFar
  <2>4. QED BY <2>2, <2>3
<1>2. QED BY <1>1, TypeCorrect, LoadsKeepTrack, PTL DEF Spec, WholeCorpus

-----------------------------------------------------------------------------
(* Nothing lost yet: the list is the one the calls in sequence would have  *)
(* made, and who holds a list that no store has overtaken holds what its   *)
(* own call makes of the list as it is.                                    *)
InStep ==
    "chunks" \notin raced =>
        /\ chunks = book
        /\ \A a \in Ingesters :
              pc[a] = "append" /\ a \notin behind => mine[a] = chunks \cup fresh[a]
        /\ pc[Consumer] = "rewrite" /\ Consumer \notin behind =>
              \A e \in change : mine[Consumer] = AfterEvent(e, chunks)

LEMMA StepsInSequence == Spec => []InStep
<1>1. Init => InStep
      BY IngestionAssumption DEF Init, InStep, Actors
<1>2. TypeOK /\ InStep /\ [Next]_vars => InStep'
  <2> SUFFICES ASSUME TypeOK, InStep, [Next]_vars, "chunks" \notin raced'
               PROVE  InStep'
      BY DEF InStep
  <2> USE DEF TypeOK, Goto, Actors
  <2>r. "chunks" \notin raced
    <3>1. raced \subseteq raced'
          BY DEF Next, Edit, IndexCorpus, ListCorpus, LoadFile, LoadFails, ReplaceCorpus,
                 IndexMultimodal, BeginExtract, ExtractFails, ReadChunks, AppendChunks,
                 ApplyChange, ReadForChange, StoreChange, Reindex, PassChunks, IndexDense,
                 IndexLex, Race, history, vars
    <3>2. QED BY <3>1
  <2>i. /\ chunks = book
        /\ \A a \in Ingesters :
              pc[a] = "append" /\ a \notin behind => mine[a] = chunks \cup fresh[a]
        /\ pc[Consumer] = "rewrite" /\ Consumer \notin behind =>
              \A e \in change : mine[Consumer] = AfterEvent(e, chunks)
        BY <2>r DEF InStep
  <2>k. ASSUME NEW a \in Actors, chunks' = book', change' \subseteq change,
               pc'[a] \notin {"append", "rewrite"},
               \A b \in Actors : b # a => pc'[b] = pc[b] /\ mine'[b] = mine[b]
                                       /\ fresh'[b] = fresh[b],
               \/ behind' = (behind \cup Holding) \ {a}
               \/ chunks' = chunks /\ behind' = behind \ {a}
               \/ chunks' = chunks /\ behind' = behind
        PROVE  InStep'
    <3>1. CASE behind' = (behind \cup Holding) \ {a}
      <4>1. \A b \in Actors : pc'[b] \in {"append", "rewrite"} => b # a /\ b \in behind'
            BY <2>k, <3>1 DEF Holding
      <4>2. QED BY <2>k, <4>1 DEF InStep
    <3>2. CASE chunks' = chunks /\ behind' = behind \ {a}
          BY <2>k, <3>2, <2>i DEF InStep
    <3>3. CASE chunks' = chunks /\ behind' = behind
          BY <2>k, <3>3, <2>i DEF InStep
    <3>4. QED BY <2>k, <3>1, <3>2, <3>3
  <2>1. CASE Edit
        BY <2>1, <2>i DEF Edit, history, InStep
  <2>2. ASSUME NEW a \in Ingesters, ListCorpus(a) PROVE InStep'
        BY <2>2, <2>i, <2>k DEF ListCorpus, history
  <2>3. ASSUME NEW a \in Ingesters, LoadFile(a) PROVE InStep'
    <3>1. \A b \in Actors : b # a => mine'[b] = mine[b]
          BY <2>3 DEF LoadFile
    <3>2. QED BY <2>3, <3>1, <2>i, <2>k DEF LoadFile, history
  <2>4. ASSUME NEW a \in Ingesters, LoadFails(a) \/ ExtractFails(a) PROVE InStep'
        BY <2>4, <2>i, <2>k DEF LoadFails, ExtractFails, Forget, history
  <2>5. ASSUME NEW a \in Ingesters, ReplaceCorpus(a) PROVE InStep'
    <3>1. /\ chunks' = book' /\ UNCHANGED <<change, mine, fresh>>
          /\ pc' = [pc EXCEPT ![a] = "dense"] /\ behind' = (behind \cup Holding) \ {a}
          BY <2>5 DEF ReplaceCorpus, StoreChunks
    <3>2. QED BY <3>1, <2>k
  <2>6. ASSUME NEW a \in Ingesters, BeginExtract(a) PROVE InStep'
        BY <2>6, <2>i, <2>k DEF BeginExtract, history
  <2>7. ASSUME NEW a \in Ingesters, ReadChunks(a) PROVE InStep'
        BY <2>7, <2>i, IngestionAssumption DEF ReadChunks, history, InStep
  <2>8. ASSUME NEW a \in Ingesters, AppendChunks(a) PROVE InStep'
    <3>1. a \notin behind
          BY <2>8 DEF AppendChunks, Race
    <3>2. chunks' = book'
          BY <2>8, <3>1, <2>i DEF AppendChunks, StoreChunks
    <3>3. /\ UNCHANGED <<change, mine, fresh>>
          /\ pc' = [pc EXCEPT ![a] = "reindex"] /\ behind' = (behind \cup Holding) \ {a}
          BY <2>8 DEF AppendChunks, StoreChunks
    <3>4. QED BY <3>2, <3>3, <2>k
  <2>9. CASE ReadForChange
    <3>1. PICK e \in Events :
             /\ change' = {e}
             /\ mine' = [mine EXCEPT ![Consumer] = AfterEvent(e, chunks)]
          BY <2>9 DEF ReadForChange
    <3>2. UNCHANGED <<chunks, book, behind, fresh>> /\ pc' = [pc EXCEPT ![Consumer] = "rewrite"]
          BY <2>9 DEF ReadForChange, history
    <3>3. \A d \in change' : mine'[Consumer] = AfterEvent(d, chunks)
          BY <3>1
    <3>4. \A d : AfterEvent(d, chunks)' = AfterEvent(d, chunks)
          BY <3>2 DEF AfterEvent
    <3>5. \A a \in Ingesters : pc'[a] = pc[a] /\ mine'[a] = mine[a]
          BY <3>1, <3>2, IngestionAssumption
    <3>6. QED BY <3>2, <3>3, <3>5, <2>i DEF InStep
  <2>10. CASE StoreChange
    <3>1. Consumer \notin behind
          BY <2>10 DEF StoreChange, Race
    <3>2. PICK e \in change : book' = AfterEvent(e, book)
          BY <2>10 DEF StoreChange
    <3>3. pc[Consumer] = "rewrite" /\ chunks' = mine[Consumer]
          BY <2>10 DEF StoreChange, StoreChunks
    <3>4. chunks' = book'
          BY <3>1, <3>2, <3>3, <2>i
    <3>5. /\ pc'[Consumer] \notin {"append", "rewrite"}
          /\ \A b \in Actors : b # Consumer => pc'[b] = pc[b] /\ mine'[b] = mine[b]
          BY <2>10 DEF StoreChange
    <3>6. /\ change' = {} /\ UNCHANGED fresh
          /\ behind' = (behind \cup Holding) \ {Consumer}
          BY <2>10 DEF StoreChange, StoreChunks
    <3>7. QED BY <3>4, <3>5, <3>6, <2>k
  <2>11. ASSUME NEW a \in Actors, PassChunks(a) \/ IndexDense(a) PROVE InStep'
    <3>1. /\ UNCHANGED <<chunks, book, change, fresh>>
          /\ mine' = [mine EXCEPT ![a] = chunks] \/ UNCHANGED mine
          /\ pc' = [pc EXCEPT ![a] = "dense"] \/ pc' = [pc EXCEPT ![a] = "lex"]
          /\ behind' = behind \ {a} \/ behind' = behind
          BY <2>11 DEF PassChunks, IndexDense
    <3>2. chunks' = book'
          BY <3>1, <2>i
    <3>3. \A b \in Actors : b # a => pc'[b] = pc[b] /\ mine'[b] = mine[b]
          BY <3>1
    <3>4. pc'[a] \notin {"append", "rewrite"}
          BY <3>1
    <3>5. QED BY <3>1, <3>2, <3>3, <3>4, <2>k
  <2>12. ASSUME NEW a \in Actors, IndexLex(a) PROVE InStep'
    <3>1. /\ UNCHANGED <<chunks, book, change>> /\ behind' = behind \ {a}
          /\ pc' = [pc EXCEPT ![a] = "idle"]
          BY <2>12 DEF IndexLex
    <3>2. \A b \in Actors : b # a => mine'[b] = mine[b] /\ fresh'[b] = fresh[b]
          BY <2>12 DEF IndexLex, Forget
    <3>3. QED BY <3>1, <3>2, <2>i, <2>k
  <2>13. CASE UNCHANGED vars
        BY <2>13, <2>i DEF vars, history, InStep
  <2>14. QED
         BY <2>1, <2>2, <2>3, <2>4, <2>5, <2>6, <2>7, <2>8, <2>9, <2>10, <2>11, <2>12,
            <2>13
            DEF Next, IndexCorpus, IndexMultimodal, ApplyChange, Reindex
<1>3. QED BY <1>1, <1>2, TypeCorrect, PTL DEF Spec

(* Loads, extracts and changes add up to what they would in sequence, save *)
(* for a store of a list that another call's store had overtaken.          *)
THEOREM WritesAddUp == Spec => []NoLostWrite
<1>1. InStep => NoLostWrite
      BY DEF InStep, NoLostWrite
<1>2. QED BY <1>1, StepsInSequence, PTL

-----------------------------------------------------------------------------
(* An index shows the chunks when it holds them and, beside them, only     *)
(* chunks whose ids are gone.                                              *)
Shows(D, C) == C \subseteq D /\ \A o \in D \ C : \A p \in C : o.id # p.id

(* How far the indexes have followed.  Who holds a list that nobody's      *)
(* store has overtaken holds _chunks, and has put it into the vector store *)
(* before BM25; and while an index does not show the chunks, somebody is   *)
(* on the way to replace it.                                               *)
Following ==
    raced = {} =>
        /\ \A a \in Actors : a \notin behind =>
              /\ pc[a] \in {"dense", "lex"} => mine[a] = chunks
              /\ pc[a] = "lex" => dense = chunks
        /\ Shows(dense, chunks) \/ \E a \in Actors : pc[a] \in {"reindex", "dense"}
        /\ lex = dense \/ \E a \in Actors : pc[a] \in {"reindex", "dense", "lex"}

LEMMA IndexesFollow == Spec => []Following
<1>1. Init => Following
      BY DEF Init, Following, Shows
<1>2. TypeOK /\ InStep /\ Following /\ [Next]_vars => Following'
  <2> SUFFICES ASSUME TypeOK, InStep, Following, [Next]_vars, raced' = {}
               PROVE  Following'
      BY DEF Following
  <2> USE DEF TypeOK, Goto, Actors
  <2>r. raced = {}
    <3>1. raced \subseteq raced'
          BY DEF Next, Edit, IndexCorpus, ListCorpus, LoadFile, LoadFails, ReplaceCorpus,
                 IndexMultimodal, BeginExtract, ExtractFails, ReadChunks, AppendChunks,
                 ApplyChange, ReadForChange, StoreChange, Reindex, PassChunks, IndexDense,
                 IndexLex, Race, history, vars
    <3>2. QED BY <3>1
  <2>f. /\ \A a \in Actors : a \notin behind =>
              /\ pc[a] \in {"dense", "lex"} => mine[a] = chunks
              /\ pc[a] = "lex" => dense = chunks
        /\ Shows(dense, chunks) \/ \E a \in Actors : pc[a] \in {"reindex", "dense"}
        /\ lex = dense \/ \E a \in Actors : pc[a] \in {"reindex", "dense", "lex"}
        BY <2>r DEF Following
  \* A step of a before it stores, or after it gave up.
  <2>k. ASSUME NEW a \in Actors, UNCHANGED <<chunks, index, behind>>,
               pc[a] \notin {"reindex", "dense", "lex"},
               pc'[a] \notin {"reindex", "dense", "lex"},
               \A b \in Actors : b # a => pc'[b] = pc[b] /\ mine'[b] = mine[b]
        PROVE  Following'
    <3>1. Shows(dense, chunks)' = Shows(dense, chunks)
          BY <2>k DEF Shows, index
    <3>2. QED BY <2>k, <2>f, <3>1 DEF Following, index
  \* A store that a re-index follows.
  <2>s. ASSUME NEW a \in Actors, UNCHANGED index,
               behind' = (behind \cup Holding) \ {a},
               pc'[a] = "reindex" \/ (pc'[a] = "dense" /\ mine'[a] = chunks'),
               \A b \in Actors : b # a => pc'[b] = pc[b] /\ mine'[b] = mine[b]
        PROVE  Following'
    <3>1. \A b \in Actors : b # a /\ pc'[b] \in {"dense", "lex"} => b \in behind'
          BY <2>s DEF Holding
    <3>2. QED BY <2>s, <3>1 DEF Following
  <2>1. CASE Edit
    <3>1. UNCHANGED <<chunks, index, behind, pc, mine>>
          BY <2>1 DEF Edit, history
    <3>2. QED BY <3>1, <2>f DEF Following, index, Shows
  <2>2. ASSUME NEW a \in Ingesters, ListCorpus(a) PROVE Following'
        BY <2>2, <2>k DEF ListCorpus, history
  <2>3. ASSUME NEW a \in Ingesters, LoadFile(a) PROVE Following'
        BY <2>3, <2>k DEF LoadFile, history
  <2>4. ASSUME NEW a \in Ingesters, LoadFails(a) \/ ExtractFails(a) PROVE Following'
        BY <2>4, <2>k DEF LoadFails, ExtractFails, Forget, history
  <2>5. ASSUME NEW a \in Ingesters, ReplaceCorpus(a) PROVE Following'
        BY <2>5, <2>s DEF ReplaceCorpus, StoreChunks
  <2>6. ASSUME NEW a \in Ingesters, BeginExtract(a) PROVE Following'
        BY <2>6, <2>k DEF BeginExtract, history
  <2>7. ASSUME NEW a \in Ingesters, ReadChunks(a) PROVE Following'
        BY <2>7, <2>k DEF ReadChunks, history
  <2>8. ASSUME NEW a \in Ingesters, AppendChunks(a) PROVE Following'
        BY <2>8, <2>s DEF AppendChunks, StoreChunks
  <2>9. CASE ReadForChange
        BY <2>9, <2>k DEF ReadForChange, history
  <2>10. CASE StoreChange
    <3>1. Consumer \notin behind /\ pc[Consumer] = "rewrite"
          BY <2>10 DEF StoreChange, Race
    <3>2. /\ chunks' = mine[Consumer] /\ UNCHANGED index
          /\ behind' = (behind \cup Holding) \ {Consumer}
          BY <2>10 DEF StoreChange, StoreChunks
    <3>3. PICK e \in change :
             IF e.op = "upsert"
             THEN pc' = [pc EXCEPT ![Consumer] = "reindex"] /\ UNCHANGED mine
             ELSE /\ pc' = [pc EXCEPT ![Consumer] = "idle"]
                  /\ mine' = [mine EXCEPT ![Consumer] = {}]
          BY <2>10 DEF StoreChange
    <3>4. CASE e.op = "upsert"
          BY <3>2, <3>3, <3>4, <2>s
    <3>5. CASE e.op # "upsert"
      <4>1. chunks' = {o \in chunks : o.id # e.id}
            BY <3>1, <3>2, <3>5, <2>r DEF InStep, AfterEvent
      <4>2. Shows(dense, chunks) => Shows(dense, chunks)'
            BY <4>1, <3>2 DEF Shows, index
      <4>3. \A b \in Actors : b # Consumer => pc'[b] = pc[b] /\ mine'[b] = mine[b]
            BY <3>3, <3>5
      <4>4. pc'[Consumer] = "idle"
            BY <3>3, <3>5
      <4>5. \A b \in Actors : pc'[b] \in {"dense", "lex"} => b \in behind'
            BY <4>3, <4>4, <3>2 DEF Holding
      <4>6. QED BY <4>2, <4>3, <4>4, <4>5, <3>1, <3>2, <2>f DEF Following, index
    <3>6. QED BY <3>4, <3>5
  <2>11. ASSUME NEW a \in Actors, PassChunks(a) PROVE Following'
    <3>1. /\ UNCHANGED <<chunks, index>> /\ mine' = [mine EXCEPT ![a] = chunks]
          /\ pc' = [pc EXCEPT ![a] = "dense"] /\ behind' = behind \ {a}
          BY <2>11 DEF PassChunks
    <3>2. QED BY <3>1, <2>f DEF Following, index
  <2>12. ASSUME NEW a \in Actors, IndexDense(a) PROVE Following'
    <3>1. a \notin behind
          BY <2>12 DEF IndexDense, Race
    <3>2. /\ UNCHANGED <<chunks, lex, mine, behind>> /\ dense' = mine[a]
          /\ pc[a] = "dense" /\ pc' = [pc EXCEPT ![a] = "lex"]
          BY <2>12 DEF IndexDense
    <3>3. dense' = chunks'
          BY <3>1, <3>2, <2>f
    <3>4. Shows(dense, chunks)'
          BY <3>3 DEF Shows
    <3>5. QED BY <3>2, <3>3, <3>4, <2>f DEF Following
  <2>13. ASSUME NEW a \in Actors, IndexLex(a) PROVE Following'
    <3>1. a \notin behind
          BY <2>13 DEF IndexLex, Race
    <3>2. /\ UNCHANGED <<chunks, dense>> /\ lex' = mine[a] /\ behind' = behind \ {a}
          /\ pc[a] = "lex" /\ pc' = [pc EXCEPT ![a] = "idle"]
          /\ mine' = [mine EXCEPT ![a] = {}]
          BY <2>13 DEF IndexLex, Forget
    <3>3. lex' = dense' /\ dense' = chunks'
          BY <3>1, <3>2, <2>f
    <3>4. Shows(dense, chunks)'
          BY <3>3 DEF Shows
    <3>5. QED BY <3>2, <3>3, <3>4, <2>f DEF Following
  <2>14. CASE UNCHANGED vars
    <3>1. UNCHANGED <<chunks, index, behind, pc, mine>>
          BY <2>14 DEF vars, history
    <3>2. QED BY <3>1, <2>f DEF Following, index, Shows
  <2>15. QED
         BY <2>1, <2>2, <2>3, <2>4, <2>5, <2>6, <2>7, <2>8, <2>9, <2>10, <2>11, <2>12,
            <2>13, <2>14
            DEF Next, IndexCorpus, IndexMultimodal, ApplyChange, Reindex
<1>3. QED BY <1>1, <1>2, TypeCorrect, StepsInSequence, PTL DEF Spec

(* At rest both indexes hold the pipeline's chunks and no other version of *)
(* them, unless a list that another store had overtaken was stored or      *)
(* indexed.                                                                *)
THEOREM IndexesAreInStep == Spec => []IndexedAtRest
<1>1. Following => IndexedAtRest
      BY DEF Following, IndexedAtRest, Shows
<1>2. QED BY <1>1, IndexesFollow, PTL
=============================================================================
