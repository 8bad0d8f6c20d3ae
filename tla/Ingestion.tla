------------------------------ MODULE Ingestion ------------------------------
(***************************************************************************)
(* How text gets into one RAGPipeline: index_corpus loads a directory of   *)
(* files whose front matter declares who may read them, index_multimodal   *)
(* appends what an extractor finds in a document, apply_change rewrites a  *)
(* chunk from a change event.  All three replace the list _chunks by one   *)
(* computed from an earlier read, and then replace both indexes; nothing   *)
(* takes a lock.                                                           *)
(*                                                                         *)
(* A document is one text chunk and at most one extracted chunk; its text  *)
(* and payload are abstracted to the declaration they were published       *)
(* under, kept in the chunk's "source" (Changed for a rewritten row).      *)
(***************************************************************************)
EXTENDS AccessControl

CONSTANTS
    Names,          \* documents, in the order of their file names
    Upper,          \* strip().upper() on the class spellings that occur
    FrontMatters,   \* declarations that occur in files
    Corpus,         \* the files in the directory at the start
    Documents,      \* those handed to index_multimodal: [doc_id, security]
    Events,         \* change events: [id, version, op, security]
    Readers,        \* sessions the properties quantify over
    NoFile, Changed,
    Ingesters,      \* callers of index_corpus and index_multimodal
    Consumer,       \* the caller of apply_change
    MaxCalls,       \* bound of the model: calls the ingesters start
    MaxEdits        \* bound of the model: changes of the corpus directory

FrontMatter ==
    [keys               : SUBSET {"allowed_roles", "clearance_level"},
     allowed_roles      : SUBSET Roles,
     clearance_level    : Int,
     sensitivity_class  : DOMAIN Upper,
     need_to_know_roles : SUBSET Roles,
     partial_for        : SUBSET Roles]

Ids == Names \X {"text", "extract"}

ASSUME IngestionAssumption ==
    /\ Names \subseteq Nat /\ "PUBLIC" \in Roles
    /\ Upper \in [DOMAIN Upper -> STRING]
    /\ FrontMatters \subseteq FrontMatter /\ Documents \subseteq [doc_id : Names, security : Footprints]
    /\ Corpus \in [Names -> FrontMatters \cup {NoFile}]
    /\ Events \subseteq [id : Ids, version : Nat, op : {"upsert", "delete"},
                         security : Footprints]
    /\ Readers \subseteq Sessions
    /\ NoFile \notin FrontMatters /\ FrontMatters \cap Documents = {}
    /\ Changed \notin FrontMatters \cup Documents
    /\ Consumer \notin Ingesters
    /\ MaxCalls \in Nat /\ MaxEdits \in Nat

Actors  == Ingesters \cup {Consumer}
Sources == FrontMatters \cup Documents \cup {Changed}
Objects == [id : Ids, security : Footprints, payload : BOOLEAN, source : Sources]

VARIABLES
    files,      \* the corpus directory
    chunks,     \* pipeline._chunks
    dense, lex, \* what the vector store and the BM25 index were last given
    pc,
    listed,     \* listed[a]: the files the load of a found
    todo,       \* todo[a]: those it has still to read
    fresh,      \* fresh[a]: the chunks its extraction produced
    mine,       \* mine[a]: the list it is about to store or to index
    change,     \* the event being applied, as {} or {event}
    applied,    \* _applied_version, 0 where the dict has no entry
    calls, edits,
    book,       \* history: _chunks, had every call replaced it in one step
    behind,     \* history: actors whose list predates another's write
    raced       \* history: "chunks", "indexes" once such a list was stored

index   == <<dense, lex>>
bounds  == <<calls, edits>>
history == <<book, behind, raced>>
vars    == <<files, chunks, index, pc, listed, todo, fresh, mine, change, applied,
             bounds, history>>

-----------------------------------------------------------------------------
(* The loader, file by file: MarkdownLoader.load.                           *)

(* A key the front matter leaves out has its default.                      *)
Level(m) == IF "clearance_level" \in m.keys THEN m.clearance_level ELSE 0
Acl(m)   == IF "allowed_roles" \in m.keys THEN m.allowed_roles ELSE {}
Class(m) == Upper[m.sensitivity_class]

(* A mutant: PII is accepted at any level.                                 *)
RefusedButPii(m) ==
    \/ m.keys = {}
    \/ Class(m) \notin ValidClasses \cup {""}
    \/ Level(m) \notin Clearances

(* A mutant: the level is taken as it is.                                  *)
RefusedButLevel(m) ==
    \/ m.keys = {}
    \/ Class(m) \notin ValidClasses \cup {""}
    \/ Class(m) = PiiClass /\ Level(m) < 2

(* No security keys, an unknown class, PII below level 2; SecurityContext  *)
(* refuses a level outside its range.                                      *)
Refused(m) ==
    \/ m.keys = {}
    \/ Class(m) \notin ValidClasses \cup {""}
    \/ Class(m) = PiiClass /\ Level(m) < 2
    \/ Level(m) \notin Clearances

Security(m) ==
    [clearance_level    |-> Level(m),
     allowed_roles      |-> IF Acl(m) = {} THEN {"PUBLIC"} ELSE Acl(m),
     sensitivity_class  |-> Class(m),
     need_to_know_roles |-> m.need_to_know_roles,
     partial_for        |-> m.partial_for]

(* chunk_document: the chunks of a document carry its footprint.           *)
TextChunk(n, m) ==
    [id |-> <<n, "text">>, security |-> Security(m), payload |-> FALSE, source |-> m]

(* A mutant: the extract gets a default SecurityContext.                   *)
MintedExtract(doc) ==
    [id |-> <<doc.doc_id, "extract">>, payload |-> TRUE, source |-> doc,
     security |-> [clearance_level |-> 0, allowed_roles |-> {}, sensitivity_class |-> "",
                   need_to_know_roles |-> {}, partial_for |-> {}]]

(* _inherit_chunk: the document's SecurityContext, not its metadata, where *)
(* partial_for is; the raw payload goes into the chunk's own metadata.     *)
Extract(doc) ==
    [id |-> <<doc.doc_id, "extract">>, payload |-> TRUE, source |-> doc,
     security |-> [doc.security EXCEPT !.partial_for = {}]]

(* _InMemStore.upsert_chunk: a text chunk made of the event's row, which   *)
(* has no payload and no partial_for.                                      *)
Rewritten(e) ==
    [id |-> e.id, security |-> [e.security EXCEPT !.partial_for = {}],
     payload |-> FALSE, source |-> Changed]

AfterEvent(e, S) ==
    {o \in S : o.id # e.id} \cup (IF e.op = "upsert" THEN {Rewritten(e)} ELSE {})

-----------------------------------------------------------------------------
Init ==
    /\ files = Corpus
    /\ chunks = {} /\ dense = {} /\ lex = {}
    /\ pc = [a \in Actors |-> "idle"]
    /\ listed = [a \in Actors |-> {}] /\ todo = [a \in Actors |-> {}]
    /\ fresh = [a \in Actors |-> {}] /\ mine = [a \in Actors |-> {}]
    /\ change = {} /\ applied = [i \in Ids |-> 0]
    /\ calls = 0 /\ edits = 0
    /\ book = {} /\ behind = {} /\ raced = {}

(* Someone edits the corpus directory.                                     *)
Edit ==
    /\ edits < MaxEdits /\ edits' = edits + 1
    /\ \E n \in Names : \E m \in FrontMatters \cup {NoFile} :
         files' = [files EXCEPT ![n] = m]
    /\ UNCHANGED <<chunks, index, pc, listed, todo, fresh, mine, change, applied,
                   calls, history>>

Goto(a, from, to) == pc[a] = from /\ pc' = [pc EXCEPT ![a] = to]

(* What the call of a held is gone once it returns.                        *)
Forget(a) ==
    /\ listed' = [listed EXCEPT ![a] = {}] /\ todo' = [todo EXCEPT ![a] = {}]
    /\ fresh' = [fresh EXCEPT ![a] = {}] /\ mine' = [mine EXCEPT ![a] = {}]

(* Whoever holds a list taken from _chunks.                                *)
Holding == {a \in Actors : pc[a] \in {"append", "rewrite", "dense", "lex"}}

(* a stores S: the lists the others hold are old from now on, its own new. *)
StoreChunks(a, S) ==
    /\ chunks' = S
    /\ behind' = (behind \cup Holding) \ {a}

Race(a, what) == raced' = IF a \in behind THEN raced \cup {what} ELSE raced

-----------------------------------------------------------------------------
(* index_corpus: glob, read and check each file, replace everything.        *)

ListCorpus(a) ==
    /\ calls < MaxCalls /\ calls' = calls + 1
    /\ Goto(a, "idle", "load")
    /\ LET found == {n \in Names : files[n] # NoFile}
       IN  /\ listed' = [listed EXCEPT ![a] = found]
           /\ todo' = [todo EXCEPT ![a] = found]
    /\ UNCHANGED <<files, chunks, index, fresh, mine, change, applied, edits, history>>

Foremost(n, S) == n \in S /\ \A k \in S : n <= k

Readable(n) == files[n] # NoFile /\ ~Refused(files[n])

LoadFile(a) ==
    /\ Goto(a, "load", "load")
    /\ \E n \in todo[a] :
         /\ Foremost(n, todo[a]) /\ Readable(n)
         /\ todo' = [todo EXCEPT ![a] = @ \ {n}]
         /\ mine' = [mine EXCEPT ![a] = @ \cup {TextChunk(n, files[n])}]
    /\ UNCHANGED <<files, chunks, index, listed, fresh, change, applied, bounds, history>>

(* A mutant: a refused file is skipped, and the load goes on.              *)
SkipFile(a) ==
    /\ Goto(a, "load", "load")
    /\ \E n \in todo[a] :
         /\ Foremost(n, todo[a]) /\ ~Readable(n)
         /\ todo' = [todo EXCEPT ![a] = @ \ {n}]
    /\ UNCHANGED <<files, chunks, index, listed, fresh, mine, change, applied, bounds,
                   history>>

(* A refused file, or one that is gone since the glob, fails the load.     *)
LoadFails(a) ==
    /\ Goto(a, "load", "idle")
    /\ \E n \in todo[a] : Foremost(n, todo[a]) /\ ~Readable(n)
    /\ Forget(a)
    /\ UNCHANGED <<files, chunks, index, change, applied, bounds, history>>

ReplaceCorpus(a) ==
    /\ Goto(a, "load", "dense")
    /\ todo[a] = {}
    /\ StoreChunks(a, mine[a])
    /\ book' = mine[a]
    /\ UNCHANGED <<files, index, listed, todo, fresh, mine, change, applied, bounds, raced>>

-----------------------------------------------------------------------------
(* index_multimodal.                                                        *)

BeginExtract(a) ==
    /\ calls < MaxCalls /\ calls' = calls + 1
    /\ Goto(a, "idle", "extract")
    /\ \E doc \in Documents : fresh' = [fresh EXCEPT ![a] = {Extract(doc)}]
    /\ UNCHANGED <<files, chunks, index, listed, todo, mine, change, applied, edits, history>>

(* guarded_extract: too large a payload, or a crash, yields no chunks.     *)
ExtractFails(a) ==
    /\ Goto(a, "extract", "idle")
    /\ Forget(a)
    /\ UNCHANGED <<files, chunks, index, change, applied, bounds, history>>

(* list(self._chunks) + list(mm_chunks): the read.                         *)
ReadChunks(a) ==
    /\ Goto(a, "extract", "append")
    /\ mine' = [mine EXCEPT ![a] = chunks \cup fresh[a]]
    /\ UNCHANGED <<files, chunks, index, listed, todo, fresh, change, applied, bounds, history>>

(* A mutant: the extract replaces the list instead of joining it.          *)
StoreExtractAlone(a) ==
    /\ Goto(a, "append", "reindex")
    /\ StoreChunks(a, fresh[a])
    /\ Race(a, "chunks")
    /\ book' = book \cup fresh[a]
    /\ UNCHANGED <<files, index, listed, todo, fresh, mine, change, applied, bounds>>

AppendChunks(a) ==
    /\ Goto(a, "append", "reindex")
    /\ StoreChunks(a, mine[a])
    /\ Race(a, "chunks")
    /\ book' = book \cup fresh[a]
    /\ UNCHANGED <<files, index, listed, todo, fresh, mine, change, applied, bounds>>

-----------------------------------------------------------------------------
(* apply_change, on the pipeline's own store adapter.  A stale event is     *)
(* dropped without effect; only a newer one is a step.                      *)

ReadForChange ==
    /\ Goto(Consumer, "idle", "rewrite")
    /\ \E e \in Events :
         /\ e.version > applied[e.id]
         /\ change' = {e}
         /\ mine' = [mine EXCEPT ![Consumer] = AfterEvent(e, chunks)]
    /\ UNCHANGED <<files, chunks, index, listed, todo, fresh, applied, bounds, history>>

(* The store write, then the recorded version.  A delete ends here.        *)
StoreChange ==
    /\ pc[Consumer] = "rewrite"
    /\ StoreChunks(Consumer, mine[Consumer])
    /\ Race(Consumer, "chunks")
    /\ \E e \in change :
         /\ book' = AfterEvent(e, book)
         /\ applied' = [applied EXCEPT ![e.id] = e.version]
         /\ IF e.op = "upsert"
            THEN pc' = [pc EXCEPT ![Consumer] = "reindex"] /\ UNCHANGED mine
            ELSE /\ pc' = [pc EXCEPT ![Consumer] = "idle"]
                 /\ mine' = [mine EXCEPT ![Consumer] = {}]
    /\ change' = {}
    /\ UNCHANGED <<files, index, listed, todo, fresh, bounds>>

-----------------------------------------------------------------------------
(* retriever.index: the caller reads _chunks again, then the vector store   *)
(* is replaced, then the BM25 index.                                        *)

PassChunks(a) ==
    /\ Goto(a, "reindex", "dense")
    /\ mine' = [mine EXCEPT ![a] = chunks]
    /\ behind' = behind \ {a}
    /\ UNCHANGED <<files, chunks, index, listed, todo, fresh, change, applied, bounds,
                   book, raced>>

IndexDense(a) ==
    /\ Goto(a, "dense", "lex")
    /\ dense' = mine[a]
    /\ Race(a, "indexes")
    /\ UNCHANGED <<files, chunks, lex, listed, todo, fresh, mine, change, applied, bounds,
                   book, behind>>

(* A mutant: the BM25 index is left as it was.                             *)
SkipLex(a) ==
    /\ Goto(a, "lex", "idle")
    /\ Forget(a)
    /\ Race(a, "indexes")
    /\ behind' = behind \ {a}
    /\ UNCHANGED <<files, chunks, index, change, applied, bounds, book>>

IndexLex(a) ==
    /\ Goto(a, "lex", "idle")
    /\ lex' = mine[a]
    /\ Forget(a)
    /\ Race(a, "indexes")
    /\ behind' = behind \ {a}
    /\ UNCHANGED <<files, chunks, dense, change, applied, bounds, book>>

-----------------------------------------------------------------------------
IndexCorpus(a)     == ListCorpus(a) \/ LoadFile(a) \/ LoadFails(a) \/ ReplaceCorpus(a)
IndexMultimodal(a) == BeginExtract(a) \/ ExtractFails(a) \/ ReadChunks(a) \/ AppendChunks(a)
ApplyChange        == ReadForChange \/ StoreChange
Reindex(a)         == PassChunks(a) \/ IndexDense(a) \/ IndexLex(a)

Next ==
    \/ Edit
    \/ \E a \in Ingesters : IndexCorpus(a) \/ IndexMultimodal(a)
    \/ ApplyChange
    \/ \E a \in Actors : Reindex(a)

Spec == Init /\ [][Next]_vars

-----------------------------------------------------------------------------
CallPcs == {"idle", "load", "extract", "append", "rewrite", "reindex", "dense", "lex"}

TypeOK ==
    /\ files \in [Names -> FrontMatters \cup {NoFile}]
    /\ chunks \in SUBSET Objects /\ dense \in SUBSET Objects /\ lex \in SUBSET Objects
    /\ pc \in [Actors -> CallPcs]
    /\ listed \in [Actors -> SUBSET Names] /\ todo \in [Actors -> SUBSET Names]
    /\ fresh \in [Actors -> SUBSET Objects] /\ mine \in [Actors -> SUBSET Objects]
    /\ change \in SUBSET Events /\ applied \in [Ids -> Nat]
    /\ calls \in Nat /\ edits \in Nat
    /\ book \in SUBSET Objects /\ behind \in SUBSET Actors
    /\ raced \in SUBSET {"chunks", "indexes"}

Stored == chunks \cup dense \cup lex

(* What a file's author declared: PII is for level 4, the level and the    *)
(* need-to-know are minima, and an unclassed text is for its listed roles. *)
(* Level 0 with PUBLIC, or with no role listed, is for everybody.          *)
DeclaredPublic(m) == Level(m) = 0 /\ (Acl(m) = {} \/ "PUBLIC" \in Acl(m))

MayReadRaw(m, s) ==
    /\ m.keys # {}
    /\ Class(m) \in ValidClasses \cup {""}
    /\ Class(m) = PiiClass => s.clearance_level >= 4
    /\ Class(m) # PiiClass =>
          \/ DeclaredPublic(m)
          \/ /\ s.clearance_level >= Level(m)
             /\ m.need_to_know_roles = {} \/ ~Disjoint(m.need_to_know_roles, s.roles)
             /\ \/ Class(m) # ""
                \/ Acl(m) = {} /\ "PUBLIC" \in s.roles
                \/ ~Disjoint(Acl(m), s.roles)

(* Whatever front matter was on disk when a load read it, and however the  *)
(* loads interleave: a session is shown a file's text unredacted only as   *)
(* the file declares.  What no session may be shown is never stored.       *)
RawAsDeclared ==
    \A o \in Stored : o.source \in FrontMatters =>
        \A s \in Readers : Evaluate(o.security, s) = "allow" => MayReadRaw(o.source, s)

(* extract.py, "no declassification by extraction": what a session may see *)
(* of an extract is what it may see of the document, or nothing.  It loses *)
(* the scoped access that partial_for gave it.                             *)
ExtractsNoMoreOpen ==
    \A o \in Stored : o.source \in Documents =>
        \A s \in Readers :
            Evaluate(o.security, s) \in {"deny", Evaluate(o.source.security, s)}

(* A mutant: the metadata of a redacted chunk is copied whatever it is.    *)
ShownWithMetadata(o, s) ==
    IF Evaluate(o.security, s) = "deny" THEN {}
    ELSE {[payload |-> o.payload, raw |-> Evaluate(o.security, s) = "allow"]}

(* SecurityFilter.apply and redact_chunk: a denied chunk is dropped, and   *)
(* of one that is not simply allowed neither text nor payload is left.     *)
Shown(o, s) ==
    IF Evaluate(o.security, s) = "deny" THEN {}
    ELSE LET raw == Evaluate(o.security, s) = "allow"
         IN  {[payload |-> o.payload /\ raw, raw |-> raw]}

(* Raw bytes that can be retrieved are shown only to sessions that the     *)
(* document they were extracted from allows in full.                       *)
PayloadsWithheld ==
    \A o \in dense \cup lex : o.source \in Documents =>
        \A s \in Readers : \A shown \in Shown(o, s) :
            shown.payload => Evaluate(o.source.security, s) = "allow"

(* The list is what the calls, each in one step, would have made of it:    *)
(* a load, an extract or a change is lost or undone only when some call    *)
(* stored a list it had computed before another call's store.              *)
NoLostWrite == "chunks" \notin raced => chunks = book

(* At rest both indexes hold the pipeline's chunks, and no other chunk     *)
(* under an id that is still there - unless an old list was stored or      *)
(* indexed.                                                                *)
IndexedAtRest ==
    (\A a \in Actors : pc[a] = "idle") /\ raced = {} =>
        /\ dense = lex /\ chunks \subseteq dense
        /\ \A o \in dense \ chunks : \A p \in chunks : o.id # p.id

(* A corpus is taken over whole or not at all: when a load replaces the    *)
(* chunks, every file it found has its text there and nothing else has.    *)
WholeCorpus ==
    [][\A a \in Ingesters : pc[a] = "load" /\ pc'[a] = "dense" =>
           {o.id : o \in chunks'} = {<<n, "text">> : n \in listed[a]}]_vars
=============================================================================
