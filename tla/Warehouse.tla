------------------------------- MODULE Warehouse -------------------------------
(***************************************************************************)
(* RAGPipeline.query_warehouse and the text-to-SQL agent under it, with    *)
(* several callers sharing one agent.  The agent's column policy is a      *)
(* field the pipeline assigns before each call; everything else a call     *)
(* keeps is local.  A drafted statement is what the gates and the masking  *)
(* can tell of it.  Names are casefolded, as mask_rows compares them.      *)
(***************************************************************************)
EXTENDS AccessControl

CONSTANTS
    Threads,
    Names,              \* column names and aliases
    AssetPool,
    SessionPool,
    Drafts,             \* statements the SQL generator may draft
    MaxBytes,           \* max_bytes_billed
    RequireFilter       \* require_partition_filter

(* The catalog asset: its footprint and the columns its policies mask.     *)
Assets == [security : Footprints, masked : SUBSET Names]

(* A result column: its key in the row, the column names the projection    *)
(* mentions, whether a star brought it, and the base columns whose values  *)
(* it really shows.                                                        *)
Outputs == [key : Names, names : SUBSET Names, star : BOOLEAN, shows : SUBSET Names]

Statements == [select : BOOLEAN, filtered : BOOLEAN, bytes : Nat, outputs : SUBSET Outputs]

ASSUME WarehouseAssumption ==
    /\ AssetPool \subseteq Assets /\ SessionPool \subseteq Sessions
    /\ AssetPool # {} /\ SessionPool # {} /\ Drafts # {}
    /\ Drafts \subseteq Statements
    /\ MaxBytes \in Nat /\ RequireFilter \in BOOLEAN
    /\ \A a \in AssetPool : a.security.partial_for = {}

VARIABLES
    columns,    \* agent.columns: the names it masks, shared by all callers
    pc,
    session,
    asset,
    mask,       \* the mask flag of the call
    draft,      \* the drafted statement
    rows,       \* the columns of the result as they are
    writer,     \* history: the caller who assigned agent.columns last
    foreign     \* history: callers who masked by another caller's columns

vars == <<columns, pc, session, asset, mask, draft, rows, writer, foreign>>

(* An agent is built with no policy, or with that of an asset.             *)
Policies == {{}} \cup {a.masked : a \in AssetPool}

Decision(t) == Evaluate(asset[t].security, session[t])

(* A mutant: the keys of the row alone decide.                             *)
KeysInPolicy(outputs, policy) == policy

(* The projection's names are all there is to tell its source by.          *)
RedactedKeys(outputs, policy) ==
    IF policy = {} THEN {}
    ELSE policy \cup
         {o.key : o \in {p \in outputs : ~p.star /\ (p.names = {} \/ ~Disjoint(p.names, policy))}}

MaskRows(outputs, policy) ==
    {IF o.key \in RedactedKeys(outputs, policy) THEN [o EXCEPT !.shows = {}] ELSE o : o \in outputs}

Init ==
    /\ columns \in Policies
    /\ pc = [t \in Threads |-> "idle"]
    /\ session \in [Threads -> SessionPool] /\ asset \in [Threads -> AssetPool]
    /\ mask = [t \in Threads |-> TRUE]
    /\ draft \in [Threads -> Drafts]
    /\ rows = [t \in Threads |-> {}]
    /\ writer = {} /\ foreign = {}

Goto(t, from, to) == pc[t] = from /\ pc' = [pc EXCEPT ![t] = to]

-----------------------------------------------------------------------------
(* query_warehouse: a denied session ends the call before any SQL.         *)
Ask(t) ==
    /\ pc[t] \in {"idle", "denied", "refused", "answered"}
    /\ \E s \in SessionPool : session' = [session EXCEPT ![t] = s]
    /\ \E a \in AssetPool : asset' = [asset EXCEPT ![t] = a]
    /\ pc' = [pc EXCEPT ![t] = IF Decision(t)' = "deny" THEN "denied" ELSE "assign"]
    /\ mask' = [mask EXCEPT ![t] = Decision(t)' # "allow"]
    /\ rows' = [rows EXCEPT ![t] = {}]
    /\ writer' = writer \ {t} /\ foreign' = foreign \ {t}
    /\ UNCHANGED <<columns, draft>>

Assign(t) ==
    /\ Goto(t, "assign", "draft")
    /\ columns' = asset[t].masked
    /\ writer' = {t}
    /\ UNCHANGED <<session, asset, mask, draft, rows, foreign>>

(* The agent drafts, and passes only a single read-only SELECT.            *)
DraftSql(t) ==
    /\ Goto(t, "draft", "guard")
    /\ \E d \in Drafts : d.select /\ draft' = [draft EXCEPT ![t] = d]
    /\ UNCHANGED <<columns, session, asset, mask, rows, writer, foreign>>

(* A mutant: the filter is asked for only where the bytes exceed the cap.  *)
GuardEither(t) ==
    /\ Goto(t, "guard", "execute")
    /\ draft[t].select
    /\ (RequireFilter /\ ~draft[t].filtered) => draft[t].bytes <= MaxBytes
    /\ UNCHANGED <<columns, session, asset, mask, draft, rows, writer, foreign>>

(* GuardedBigQuery.run up to the execution.                                *)
Guard(t) ==
    /\ Goto(t, "guard", "execute")
    /\ draft[t].select
    /\ RequireFilter => draft[t].filtered
    /\ draft[t].bytes <= MaxBytes
    /\ UNCHANGED <<columns, session, asset, mask, draft, rows, writer, foreign>>

Execute(t) ==
    /\ Goto(t, "execute", "mask")
    /\ rows' = [rows EXCEPT ![t] = draft[t].outputs]
    /\ UNCHANGED <<columns, session, asset, mask, draft, writer, foreign>>

(* A gate, a guard, a generator or the client raises: no answer.           *)
Refuse(t) ==
    /\ \/ Goto(t, "draft", "refused")
       \/ Goto(t, "guard", "refused")
       \/ Goto(t, "execute", "refused")
       \/ Goto(t, "answer", "refused")
    /\ UNCHANGED <<columns, session, asset, mask, draft, rows, writer, foreign>>

(* A mutant: the flag is not looked at.                                    *)
MaskAlways(t) ==
    /\ Goto(t, "mask", "answer")
    /\ rows' = [rows EXCEPT ![t] = MaskRows(@, columns)]
    /\ foreign' = IF t \in writer THEN foreign ELSE foreign \cup {t}
    /\ UNCHANGED <<columns, session, asset, mask, draft, writer>>

(* mask_rows, by the policy the agent holds now.                           *)
Mask(t) ==
    /\ Goto(t, "mask", "answer")
    /\ rows' = [rows EXCEPT ![t] = IF mask[t] THEN MaskRows(@, columns) ELSE @]
    /\ foreign' = IF t \in writer THEN foreign ELSE foreign \cup {t}
    /\ UNCHANGED <<columns, session, asset, mask, draft, writer>>

(* The answer is generated from the masked rows.                           *)
Answer(t) ==
    /\ Goto(t, "answer", "answered")
    /\ UNCHANGED <<columns, session, asset, mask, draft, rows, writer, foreign>>

Call(t) ==
    \/ Ask(t) \/ Assign(t) \/ DraftSql(t) \/ Guard(t) \/ Execute(t)
    \/ Refuse(t) \/ Mask(t) \/ Answer(t)

Next == \E t \in Threads : Call(t)

Spec == Init /\ [][Next]_vars

-----------------------------------------------------------------------------
TypeOK ==
    /\ columns \in Policies
    /\ pc \in [Threads -> {"idle", "denied", "refused", "answered", "assign", "draft",
                           "guard", "execute", "mask", "answer"}]
    /\ session \in [Threads -> SessionPool] /\ asset \in [Threads -> AssetPool]
    /\ mask \in [Threads -> BOOLEAN] /\ draft \in [Threads -> Drafts]
    /\ rows \in [Threads -> SUBSET Outputs]
    /\ writer \in SUBSET Threads /\ foreign \in SUBSET Threads

(* A call that has run its statement, or holds rows, ran one read-only     *)
(* SELECT with its partition filter and under the byte cap, for a session  *)
(* the asset is not denied to.                                             *)
OnlyGuardedRuns ==
    \A t \in Threads :
        pc[t] \in {"mask", "answer", "answered"} \/ rows[t] # {} =>
            /\ Decision(t) # "deny"
            /\ draft[t].select /\ draft[t].bytes <= MaxBytes
            /\ RequireFilter => draft[t].filtered

(* The projection mentions the base columns it shows; one over a derived   *)
(* table that renames them does not.                                       *)
Traceable(o) == IF o.star THEN o.shows \subseteq {o.key} ELSE o.shows \subseteq o.names

(* The model that words the answer sees no masked column of the asset      *)
(* asked for, under any alias or in any expression, if the session may     *)
(* only see it masked - as long as the statement names its columns and no  *)
(* other call set the shared policy in between.                            *)
MaskedColumnsHidden ==
    \A t \in Threads :
        pc[t] \in {"answer", "answered"} /\ Decision(t) # "allow" /\ t \notin foreign =>
            \A o \in rows[t] : Traceable(o) => Disjoint(o.shows, asset[t].masked)

(* Whoever may read the asset gets it unmasked, whatever the other calls   *)
(* do to the shared policy.                                                *)
ClearedSeesRaw ==
    \A t \in Threads :
        pc[t] \in {"answer", "answered"} /\ Decision(t) = "allow" => rows[t] = draft[t].outputs
=============================================================================
