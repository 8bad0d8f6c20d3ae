----------------------------- MODULE EstateProofs -----------------------------
(***************************************************************************)
(* Theorems of the estate the seeds register, of the copies the demo       *)
(* serves, and of the jobs that carry any sequence of releases to the      *)
(* server.                                                                 *)
(***************************************************************************)
EXTENDS EstateLoad, TLAPS

LEMMA MatrixTypes ==
    \A c \in ValidClasses : /\ MinLevel[c] \in Nat
                            /\ c # "A" => MinLevel[c] > 0
                            /\ c = "A" => MinLevel[c] = 0 /\ NeedToKnow[c] = {}
BY DEF MinLevel, NeedToKnow, ValidClasses

(* A row whose level fits its class, rebuilt as a footprint, is decided as *)
(* the seeds' matrix decides its class, or denied.                         *)
LEMMA RowNeverMoreOpen ==
    ASSUME NEW row, row.cls \in ValidClasses, row.level \in Int, LevelFitsClass(row),
           NEW s \in Sessions
    PROVE  Evaluate(Security(row), s) \in {EvaluateClass(row.cls, s), "deny"}
<1> DEFINE chunk == Security(row)
<1>1. /\ chunk.clearance_level = row.level
      /\ chunk.allowed_roles = NeedToKnow[row.cls]
      /\ chunk.sensitivity_class = row.cls
      /\ chunk.need_to_know_roles = NeedToKnow[row.cls]
      /\ chunk.partial_for = {}
      BY DEF Security
<1>2. ~Unrecognised(chunk) /\ row.cls # ""
      BY <1>1 DEF Unrecognised, ValidClasses
<1>3. s.clearance_level \in Int /\ s.clearance_level >= 0
      BY DEF Sessions, Clearances
<1> HIDE DEF chunk
<1>4. CASE row.cls = "A"
  <2>1. EvaluateClass(row.cls, s) = "allow"
        BY <1>3, <1>4, MatrixTypes DEF EvaluateClass, PiiClass
  <2>2. Evaluate(chunk, s) \in {"allow", "deny"}
        BY <1>1, <1>2, <1>4, MatrixTypes DEF Evaluate, PiiClass
  <2>3. QED BY <2>1, <2>2 DEF chunk
<1>5. CASE row.cls # "A"
  <2>1. row.level > 0
        BY <1>5, MatrixTypes DEF LevelFitsClass
  <2>2. ~IsPublic(chunk)
        BY <1>1, <2>1 DEF IsPublic
  <2>3. CASE row.cls = PiiClass
        BY <1>1, <1>2, <2>2, <2>3 DEF Evaluate, EvaluateClass, chunk
  <2>4. CASE row.cls # PiiClass /\ s.clearance_level < row.level
        BY <1>1, <1>2, <2>2, <2>4 DEF Evaluate, chunk
  <2>5. CASE row.cls # PiiClass /\ ~(s.clearance_level < row.level)
    <3>1. ~(s.clearance_level < MinLevel[row.cls])
          BY <1>3, <2>5, MatrixTypes DEF LevelFitsClass
    <3>2. ScopedDecision(chunk, s) = "deny"
          BY <1>1 DEF ScopedDecision, Disjoint
    <3>3. Evaluate(chunk, s) = IF /\ NeedToKnow[row.cls] # {}
                                  /\ Disjoint(NeedToKnow[row.cls], s.roles)
                               THEN "deny" ELSE "allow"
          BY <1>1, <1>2, <2>2, <2>5, <3>2 DEF Evaluate
    <3>4. QED BY <2>5, <3>1, <3>3 DEF EvaluateClass, chunk
  <2>6. QED BY <2>3, <2>4, <2>5
<1>6. QED BY <1>4, <1>5

LEMMA ClassDecisions ==
    ASSUME NEW c, NEW s PROVE EvaluateClass(c, s) \in Decisions
BY DEF EvaluateClass, PiiDecision, Decisions

(* The same of a catalog entry, as the oracle's grid compares decisions.   *)
LEMMA FootprintNeverMoreOpen ==
    ASSUME NEW spec, spec.cls \in ValidClasses, spec.level \in Int, LevelFitsClass(spec),
           NEW s \in Sessions
    PROVE  ~Leaked(CatalogFootprint(spec), spec.cls, s)
<1>1. CatalogFootprint(spec) = Security(spec)
      BY DEF CatalogFootprint, Security
<1>2. Evaluate(CatalogFootprint(spec), s) \in {EvaluateClass(spec.cls, s), "deny"}
      BY <1>1, RowNeverMoreOpen
<1>3. QED BY <1>2, ClassDecisions DEF Leaked, Reveal, Decisions

-----------------------------------------------------------------------------
LEMMA EstateLevels ==
    ASSUME NEW a \in DOMAIN Estate
    PROVE  /\ Estate[a].cls \in ValidClasses /\ Estate[a].level \in Clearances
           /\ LevelFitsClass(Estate[a])
<1> DEFINE Fits(spec) == /\ spec.cls \in ValidClasses /\ spec.level \in Clearances
                         /\ LevelFitsClass(spec)
<1>1. \A mode, pii : /\ Fits(Asset("A", 0, mode, pii)) /\ Fits(Asset("B", 1, mode, pii))
                     /\ Fits(Asset("C", 2, mode, pii)) /\ Fits(Asset("L", 2, mode, pii))
                     /\ Fits(Asset("D", 1, mode, pii)) /\ Fits(Asset("D", 3, mode, pii))
                     /\ Fits(Asset("D", 4, mode, pii)) /\ Fits(Asset("K", 3, mode, pii))
      BY DEF Asset, ValidClasses, Clearances, LevelFitsClass, MinLevel, PiiClass
<1>2. \A mode, pii : /\ Fits(Asset("E", 4, mode, pii)) /\ Fits(Asset("G", 4, mode, pii))
                     /\ Fits(Asset("H", 4, mode, pii)) /\ Fits(Asset("J", 4, mode, pii))
                     /\ Fits(Asset("F", 5, mode, pii)) /\ Fits(Asset("I", 5, mode, pii))
                     /\ Fits(Asset("M", 5, mode, pii)) /\ Fits(Asset("N", 5, mode, pii))
      BY DEF Asset, ValidClasses, Clearances, LevelFitsClass, MinLevel, PiiClass
<1> HIDE DEF Fits
<1>3. /\ Fits(benefits_enrollment) /\ Fits(crm_pipeline) /\ Fits(expense_reports)
      /\ Fits(prerelease_financials) /\ Fits(hr_records) /\ Fits(legacy_mart_tbl_44)
      /\ Fits(legacy_mart_tbl_71) /\ Fits(legal_memos) /\ Fits(payments_ledger)
      BY <1>1, <1>2 DEF benefits_enrollment, crm_pipeline, expense_reports,
                        prerelease_financials, hr_records, legacy_mart_tbl_44,
                        legacy_mart_tbl_71, legal_memos, payments_ledger
<1>4. /\ Fits(payroll_runs) /\ Fits(procurement_graph) /\ Fits(recruiting_ats)
      /\ Fits(security_incidents) /\ Fits(slack_messages) /\ Fits(support_tickets)
      /\ Fits(tax_filings) /\ Fits(telemetry_logs) /\ Fits(it_tickets)
      BY <1>1, <1>2 DEF payroll_runs, procurement_graph, recruiting_ats, security_incidents,
                        slack_messages, support_tickets, tax_filings, telemetry_logs, it_tickets
<1>5. /\ Fits(treasury_positions) /\ Fits(tpcds_store_sales) /\ Fits(nyc_tlc_trips)
      /\ Fits(gdelt_events) /\ Fits(common_crawl) /\ Fits(sec_edgar) /\ Fits(data_gov)
      /\ Fits(wikipedia_kb)
      BY <1>1, <1>2 DEF treasury_positions, tpcds_store_sales, nyc_tlc_trips, gdelt_events,
                        common_crawl, sec_edgar, data_gov, wikipedia_kb
<1>6. Fits(Estate[a])
      BY <1>3, <1>4, <1>5 DEF Estate
<1>7. QED BY <1>6 DEF Fits

(* Of every asset the seeds register and every session, the engine shows   *)
(* no more than the sensitivity matrix permits: the leak oracle's grid     *)
(* without its sampling of personas.                                       *)
THEOREM EstateKeepsMatrix ==
    ASSUME NEW a \in DOMAIN Estate, NEW s \in Sessions
    PROVE  ~Leaked(CatalogFootprint(Estate[a]), Estate[a].cls, s)
<1>1. Estate[a].level \in Int
      BY EstateLevels DEF Clearances
<1>2. QED BY <1>1, EstateLevels, FootprintNeverMoreOpen

(* demo_data.DEMO_PERSONAS is said to match the oracle's personas.  Four   *)
(* differ in roles, and no class is decided differently for any of them.   *)
THEOREM DemoPersonasAlike ==
    ASSUME NEW p \in DOMAIN Personas, NEW c \in ValidClasses
    PROVE  EvaluateClass(c, DemoPersonas[p]) = EvaluateClass(c, Personas[p])
<1> DEFINE Alike(x, y) == /\ x.clearance_level = y.clearance_level
                          /\ Disjoint(NeedToKnow[c], x.roles) <=> Disjoint(NeedToKnow[c], y.roles)
           Needed == {"FINANCE", "C_SUITE", "LEGAL", "STRATEGY", "CISO", "SECURITY", "BOARD", "HR"}
<1>1. NeedToKnow[c] \subseteq Needed
      BY DEF NeedToKnow, ValidClasses
<1>2. ASSUME NEW level, NEW R, NEW Q, R \cap Needed = Q \cap Needed
      PROVE  Alike(Person(level, R), Person(level, Q))
      BY <1>1, <1>2 DEF Person, Disjoint
<1>3. Alike(DemoPersonas[p], Personas[p])
  <2>1. /\ Personas["engineer"] = Person(2, {"ENGINEER", "EMPLOYEE"})
        /\ Personas["finance_manager"] = Person(4, {"FINANCE", "FINANCE_MANAGER", "EMPLOYEE"})
        /\ Personas["cfo"] = Person(5, {"C_SUITE", "FINANCE", "EMPLOYEE"})
        /\ Personas["ceo"] = Person(5, {"C_SUITE", "BOARD", "CEO", "EMPLOYEE"})
        BY DEF Personas
  <2>2. /\ p = "engineer" => DemoPersonas[p] = Person(2, {"ENGINEERING", "EMPLOYEE"})
        /\ p = "finance_manager" => DemoPersonas[p] = Person(4, {"FINANCE", "EMPLOYEE"})
        /\ p = "cfo" => DemoPersonas[p] = Person(5, {"C_SUITE", "FINANCE"})
        /\ p = "ceo" => DemoPersonas[p] = Person(5, {"C_SUITE", "BOARD"})
        BY DEF DemoPersonas
  <2>3. CASE p = "engineer"
        BY <1>2, <2>1, <2>2, <2>3
  <2>4. CASE p = "finance_manager"
        BY <1>2, <2>1, <2>2, <2>4
  <2>5. CASE p = "cfo"
        BY <1>2, <2>1, <2>2, <2>5
  <2>6. CASE p = "ceo"
        BY <1>2, <2>1, <2>2, <2>6
  <2>7. CASE p \notin {"engineer", "finance_manager", "cfo", "ceo"}
    <3>1. DemoPersonas[p] = Personas[p]
          BY <2>7 DEF DemoPersonas
    <3>2. QED BY <3>1
  <2>8. QED BY <2>3, <2>4, <2>5, <2>6, <2>7
<1>4. QED BY <1>3 DEF EvaluateClass

(* The Datasets tab's own table gives every asset the class and the level  *)
(* the seeds register.                                                     *)
THEOREM DatasetsTabAgrees ==
    ASSUME NEW a \in DOMAIN DatasetsTab
    PROVE  /\ a \in DOMAIN Estate
           /\ DatasetsTab[a] = <<Estate[a].cls, Estate[a].level>>
BY DEF DatasetsTab, Estate, Asset, benefits_enrollment, crm_pipeline, expense_reports,
       prerelease_financials, hr_records, legacy_mart_tbl_44, legal_memos, payments_ledger,
       payroll_runs, procurement_graph, recruiting_ats, security_incidents, slack_messages,
       support_tickets, tax_filings, telemetry_logs, it_tickets, treasury_positions,
       tpcds_store_sales, nyc_tlc_trips, gdelt_events, common_crawl, sec_edgar, data_gov,
       wikipedia_kb

-----------------------------------------------------------------------------
Table(kind) ==
    CASE kind = "emit" -> {"file", "rows"}
      [] kind = "load" -> {"asset"}
      [] kind = "build" -> {"index", "chunk"}

LEMMA KindTables ==
    ASSUME NEW k \in Kinds, NEW j \in Kinds, NEW t \in Table(k), t \in Table(j)
    PROVE  k = j
BY DEF Kinds, Table

LEMMA WritesTyped ==
    ASSUME NEW k \in Kinds, NEW r \in Versions
    PROVE  /\ Writes(k, r) \subseteq Places
           /\ \A p \in Writes(k, r) : p[1] \in Table(k)
<1>1. Assets(r) \subseteq AssetIds
      BY EstateAssumption DEF Assets
<1>2. Range(ChunksOf(r)) \subseteq AllChunks
      BY DEF AllChunks
<1>3. CASE k = "emit"
      BY <1>1, <1>3 DEF Writes, Places, Table
<1>4. CASE k = "load"
      BY <1>1, <1>4 DEF Writes, Places, Table
<1>5. CASE k = "build"
      BY <1>2, <1>5 DEF Writes, Places, Table
<1>6. QED BY <1>3, <1>4, <1>5 DEF Kinds

LEMMA VersionsPositive == 0 \notin Versions /\ Versions \subseteq Nat
BY EstateAssumption

LEMMA Placed ==
    ASSUME NEW a \in AssetIds
    PROVE  <<"asset", a>> \in Places /\ <<"index", "tvim">> \in Places
           /\ <<"index", "idmap">> \in Places
BY DEF Places

(* Every reachable state is well typed.                                    *)
THEOREM TypeCorrect == Spec => []TypeOK
<1> USE DEF TypeOK, Release0
<1>1. Init => TypeOK
      BY EstateAssumption DEF Init, NoJob
<1>2. TypeOK /\ [Next]_vars => TypeOK'
  <2> SUFFICES ASSUME TypeOK, [Next]_vars PROVE TypeOK'
      OBVIOUS
  <2>1. ASSUME NEW r \in Versions, Deploy(r) PROVE TypeOK'
        BY <2>1 DEF Deploy
  <2>2. ASSUME NEW k \in Kinds, Begin(k) PROVE TypeOK'
    <3>1. Writes(k, release) \in SUBSET Places
          BY WritesTyped
    <3>2. job' \in [Kinds -> [release : Release0, todo : SUBSET Places]]
          BY <2>2, <3>1 DEF Begin
    <3>3. QED BY <2>2, <3>2 DEF Begin, server
  <2>3. ASSUME NEW k \in Kinds, Write(k) PROVE TypeOK'
    <3>1. PICK p \in job[k].todo : /\ stored' = [stored EXCEPT ![p] = job[k].release]
                                   /\ job' = [job EXCEPT ![k].todo = @ \ {p}]
          BY <2>3 DEF Write
    <3>2. job' \in [Kinds -> [release : Release0, todo : SUBSET Places]]
          BY <3>1
    <3>3. stored' \in [Places -> Release0]
          BY <3>1
    <3>4. QED BY <2>3, <3>2, <3>3 DEF Write, server, bounds
  <2>4. ASSUME NEW k \in Kinds, Finish(k) PROVE TypeOK'
        BY <2>4 DEF Finish, NoJob, server, bounds
  <2>5. ASSUME NEW k \in Kinds, Crash(k) PROVE TypeOK'
        BY <2>5 DEF Crash, NoJob, server
  <2>6. ASSUME NEW source \in {"seed", "store"}, LoadCatalog(source) PROVE TypeOK'
    <3>1. Found(source) \in [AssetIds -> Release0]
          BY Placed DEF Found, Holds
    <3>2. registry' \in [AssetIds -> Release0]
          BY <2>6, <3>1 DEF LoadCatalog
    <3>3. QED BY <2>6, <3>2 DEF LoadCatalog, bounds
  <2>7. CASE OpenIndex
    <3>1. Holds("index", "tvim") \in Release0
          BY DEF Holds, Places
    <3>2. QED BY <2>7, <3>1 DEF OpenIndex, bounds
  <2>8. CASE OpenIdMap
    <3>1. Holds("index", "idmap") \in Release0
          BY DEF Holds, Places
    <3>2. QED BY <2>8, <3>1 DEF OpenIdMap, bounds
  <2>9. CASE UNCHANGED vars
        BY <2>9 DEF vars, server, bounds
  <2>10. QED BY <2>1, <2>2, <2>3, <2>4, <2>5, <2>6, <2>7, <2>8, <2>9 DEF Next
<1>3. QED BY <1>1, <1>2, PTL DEF Spec

-----------------------------------------------------------------------------
(* What has been written was due: a place holds only releases whose job    *)
(* writes it, and a release gated by the masking check where emit writes.  *)
Written(k, p) ==
    stored[p] # 0 /\ p[1] \in Table(k) => /\ p \in Writes(k, stored[p])
                                          /\ k = "emit" => Gated(stored[p])

(* A running job has written all it no longer has to do, and nothing of a  *)
(* kind counts as completed while a job of that kind runs.                 *)
Progress(k) ==
    LET r == job[k].release IN
    /\ r = 0 => job[k].todo = {}
    /\ r # 0 => /\ clean[k] = 0
                /\ job[k].todo \subseteq Writes(k, r)
                /\ \A p \in Writes(k, r) \ job[k].todo : stored[p] = r
                /\ k = "emit" => Gated(r)

Completed(k) ==
    clean[k] # 0 => \A p \in Writes(k, clean[k]) : stored[p] = clean[k]

JobsInv ==
    /\ \A k \in Kinds, p \in Places : Written(k, p)
    /\ \A k \in Kinds : Progress(k) /\ Completed(k)

LEMMA JobsInductive == Spec => []JobsInv
<1>1. Init => JobsInv
      BY DEF Init, JobsInv, Written, Progress, Completed, NoJob
<1>2. TypeOK /\ JobsInv /\ [Next]_vars => JobsInv'
  <2> SUFFICES ASSUME TypeOK, JobsInv, [Next]_vars PROVE JobsInv'
      OBVIOUS
  <2>0. \A k \in Kinds : /\ job[k].release \in Release0 /\ clean[k] \in Release0
                         /\ \A p \in Places : stored[p] \in Release0
        BY DEF TypeOK
  <2>1. CASE UNCHANGED <<stored, job, clean>>
        BY <2>1 DEF JobsInv, Written, Progress, Completed
  <2>2. ASSUME NEW k \in Kinds, Begin(k) PROVE JobsInv'
    <3>1. /\ stored' = stored
          /\ job' = [job EXCEPT ![k] = [release |-> release, todo |-> Writes(k, release)]]
          /\ clean' = [clean EXCEPT ![k] = 0]
          /\ k = "emit" => Gated(release)
          BY <2>2 DEF Begin
    <3>2. release \in Versions /\ release # 0
          BY VersionsPositive DEF TypeOK
    <3>3. \A i \in Kinds, p \in Places : Written(i, p)'
          BY <3>1 DEF JobsInv, Written
    <3>4. ASSUME NEW i \in Kinds PROVE Progress(i)' /\ Completed(i)'
      <4>1. CASE i = k
            BY <3>1, <3>2, <4>1 DEF Progress, Completed, TypeOK
      <4>2. CASE i # k
        <5>1. job'[i] = job[i] /\ clean'[i] = clean[i] /\ stored' = stored
              BY <3>1, <4>2 DEF TypeOK
        <5>2. QED BY <5>1 DEF JobsInv, Progress, Completed
      <4>3. QED BY <4>1, <4>2
    <3>5. QED BY <3>3, <3>4 DEF JobsInv
  <2>3. ASSUME NEW k \in Kinds, Write(k) PROVE JobsInv'
    <3>1. PICK q \in job[k].todo : /\ stored' = [stored EXCEPT ![q] = job[k].release]
                                   /\ job' = [job EXCEPT ![k].todo = @ \ {q}]
                                   /\ clean' = clean
          BY <2>3 DEF Write
    <3> DEFINE r == job[k].release
    <3>2. /\ r # 0 /\ r \in Versions /\ clean[k] = 0
          /\ job[k].todo \subseteq Writes(k, r)
          /\ \A p \in Writes(k, r) \ job[k].todo : stored[p] = r
          /\ k = "emit" => Gated(r)
          BY <2>0, <3>1 DEF JobsInv, Progress, Release0
    <3>3. q \in Writes(k, r) /\ q \in Places /\ q[1] \in Table(k)
          BY <3>1, <3>2, WritesTyped
    <3>4. ASSUME NEW i \in Kinds, i # k, NEW v \in Versions, NEW p \in Writes(i, v)
          PROVE  p \in Places /\ stored'[p] = stored[p]
      <4>1. p \in Places /\ p[1] \in Table(i)
            BY <3>4, WritesTyped
      <4>2. p # q
            BY <3>3, <3>4, <4>1, KindTables
      <4>3. QED BY <3>1, <4>1, <4>2 DEF TypeOK
    <3>5. ASSUME NEW i \in Kinds, NEW p \in Places PROVE Written(i, p)'
      <4>1. CASE p = q
        <5>1. stored'[p] = r
              BY <3>1, <3>3, <4>1 DEF TypeOK
        <5>2. p[1] \in Table(i) => i = k
              BY <3>3, <4>1, KindTables
        <5>3. QED BY <3>2, <3>3, <4>1, <5>1, <5>2 DEF Written
      <4>2. CASE p # q
        <5>1. stored'[p] = stored[p]
              BY <3>1, <4>2 DEF TypeOK
        <5>2. QED BY <5>1 DEF JobsInv, Written
      <4>3. QED BY <4>1, <4>2
    <3>6. ASSUME NEW i \in Kinds PROVE Progress(i)' /\ Completed(i)'
      <4>1. CASE i = k
        <5>1. job'[k].release = r /\ job'[k].todo = job[k].todo \ {q} /\ clean'[k] = 0
              BY <3>1, <3>2 DEF TypeOK
        <5>2. \A p \in Writes(k, r) \ job'[k].todo : stored'[p] = r
          <6> SUFFICES ASSUME NEW p \in Writes(k, r), p \notin job'[k].todo
                       PROVE  stored'[p] = r
              OBVIOUS
          <6>1. p \in Places
                BY <3>2, WritesTyped
          <6>2. p = q \/ stored[p] = r
                BY <3>2, <5>1
          <6>3. QED BY <3>1, <6>1, <6>2 DEF TypeOK
        <5>3. Progress(k)'
              BY <3>2, <5>1, <5>2 DEF Progress
        <5>4. QED BY <4>1, <5>1, <5>3 DEF Completed
      <4>2. CASE i # k
        <5>1. job'[i] = job[i] /\ clean'[i] = clean[i]
              BY <3>1, <4>2 DEF TypeOK
        <5>2. Progress(i) /\ Completed(i)
              BY DEF JobsInv
        <5>3. Progress(i)'
              BY <2>0, <3>4, <4>2, <5>1, <5>2 DEF Progress, Release0
        <5>4. Completed(i)'
              BY <2>0, <3>4, <4>2, <5>1, <5>2 DEF Completed, Release0
        <5>5. QED BY <5>3, <5>4
      <4>3. QED BY <4>1, <4>2
    <3>7. QED BY <3>5, <3>6 DEF JobsInv
  <2>4. ASSUME NEW k \in Kinds, Finish(k) PROVE JobsInv'
    <3>1. /\ stored' = stored /\ job' = [job EXCEPT ![k] = NoJob]
          /\ clean' = [clean EXCEPT ![k] = job[k].release]
          /\ job[k].release # 0 /\ job[k].todo = {}
          BY <2>4 DEF Finish, Idle
    <3>2. \A i \in Kinds, p \in Places : Written(i, p)'
          BY <3>1 DEF JobsInv, Written
    <3>3. ASSUME NEW i \in Kinds PROVE Progress(i)' /\ Completed(i)'
      <4>1. CASE i = k
        <5>1. job'[k] = NoJob /\ clean'[k] = job[k].release
              BY <3>1 DEF TypeOK
        <5>2. \A p \in Writes(k, job[k].release) : stored[p] = job[k].release
              BY <3>1 DEF JobsInv, Progress
        <5>3. QED BY <3>1, <4>1, <5>1, <5>2 DEF Progress, Completed, NoJob
      <4>2. CASE i # k
        <5>1. job'[i] = job[i] /\ clean'[i] = clean[i] /\ stored' = stored
              BY <3>1, <4>2 DEF TypeOK
        <5>2. QED BY <5>1 DEF JobsInv, Progress, Completed
      <4>3. QED BY <4>1, <4>2
    <3>4. QED BY <3>2, <3>3 DEF JobsInv
  <2>5. ASSUME NEW k \in Kinds, Crash(k) PROVE JobsInv'
    <3>1. stored' = stored /\ job' = [job EXCEPT ![k] = NoJob] /\ clean' = clean
          BY <2>5 DEF Crash
    <3>2. \A i \in Kinds : job'[i] = job[i] \/ job'[i] = NoJob
          BY <3>1 DEF TypeOK
    <3>3. QED BY <3>1, <3>2 DEF JobsInv, Written, Progress, Completed, NoJob
  <2>6. QED BY <2>1, <2>2, <2>3, <2>4, <2>5
        DEF Next, Deploy, LoadCatalog, OpenIndex, OpenIdMap, vars
<1>3. QED BY <1>1, <1>2, TypeCorrect, PTL DEF Spec

(* Nothing is written of an estate the masking gate refuses, and an emit   *)
(* that completed left all its files of one release.                       *)
THEOREM EmittedWholeAlways == Spec => []EmittedWhole
<1>1. TypeOK /\ JobsInv => EmittedWhole
  <2> SUFFICES ASSUME TypeOK, JobsInv PROVE EmittedWhole
      OBVIOUS
  <2>1. "emit" \in Kinds /\ Table("emit") = {"file", "rows"}
        BY DEF Kinds, Table
  <2>2. \A p \in Places : p[1] \in {"file", "rows"} /\ stored[p] # 0 => Gated(stored[p])
        BY <2>1 DEF JobsInv, Written
  <2>3. ASSUME clean["emit"] # 0
        PROVE  /\ Holds("file", "manifest") = clean["emit"]
               /\ \A a \in Assets(clean["emit"]) :
                     Declared(clean["emit"], a).rows > 0 => Holds("rows", a) = clean["emit"]
    <3>1. \A p \in Writes("emit", clean["emit"]) : stored[p] = clean["emit"]
          BY <2>1, <2>3 DEF JobsInv, Completed
    <3>2. QED BY <3>1 DEF Writes, Holds
  <2>4. QED BY <2>2, <2>3 DEF EmittedWhole
<1>2. QED BY <1>1, TypeCorrect, JobsInductive, PTL

-----------------------------------------------------------------------------
LEMMA StoredAssets ==
    ASSUME TypeOK, JobsInv, NEW a \in AssetIds, Holds("asset", a) # 0
    PROVE  Holds("asset", a) \in Versions /\ a \in Assets(Holds("asset", a))
<1>1. <<"asset", a>> \in Places
      BY Placed
<1>2. Holds("asset", a) \in Versions
      BY <1>1 DEF TypeOK, Release0, Holds
<1>3. <<"asset", a>> \in Writes("load", Holds("asset", a))
      BY <1>1 DEF JobsInv, Written, Kinds, Table, Holds
<1>4. QED BY <1>2, <1>3 DEF Writes

(* The catalog holds assets of the release they were found in.             *)
Entries ==
    \A a \in AssetIds : registry[a] # 0 => /\ registry[a] \in Versions
                                           /\ a \in Assets(registry[a])

(* However the catalog was loaded, and whatever rows the store keeps of    *)
(* earlier releases, no entry is decided more openly than the matrix.      *)
THEOREM CatalogNoMoreOpenAlways == Spec => []CatalogNoMoreOpen
<1>1. Init => Entries
      BY DEF Init, Entries
<1>2. TypeOK /\ JobsInv /\ Entries /\ [Next]_vars => Entries'
  <2> SUFFICES ASSUME TypeOK, JobsInv, Entries, [Next]_vars PROVE Entries'
      OBVIOUS
  <2>1. ASSUME NEW r \in Versions, Deploy(r) PROVE Entries'
        BY <2>1 DEF Deploy, Entries
  <2>2. ASSUME NEW source, LoadCatalog(source) PROVE Entries'
    <3>1. \A a \in AssetIds : Found(source)[a] # 0 =>
              /\ Found(source)[a] \in Versions /\ a \in Assets(Found(source)[a])
          BY StoredAssets DEF Found, TypeOK
    <3>2. \A a \in AssetIds : /\ registry'[a] \in {Found(source)[a], registry[a]}
          BY <2>2 DEF LoadCatalog
    <3>3. QED BY <3>1, <3>2 DEF Entries
  <2>3. CASE UNCHANGED registry
        BY <2>3 DEF Entries
  <2>4. QED BY <2>1, <2>2, <2>3
        DEF Next, Begin, Write, Finish, Crash, OpenIndex, OpenIdMap, server, vars
<1>3. Entries => CatalogNoMoreOpen
  <2> SUFFICES ASSUME Entries, NEW a \in AssetIds, registry[a] # 0, NEW s \in SessionPool,
                      LevelFitsClass(Declared(registry[a], a))
               PROVE  ~Leaked(CatalogFootprint(Declared(registry[a], a)),
                              Declared(registry[a], a).cls, s)
      BY DEF CatalogNoMoreOpen
  <2>1. Declared(registry[a], a) \in Specs /\ s \in Sessions
        BY EstateAssumption DEF Entries, Assets, Declared
  <2>2. /\ Declared(registry[a], a).cls \in ValidClasses
        /\ Declared(registry[a], a).level \in Int
        BY <2>1 DEF Specs
  <2>3. QED BY <2>1, <2>2, FootprintNeverMoreOpen
<1>4. QED BY <1>1, <1>2, <1>3, TypeCorrect, JobsInductive, PTL DEF Spec

(* After a load that completed for the deployed code, the store's catalog  *)
(* has every asset the seeds' catalog has, as the seeds declare it.        *)
THEOREM ConnectorsAgreeAlways == Spec => []ConnectorsAgree
<1>1. TypeOK /\ JobsInv => ConnectorsAgree
  <2> SUFFICES ASSUME TypeOK, JobsInv, clean["load"] = release, ~StaleInvalid,
                      NEW a \in Registered(Found("seed"))
               PROVE  a \in Registered(Found("store")) /\ Found("store")[a] = release
      BY DEF ConnectorsAgree
  <2> DEFINE seed == Found("seed")
             store == Found("store")
  <2>1. release \in Versions /\ release # 0
        BY VersionsPositive DEF TypeOK
  <2>2. \A b \in Assets(release) : Holds("asset", b) = release
    <3>1. \A p \in Writes("load", release) : stored[p] = release
          BY <2>1 DEF JobsInv, Completed, Kinds
    <3>2. QED BY <3>1 DEF Writes, Holds
  <2>3. \A b \in AssetIds : b \in Assets(release) => store[b] = release /\ seed[b] = release
        BY <2>2 DEF Found
  <2>4. \A b \in AssetIds : b \notin Assets(release) => Accepted(store, b)
        BY DEF StaleInvalid
  <2>5. \A b \in AssetIds : Accepted(seed, b) => Accepted(store, b)
        BY <2>3, <2>4 DEF Accepted
  <2>6. PICK i \in DOMAIN Sorted : a = Sorted[i] /\ seed[Sorted[i]] # 0 /\ Before(i, seed)
        BY DEF Registered
  <2>7. \A j \in DOMAIN Sorted : Sorted[j] \in AssetIds
        BY DEF AssetIds, Range
  <2>8. i \in Nat /\ \A j \in 1..i : j \in DOMAIN Sorted
        BY <2>6, EstateAssumption
  <2>9. Before(i, store)
        BY <2>5, <2>6, <2>7, <2>8 DEF Before
  <2>10. Sorted[i] \in Assets(release) /\ store[Sorted[i]] = release
        BY <2>3, <2>6, <2>7 DEF Found
  <2>11. QED BY <2>1, <2>6, <2>9, <2>10 DEF Registered
<1>2. QED BY <1>1, TypeCorrect, JobsInductive, PTL

-----------------------------------------------------------------------------
(* Once a build has completed and its files are open, every hit is of the  *)
(* chunk whose text was embedded and of an asset the matrix opens: rows    *)
(* an earlier release left behind are out of reach.                        *)
THEOREM RebuiltIndexFaithfulAlways == Spec => []RebuiltIndexFaithful
<1>1. TypeOK /\ JobsInv => RebuiltIndexFaithful
  <2> DEFINE r == index.tvim
  <2> SUFFICES ASSUME TypeOK, JobsInv, r # 0, index.idmap = r, clean["build"] = r,
                      NEW s \in SessionPool, NEW h \in Hits(s)
               PROVE  /\ h.vector = h.chunk
                      /\ Row(h.chunk).text = Declared(r, h.chunk[1]).text
                      /\ \/ EvaluateClass(Declared(r, h.chunk[1]).cls, s) # "deny"
                         \/ ~LevelFitsClass(Declared(r, h.chunk[1]))
      BY DEF RebuiltIndexFaithful
  <2>1. r \in Versions
        BY DEF TypeOK, Release0
  <2> DEFINE ids == ChunksOf(r)
  <2>2. PICK u \in DOMAIN ids : /\ h = [chunk |-> ids[u], vector |-> ids[u]]
                                /\ ids[u] \in StoredChunks /\ Authorized(Row(ids[u]), s)
        BY DEF Hits
  <2>3. h.chunk = ids[u] /\ h.vector = ids[u]
        BY <2>2
  <2>4. <<"chunk", ids[u]>> \in Writes("build", r)
    <3>1. ids # <<>> /\ ids[u] \in Range(ids)
          BY <2>2 DEF Range
    <3>2. QED BY <3>1 DEF Writes
  <2>5. Holds("chunk", ids[u]) = r
        BY <2>1, <2>4, VersionsPositive DEF JobsInv, Completed, Kinds, Holds
  <2>6. Row(ids[u]) = Declared(r, ids[u][1])
        BY <2>5 DEF Row
  <2>7. ASSUME LevelFitsClass(Row(ids[u])) PROVE EvaluateClass(Row(ids[u]).cls, s) # "deny"
    <3>1. Row(ids[u]).cls \in ValidClasses /\ Evaluate(Security(Row(ids[u])), s) # "deny"
          BY <2>2 DEF Authorized, Known, Retrievable
    <3>2. Row(ids[u]).level \in Int
          BY <2>2 DEF Hits, Valid, Clearances
    <3>3. s \in Sessions
          BY EstateAssumption
    <3>4. QED BY <2>7, <3>1, <3>2, <3>3, RowNeverMoreOpen
  <2>8. QED BY <2>3, <2>6, <2>7
<1>2. QED BY <1>1, TypeCorrect, JobsInductive, PTL
=============================================================================
