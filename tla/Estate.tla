------------------------------- MODULE Estate -------------------------------
(***************************************************************************)
(* The Meridian estate as the seeds register it (seeds/synthetic,          *)
(* seeds/real): what each asset declares that governance reads.  Beside it *)
(* the personas, the copies of both that the demo serves without the seed  *)
(* packages, and what the catalog makes of an asset.                       *)
(***************************************************************************)
EXTENDS ChunkSource

\* manifest.AssetSpec: class, level, retrieval mode, the fields that are PII
\* and those marked masked.  Every registered PII field is marked.
Asset(cls, level, mode, pii) ==
    [cls |-> cls, level |-> level, mode |-> mode, pii |-> pii, masked |-> pii]

benefits_enrollment == Asset("J", 4, "structured", {"employee_id", "dependents"})
crm_pipeline == Asset("C", 2, "structured", {"deal_value"})
expense_reports == Asset("L", 2, "structured", {"employee_id"})
prerelease_financials == Asset("E", 4, "structured", {})
hr_records == Asset("F", 5, "vector", {"full_name", "salary"})
legacy_mart_tbl_44 == Asset("D", 3, "structured", {"text_2", "text_5"})
legacy_mart_tbl_71 == Asset("C", 2, "structured", {})
legal_memos == Asset("G", 4, "vector", {})
payments_ledger == Asset("D", 4, "structured", {"name", "dob", "gov_id"})
payroll_runs == Asset("I", 5, "structured", {"gross", "tax_withheld", "net_pay", "bank_acct"})
procurement_graph == Asset("C", 2, "graph", {"terms_value"})
recruiting_ats == Asset("K", 3, "vector", {"candidate_name", "offer_comp"})
security_incidents == Asset("H", 4, "vector", {})
slack_messages == Asset("C", 2, "vector", {"user"})
support_tickets == Asset("D", 1, "vector", {"customer_ref", "transcript"})
tax_filings == Asset("M", 5, "structured", {})
telemetry_logs == Asset("C", 2, "funnel", {})
it_tickets == Asset("C", 2, "full-text", {})
treasury_positions == Asset("N", 5, "structured", {})
tpcds_store_sales == Asset("C", 2, "structured", {"customer_email"})
nyc_tlc_trips == Asset("C", 2, "structured", {"pickup_longitude", "pickup_latitude"})
gdelt_events == Asset("B", 1, "structured", {})
common_crawl == Asset("B", 1, "funnel", {})
sec_edgar == Asset("A", 0, "vector", {})
data_gov == Asset("A", 0, "structured", {})
wikipedia_kb == Asset("B", 1, "vector", {})

\* emit.build_estate: every generator and fixture registers its assets.
Estate ==
    [benefits_enrollment |-> benefits_enrollment, crm_pipeline |-> crm_pipeline,
     expense_reports |-> expense_reports, prerelease_financials |-> prerelease_financials,
     hr_records |-> hr_records, legacy_mart_tbl_44 |-> legacy_mart_tbl_44,
     legacy_mart_tbl_71 |-> legacy_mart_tbl_71, legal_memos |-> legal_memos,
     payments_ledger |-> payments_ledger, payroll_runs |-> payroll_runs,
     procurement_graph |-> procurement_graph, recruiting_ats |-> recruiting_ats,
     security_incidents |-> security_incidents, slack_messages |-> slack_messages,
     support_tickets |-> support_tickets, tax_filings |-> tax_filings,
     telemetry_logs |-> telemetry_logs, it_tickets |-> it_tickets,
     treasury_positions |-> treasury_positions, tpcds_store_sales |-> tpcds_store_sales,
     nyc_tlc_trips |-> nyc_tlc_trips, gdelt_events |-> gdelt_events,
     common_crawl |-> common_crawl, sec_edgar |-> sec_edgar, data_gov |-> data_gov,
     wikipedia_kb |-> wikipedia_kb]

\* Manifest.validate_masking: PII fields, none of which can be masked.
MaskingViolation(a) == a.pii # {} /\ a.masked = {}

Person(level, roles) == [clearance_level |-> level, roles |-> roles]

Personas ==
    [intern            |-> Person(1, {"INTERN", "EMPLOYEE"}),
     support_agent     |-> Person(2, {"CUSTOMER_SUPPORT", "EMPLOYEE"}),
     data_analyst      |-> Person(2, {"DATA_ANALYST", "EMPLOYEE"}),
     ops_analyst       |-> Person(2, {"OPS_ANALYST", "EMPLOYEE"}),
     commerce_analyst  |-> Person(2, {"COMMERCE_ANALYST", "EMPLOYEE"}),
     marketing_analyst |-> Person(2, {"MARKETING_ANALYST", "EMPLOYEE"}),
     engineer          |-> Person(2, {"ENGINEER", "EMPLOYEE"}),
     hr_analyst        |-> Person(4, {"HR", "EMPLOYEE"}),
     sales_manager     |-> Person(3, {"SALES_MANAGER", "EMPLOYEE"}),
     finance_manager   |-> Person(4, {"FINANCE", "FINANCE_MANAGER", "EMPLOYEE"}),
     legal_counsel     |-> Person(4, {"LEGAL", "EMPLOYEE"}),
     ciso              |-> Person(4, {"CISO", "SECURITY", "EMPLOYEE"}),
     strategist        |-> Person(4, {"STRATEGY", "EMPLOYEE"}),
     cfo               |-> Person(5, {"C_SUITE", "FINANCE", "EMPLOYEE"}),
     ceo               |-> Person(5, {"C_SUITE", "BOARD", "CEO", "EMPLOYEE"})]

\* The hand-written copy the personas endpoint serves in production.
DemoPersonas ==
    [Personas EXCEPT
        !.engineer        = Person(2, {"ENGINEERING", "EMPLOYEE"}),
        !.finance_manager = Person(4, {"FINANCE", "EMPLOYEE"}),
        !.cfo             = Person(5, {"C_SUITE", "FINANCE"}),
        !.ceo             = Person(5, {"C_SUITE", "BOARD"})]

\* The hand-written copy the Datasets tab serves: class and level of an asset
\* (the second table of the legacy warehouse has no line there).
DatasetsTab ==
    [tpcds_store_sales |-> <<"C", 2>>, nyc_tlc_trips |-> <<"C", 2>>,
     gdelt_events |-> <<"B", 1>>, common_crawl |-> <<"B", 1>>, sec_edgar |-> <<"A", 0>>,
     data_gov |-> <<"A", 0>>, wikipedia_kb |-> <<"B", 1>>,
     crm_pipeline |-> <<"C", 2>>, prerelease_financials |-> <<"E", 4>>,
     hr_records |-> <<"F", 5>>, legacy_mart_tbl_44 |-> <<"D", 3>>, legal_memos |-> <<"G", 4>>,
     payments_ledger |-> <<"D", 4>>, payroll_runs |-> <<"I", 5>>,
     procurement_graph |-> <<"C", 2>>, recruiting_ats |-> <<"K", 3>>,
     security_incidents |-> <<"H", 4>>, slack_messages |-> <<"C", 2>>,
     support_tickets |-> <<"D", 1>>, tax_filings |-> <<"M", 5>>,
     telemetry_logs |-> <<"C", 2>>, it_tickets |-> <<"C", 2>>,
     benefits_enrollment |-> <<"J", 4>>, expense_reports |-> <<"L", 2>>,
     treasury_positions |-> <<"N", 5>>]

\* A mutant: the roles of the asset's class are not looked up.
FootprintWithoutRoles(a) ==
    [clearance_level    |-> a.level,
     allowed_roles      |-> {},
     sensitivity_class  |-> a.cls,
     need_to_know_roles |-> {},
     partial_for        |-> {}]

\* The footprint either connector gives an asset: its own level, its class's roles.
CatalogFootprint(a) ==
    [clearance_level    |-> a.level,
     allowed_roles      |-> NeedToKnow[a.cls],
     sensitivity_class  |-> a.cls,
     need_to_know_roles |-> NeedToKnow[a.cls],
     partial_for        |-> {}]

\* oracle._REVEAL: how much of an item a decision shows.
Reveal == [deny |-> 0, partial |-> 1, mask |-> 2, allow |-> 3]

\* A cell of the oracle grid: the engine shows more than the matrix permits.
Leaked(footprint, cls, session) ==
    Reveal[Evaluate(footprint, session)] > Reveal[EvaluateClass(cls, session)]

\* The manifest checks an asset's class but not that its level belongs to it:
\* below the class's own level the engine is more open than the matrix, except
\* for class D, where the matrix and the engine go by the session's level alone.
LevelFitsClass(a) == a.level >= MinLevel[a.cls] \/ (a.cls = PiiClass /\ a.level > 0)
=============================================================================
