---------------------------- MODULE MCEstateLoad ----------------------------
EXTENDS EstateLoad, TLC

MCRoles == UNION {Personas[p].roles \cup DemoPersonas[p].roles : p \in DOMAIN Personas}
Of(asset, rows, text) == asset @@ [rows |-> rows, text |-> text]

\* Three releases.  Slack becomes a security matter and shrinks, HR joins with a
\* mistyped level and the tickets are reworded; then HR's level is mended, the
\* tickets are gone, and Slack is itself again but for its masks and its level.
First == [slack_messages |-> Of(slack_messages, 2, 1), support_tickets |-> Of(support_tickets, 1, 1)]
Second == [hr_records |-> [Of(hr_records, 1, 1) EXCEPT !.level = 6],
           slack_messages |-> [Of(slack_messages, 1, 1) EXCEPT !.cls = "H", !.level = 4],
           support_tickets |-> Of(support_tickets, 1, 2)]
Third == [hr_records |-> Of(hr_records, 1, 1),
          slack_messages |-> [Of(slack_messages, 1, 1) EXCEPT !.level = 1, !.masked = {}]]
MCReleases == <<First, Second, Third>>
MCSorted == <<"hr_records", "slack_messages", "support_tickets">>
MCSessions == {Personas[p] : p \in {"intern", "engineer", "hr_analyst", "ciso", "ceo"}}
=============================================================================
