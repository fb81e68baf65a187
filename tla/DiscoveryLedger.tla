-------------------------- MODULE DiscoveryLedger --------------------------
(***************************************************************************)
(* What SEC filing discovery promises, with the process, its threads and   *)
(* its checkpoint file left out.  A row of a daily index that the importer *)
(* has recorded is "owed" until the filing it names is stored under its    *)
(* company; only then may it be "settled", and a settled row stays so.     *)
(***************************************************************************)
CONSTANT
    Rows,             \* rows [day, cik, accession] a daily index may list
    Filings,          \* filings [cik, accession] the database may hold
    FilingNamed(_)    \* the filing a row names

VARIABLES
    owed,             \* rows recorded and not yet covered
    settled,          \* rows whose filing was seen in the database
    stored            \* filings committed to the database

vars == <<owed, settled, stored>>

TypeOK ==
    /\ owed \subseteq Rows
    /\ settled \subseteq Rows
    /\ stored \subseteq Filings

Init ==
    /\ owed = {}
    /\ settled = {}
    /\ stored = {}

\* Rows read from an index become owed, but never again once settled.
Record ==
    /\ owed \subseteq owed'
    /\ owed' \subseteq Rows
    /\ (owed' \ owed) \cap settled = {}
    /\ UNCHANGED <<settled, stored>>

\* Some writer commits filings; nothing a reader of the ledger does removes one.
Store ==
    /\ stored \subseteq stored'
    /\ stored' \subseteq Filings
    /\ UNCHANGED <<owed, settled>>

\* Owed rows are settled when, and only when, their filings are stored.
Settle ==
    /\ settled \subseteq settled'
    /\ settled' \ settled \subseteq owed
    /\ owed' = owed \ settled'
    /\ \A r \in settled' \ settled : FilingNamed(r) \in stored
    /\ UNCHANGED stored

Next == Record \/ Store \/ Settle

Spec == Init /\ [][Next]_vars
=============================================================================
