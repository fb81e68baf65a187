--------------------------- MODULE MCStaleReports ---------------------------
(***************************************************************************)
(* Small instances of StaleReports: two companies.                         *)
(***************************************************************************)
EXTENDS StaleReports

Filing(c, form, date, accepted) ==
    [company |-> c, form |-> form, date |-> date, accepted |-> accepted]

\* Company 1 files twice on one day; company 2 an event, and a form that
\* makes nothing stale.
FilingsUsual == {Filing(1, "core", 1, 14), Filing(1, "event", 1, 16),
                 Filing(2, "event", 1, 12), Filing(2, "other", 2, 25)}

\* Company 1 amends a 6-K.
FilingsAmended == {Filing(1, "core", 1, 14), Filing(1, "6-K/A", 2, 21)}
=============================================================================
