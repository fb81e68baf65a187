------------------------- MODULE MCDiscoveryImport -------------------------
(***************************************************************************)
(* Small instances of DiscoveryImport.                                     *)
(***************************************************************************)
EXTENDS DiscoveryImport

CONSTANTS c1, c2, a1, a2, a3

Row(d, c, a) == [day |-> d, cik |-> c, accession |-> a]

\* Company c2's filing is listed on both days, as a republished index does.
RowsApart == {Row(1, c1, a1), Row(1, c2, a2), Row(2, c2, a2)}

\* One accession filed jointly by both companies.
RowsShared == {Row(1, c1, a1), Row(1, c2, a1), Row(2, c1, a2), Row(2, c2, a3)}

Everyone == {{c1, c2}}
SomeoneLeaves == {{c1, c2}, {c1}}
=============================================================================
