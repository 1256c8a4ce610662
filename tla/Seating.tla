------------------------------ MODULE Seating ------------------------------
(***************************************************************************)
(* The two ways to a seat of the table: Admission decides about the peers    *)
(* that bind, Fill about the dials it spends on seats that are free.         *)
(***************************************************************************)
EXTENDS Admission, Fill

\* The table holds only peers that are bound, and every dial of the fill has
\* a reason to be under way.
SeatsBounded == TableBound /\ DialsCovered
=============================================================================
