---------------------------- MODULE WriterProofs ----------------------------
(***************************************************************************)
(* What writes the same rows of one database, or the same cache, side by   *)
(* side.                                                                   *)
(*                                                                         *)
(* BuyBoard: the candidate rows under the write guard, for any companies,  *)
(* reports and quotes.  The price a candidate entered at is never          *)
(* replaced, and an active candidate has a validated report.  What a row   *)
(* holds does not matter to the argument, only which of its columns a      *)
(* session changes; the valuation is not opened.                           *)
(*                                                                         *)
(* Repairs: the catch-up and repair scripts, for any companies, scripts,   *)
(* workers and resets of the report cards.  What the sweep has finished    *)
(* stays complete beside the other scripts.                                *)
(*                                                                         *)
(* ApiCaches: the counts of the API's caches, for any caches, failures and *)
(* restarts.  Figures are not replaced by older ones.                      *)
(***************************************************************************)
EXTENDS BuyBoard, Repairs, ApiCaches, TLAPS

-----------------------------------------------------------------------------
(* The board *)

Columns == {"status", "firstVal", "val", "firstPrice", "price", "error"}

IsRow(x) == DOMAIN x = Columns /\ x.status \in {"ACTIVE", "MONITOR"}

IsSeat(x) == x = NoRow \/ IsRow(x)

Seats == DOMAIN board = Issuers /\ DOMAIN report = Issuers /\ \A c \in Issuers : IsSeat(board[c])

\* The threads that hold the guard from what they load to their commit.
Holders == {"machine"} \cup Refreshers

GuardedThreads ==
    /\ DOMAIN thread = Actors /\ DOMAIN seen = Actors
    /\ guard \in Holders \cup {NoHolder}
    /\ \A a \in Holders : thread[a] # "idle" => guard = a
    /\ thread["machine"] \in {"idle", "commit"}
    /\ \A a \in Actors : DOMAIN seen[a] = {"reports", "rows"}

\* What the holder of the guard has loaded is what the board holds.
MachineIsCurrent ==
    thread["machine"] = "commit" =>
        \E c \in Issuers, r \in Builds :
            seen["machine"] = [reports |-> [d \in {c} |-> r], rows |-> [d \in {c} |-> board[d]]]

RefreshIsCurrent ==
    \A a \in Refreshers : thread[a] = "quote" =>
        /\ DOMAIN seen[a].rows \subseteq Issuers
        /\ \A c \in DOMAIN seen[a].rows : seen[a].rows[c] = board[c] /\ IsRow(board[c])

\* What the warmer has loaded may be stale, but no row it has loaded is gone.
WarmerLoaded ==
    thread["warmer"] \in {"check", "commit"} =>
        /\ DOMAIN seen["warmer"].rows = Issuers
        /\ \A c \in Issuers :
              /\ IsSeat(seen["warmer"].rows[c])
              /\ seen["warmer"].rows[c] # NoRow => IsRow(board[c])

BoardGuarded ==
    /\ Seats
    /\ GuardedThreads
    /\ MachineIsCurrent
    /\ RefreshIsCurrent
    /\ WarmerLoaded
    /\ ActiveIsValidated

BoardInv == sqlite => BoardGuarded

\* A sync of what was loaded changes no first price, and makes a candidate
\* active where its report qualifies, and only there.
LEMMA SyncedSeat ==
    ASSUME NEW x, IsSeat(x), NEW r
    PROVE  /\ x # NoRow => /\ IsRow(Sync(x, r))
                           /\ Sync(x, r).firstPrice = x.firstPrice
                           /\ Sync(x, r).status = IF Qualifies(r) THEN "ACTIVE" ELSE "MONITOR"
           /\ x = NoRow /\ Sync(x, r) # NoRow => IsRow(Sync(x, r)) /\ Qualifies(r)
<1>1. CASE x # NoRow
  BY <1>1 DEF IsSeat, IsRow, Columns, Sync
<1>2. CASE x = NoRow
  BY <1>2 DEF IsRow, Columns, Sync, NewRow
<1>. QED
  BY <1>1, <1>2

LEMMA RowIsNoEmptySeat == \A x : IsRow(x) => x # NoRow
BY DEF IsRow, NoRow

\* A commit keeps what others wrote to the columns it has not changed.
LEMMA MergedRow ==
    ASSUME NEW x, IsRow(x), NEW y, IsRow(y), NEW z, IsRow(z)
    PROVE  /\ IsRow(Merged(x, y, z))
           /\ Merged(x, y, z).status = IF z.status # y.status THEN z.status ELSE x.status
           /\ Merged(x, y, z).firstPrice = IF z.firstPrice # y.firstPrice THEN z.firstPrice ELSE x.firstPrice
<1>1. y # NoRow
  BY RowIsNoEmptySeat
<1>. QED
  BY <1>1 DEF IsRow, Columns, Merged

LEMMA PricedRow ==
    ASSUME NEW x, IsRow(x), NEW n
    PROVE  /\ IsRow(Priced(x, n))
           /\ Priced(x, n).status = x.status
           /\ x.firstPrice # Missing => Priced(x, n).firstPrice = x.firstPrice
BY DEF IsRow, Columns, Priced

LEMMA Written ==
    ASSUME NEW a, NEW copy, WriteRows(a, copy)
    PROVE  /\ DOMAIN board' = Issuers
           /\ \A c \in Issuers :
                 board'[c] = IF c \in DOMAIN copy /\ copy[c] # NoRow
                             THEN Merged(board[c], seen[a].rows[c], copy[c]) ELSE board[c]
BY DEF WriteRows

\* A sync that is committed: of every candidate the first price stays, and one
\* that is active was so before or has a report that qualifies.
LEMMA SyncWritten ==
    ASSUME NEW x, NEW y, NEW r, IsSeat(x), IsSeat(y), y # NoRow => IsRow(x),
           NEW s, s = Sync(y, r), NEW m, m = Merged(x, y, s),
           s # NoRow, ~(y = NoRow /\ x # NoRow)
    PROVE  /\ IsRow(m)
           /\ x # NoRow => m.firstPrice = x.firstPrice
           /\ m.status = "ACTIVE" =>
                 Qualifies(r) \/ (IsRow(x) /\ x.status = "ACTIVE" /\ y.status = "MONITOR")
<1>1. CASE y = NoRow
  <2>1. IsRow(s) /\ Qualifies(r)
    BY <1>1, SyncedSeat
  <2>2. m = s /\ x = NoRow
    BY <1>1 DEF Merged
  <2>. QED
    BY <2>1, <2>2
<1>2. CASE y # NoRow
  <2>1. IsRow(y) /\ IsRow(x)
    BY <1>2 DEF IsSeat
  <2>2. /\ IsRow(s)
        /\ s.firstPrice = y.firstPrice
        /\ s.status = IF Qualifies(r) THEN "ACTIVE" ELSE "MONITOR"
    BY <1>2, SyncedSeat
  <2>3. y.status \in {"ACTIVE", "MONITOR"} /\ x.status \in {"ACTIVE", "MONITOR"}
    BY <2>1 DEF IsRow
  <2>4. /\ IsRow(m)
        /\ m.status = IF s.status # y.status THEN s.status ELSE x.status
        /\ m.firstPrice = IF s.firstPrice # y.firstPrice THEN s.firstPrice ELSE x.firstPrice
    BY <2>1, <2>2, MergedRow
  <2>. QED
    BY <2>1, <2>2, <2>3, <2>4
<1>. QED
  BY <1>1, <1>2

\* The price a candidate entered at, from one state to the next.
FirstKept ==
    \A c \in Issuers :
        board[c] # NoRow =>
            /\ board'[c] # NoRow
            /\ board[c].firstPrice # Missing => board'[c].firstPrice = board[c].firstPrice

LEMMA HolderIsAlone ==
    ASSUME GuardedThreads, NEW a \in Holders, thread[a] # "idle", NEW b \in Holders \ {a}
    PROVE  thread[b] = "idle"
BY DEF GuardedThreads

\* A report that is not synced to the board, or a thread that only moves.
LEMMA BoardStays ==
    ASSUME Seats, UNCHANGED board
    PROVE  FirstKept
BY DEF FirstKept

LEMMA RebuildLoadKept ==
    ASSUME sqlite, BoardGuarded, NEW c \in Issuers, NEW r \in Builds, RebuildLoad(c, r)
    PROVE  BoardGuarded'
<1>. USE DEF BoardGuarded
<1>1. /\ thread["machine"] = "idle"
      /\ guard \in {NoHolder, "machine"} /\ guard' = "machine"
      /\ thread' = [thread EXCEPT !["machine"] = "commit"]
      /\ seen' = [seen EXCEPT !["machine"] = [reports |-> [d \in {c} |-> r], rows |-> [d \in {c} |-> board[d]]]]
      /\ UNCHANGED <<sqlite, report, board, raced>>
  BY DEF RebuildLoad, GuardFree, Hold
<1>2. \A a \in Refreshers : thread[a] = "idle" /\ thread'[a] = "idle"
  BY <1>1 DEF GuardedThreads, Holders, Refreshers, NoHolder
<1>3. GuardedThreads'
  BY <1>1, <1>2 DEF GuardedThreads, Holders, Actors
<1>4. MachineIsCurrent'
  BY <1>1 DEF MachineIsCurrent, GuardedThreads, Actors
<1>5. RefreshIsCurrent'
  BY <1>2 DEF RefreshIsCurrent
<1>6. thread'["warmer"] = thread["warmer"] /\ seen'["warmer"] = seen["warmer"]
  BY <1>1
<1>. QED
  BY <1>1, <1>3, <1>4, <1>5, <1>6 DEF Seats, WarmerLoaded, ActiveIsValidated

LEMMA RebuildCommitKept ==
    ASSUME sqlite, BoardGuarded, RebuildCommit
    PROVE  BoardGuarded' /\ FirstKept
<1>. USE DEF BoardGuarded
<1>1. thread["machine"] = "commit" /\ guard = "machine" /\ guard' = NoHolder
  BY DEF RebuildCommit, Release, GuardedThreads, Holders
<1>2. PICK c \in Issuers, r \in Builds :
        seen["machine"] = [reports |-> [d \in {c} |-> r], rows |-> [d \in {c} |-> board[d]]]
  BY <1>1 DEF MachineIsCurrent
<1>3. /\ seen["machine"].rows = [d \in {c} |-> board[d]]
      /\ seen["machine"].reports = [d \in {c} |-> r]
  BY <1>2
<1>. DEFINE copy == Synced("machine")
            s == Sync(board[c], r)
<1>4. DOMAIN copy = {c} /\ copy[c] = s
  BY <1>3 DEF Synced
<1>5. seen["machine"].rows[c] = board[c] /\ DOMAIN seen["machine"].rows = {c}
  BY <1>3
<1>. HIDE DEF copy, s
<1>6. ~Conflicts("machine", copy)
  BY <1>4, <1>5 DEF Conflicts
<1>7. /\ report' = [d \in Issuers |-> IF d \in DOMAIN seen["machine"].reports
                                       THEN seen["machine"].reports[d] ELSE report[d]]
      /\ WriteRows("machine", copy)
      /\ raced' = raced \ {c}
      /\ thread' = [thread EXCEPT !["machine"] = "idle"]
      /\ seen' = [seen EXCEPT !["machine"] = NoSession]
      /\ UNCHANGED sqlite
  BY <1>5, <1>6 DEF RebuildCommit, Close, copy
<1>8. /\ DOMAIN report' = Issuers
      /\ report'[c] = r
      /\ \A d \in Issuers \ {c} : report'[d] = report[d]
  BY <1>3, <1>7 DEF Seats
<1>9. /\ DOMAIN board' = Issuers
      /\ \A d \in Issuers \ {c} : board'[d] = board[d]
      /\ board'[c] = IF s # NoRow THEN Merged(board[c], board[c], s) ELSE board[c]
  BY <1>4, <1>5, <1>7, Written
<1>10. IsSeat(board[c])
  BY DEF Seats
<1>11. /\ s # NoRow => IsRow(board'[c])
       /\ board[c] # NoRow => s # NoRow /\ board'[c].firstPrice = board[c].firstPrice
       /\ s # NoRow /\ board'[c].status = "ACTIVE" => Qualifies(r)
  <2>1. board[c] # NoRow => s # NoRow
    BY <1>10, SyncedSeat, RowIsNoEmptySeat DEF s
  <2>2. ASSUME s # NoRow
        PROVE  /\ IsRow(board'[c])
               /\ board[c] # NoRow => board'[c].firstPrice = board[c].firstPrice
               /\ board'[c].status = "ACTIVE" => Qualifies(r)
    <3>1. board'[c] = Merged(board[c], board[c], s) /\ s = Sync(board[c], r)
      BY <1>9, <2>2 DEF s
    <3>2. board[c] # NoRow => IsRow(board[c])
      BY <1>10 DEF IsSeat
    <3>3. /\ IsRow(board'[c])
          /\ board[c] # NoRow => board'[c].firstPrice = board[c].firstPrice
          /\ board'[c].status = "ACTIVE" =>
               Qualifies(r) \/ (board[c].status = "ACTIVE" /\ board[c].status = "MONITOR")
      BY <1>10, <2>2, <3>1, <3>2, SyncWritten
    <3>. QED
      BY <3>3
  <2>. QED
    BY <2>1, <2>2
<1>12. IsSeat(board'[c]) /\ (s = NoRow => board'[c] = NoRow)
  BY <1>9, <1>10, <1>11 DEF IsSeat
<1>13. Seats'
  BY <1>8, <1>9, <1>12 DEF Seats, IsSeat, IsRow
<1>14. \A a \in Refreshers : thread'[a] = "idle"
  BY <1>1, <1>7, HolderIsAlone DEF Holders, Refreshers
<1>15. GuardedThreads' /\ MachineIsCurrent' /\ RefreshIsCurrent'
  <2>1. \A a \in Actors : DOMAIN seen'[a] = {"reports", "rows"}
    BY <1>7 DEF GuardedThreads, NoSession
  <2>2. GuardedThreads'
    BY <1>1, <1>7, <1>14, <2>1 DEF GuardedThreads, Holders, Actors
  <2>3. MachineIsCurrent' /\ RefreshIsCurrent'
    BY <1>1, <1>7, <1>14 DEF MachineIsCurrent, RefreshIsCurrent, GuardedThreads, Actors
  <2>. QED
    BY <2>2, <2>3
<1>16. thread'["warmer"] = thread["warmer"] /\ seen'["warmer"] = seen["warmer"]
  BY <1>7
<1>17. \A d \in Issuers : board[d] # NoRow => board'[d] # NoRow
  BY <1>9, <1>11, RowIsNoEmptySeat
<1>18. \A d \in Issuers : IsRow(board[d]) => IsRow(board'[d])
  BY <1>13, <1>17, RowIsNoEmptySeat DEF Seats, IsSeat
<1>19. WarmerLoaded'
  BY <1>16, <1>18 DEF WarmerLoaded
<1>20. ActiveIsValidated'
  <2>. SUFFICES ASSUME NEW d \in Issuers \ raced', board'[d].status = "ACTIVE"
                PROVE  Validated(report'[d])
    BY DEF ActiveIsValidated
  <2>1. CASE d = c
    <3>1. s # NoRow
      BY <1>12, <2>1 DEF NoRow
    <3>2. Qualifies(r)
      BY <1>11, <2>1, <3>1
    <3>. QED
      BY <1>8, <2>1, <3>2 DEF Qualifies
  <2>2. CASE d # c
    BY <1>7, <1>8, <1>9, <2>2 DEF ActiveIsValidated
  <2>. QED
    BY <2>1, <2>2
<1>21. FirstKept
  BY <1>9, <1>11, <1>17 DEF FirstKept
<1>. QED
  BY <1>13, <1>15, <1>19, <1>20, <1>21

LEMMA ReviewKept ==
    ASSUME sqlite, BoardGuarded, NEW c \in Issuers, Review(c)
    PROVE  BoardGuarded'
<1>. USE DEF BoardGuarded
<1>1. ~Validated(report[c])
  BY DEF Review, Validated
<1>2. /\ DOMAIN report' = DOMAIN report
      /\ \A d \in Issuers \ {c} : report'[d] = report[d]
      /\ UNCHANGED <<sqlite, board, guard, thread, seen, raced>>
  BY DEF Review, Seats
<1>3. ActiveIsValidated'
  BY <1>1, <1>2 DEF ActiveIsValidated
<1>4. Seats' /\ GuardedThreads'
  BY <1>2 DEF Seats, GuardedThreads
<1>5. MachineIsCurrent'
  BY <1>2 DEF MachineIsCurrent
<1>6. RefreshIsCurrent' /\ WarmerLoaded'
  BY <1>2 DEF RefreshIsCurrent, WarmerLoaded
<1>. QED
  BY <1>3, <1>4, <1>5, <1>6

\* The warmer reads without holding the guard, and commits while nobody holds it.
LEMMA WarmerMovesKept ==
    ASSUME sqlite, BoardGuarded,
           \/ \E pending \in BOOLEAN : WarmCount(pending)
           \/ WarmBackfill \/ WarmCheckStop \/ WarmFail \/ WarmStop
    PROVE  BoardGuarded' /\ UNCHANGED board
<1>. USE DEF BoardGuarded
<1>1. /\ UNCHANGED <<sqlite, report, board, guard, raced>>
      /\ DOMAIN thread' = Actors /\ DOMAIN seen' = Actors
      /\ \A a \in Holders : thread'[a] = thread[a] /\ seen'[a] = seen[a]
      /\ \A a \in Actors : seen'[a] = seen[a] \/ DOMAIN seen'[a] = {"reports", "rows"}
  <2>1. DOMAIN thread = Actors /\ DOMAIN seen = Actors /\ Holders \subseteq Actors \ {"warmer"}
    BY DEF GuardedThreads, Holders, Refreshers, Actors
  <2>2. CASE \E pending \in BOOLEAN : WarmCount(pending)
    BY <2>1, <2>2 DEF WarmCount
  <2>3. CASE WarmBackfill
    BY <2>1, <2>3 DEF WarmBackfill
  <2>4. CASE WarmCheckStop
    BY <2>1, <2>4 DEF WarmCheckStop, Close, NoSession
  <2>5. CASE WarmFail
    BY <2>1, <2>5 DEF WarmFail, Close, NoSession
  <2>6. CASE WarmStop
    BY <2>1, <2>6 DEF WarmStop
  <2>. QED
    BY <2>2, <2>3, <2>4, <2>5, <2>6
<1>2. Seats' /\ GuardedThreads' /\ MachineIsCurrent' /\ RefreshIsCurrent'
  <2>1. Seats' /\ GuardedThreads'
    <3>1. \A a \in Actors : DOMAIN seen'[a] = {"reports", "rows"}
      BY <1>1 DEF GuardedThreads
    <3>2. thread'["machine"] = thread["machine"]
      BY <1>1 DEF Holders
    <3>3. GuardedThreads'
      BY <1>1, <3>1, <3>2 DEF GuardedThreads
    <3>. QED
      BY <1>1, <3>3 DEF Seats
  <2>2. MachineIsCurrent'
    <3>1. thread'["machine"] = thread["machine"] /\ seen'["machine"] = seen["machine"] /\ board' = board
      BY <1>1 DEF Holders
    <3>. QED
      BY <3>1 DEF MachineIsCurrent
  <2>3. RefreshIsCurrent'
    <3>1. \A a \in Refreshers : thread'[a] = thread[a] /\ seen'[a] = seen[a]
      BY <1>1 DEF Holders
    <3>. QED
      BY <1>1, <3>1 DEF RefreshIsCurrent
  <2>. QED
    BY <2>1, <2>2, <2>3
<1>3. ActiveIsValidated'
  BY <1>1 DEF ActiveIsValidated
<1>4. WarmerLoaded'
  <2>1. CASE \E pending \in BOOLEAN : WarmCount(pending)
    <3>1. thread'["warmer"] \notin {"check", "commit"}
      BY <2>1 DEF WarmCount, GuardedThreads, Actors
    <3>. QED
      BY <3>1 DEF WarmerLoaded
  <2>2. CASE WarmBackfill
    <3>1. seen'["warmer"].rows = board /\ board' = board
      BY <2>2 DEF WarmBackfill, GuardedThreads, Actors
    <3>. QED
      BY <3>1 DEF WarmerLoaded, Seats, IsSeat
  <2>3. CASE WarmCheckStop
    <3>1. /\ thread["warmer"] = "check" /\ board' = board
          /\ thread'["warmer"] = "commit" => seen' = seen
      BY <2>3 DEF WarmCheckStop, GuardedThreads, Actors
    <3>2. thread'["warmer"] \in {"end", "commit"}
      BY <2>3 DEF WarmCheckStop, GuardedThreads, Actors
    <3>. QED
      BY <3>1, <3>2 DEF WarmerLoaded
  <2>4. CASE WarmFail
    <3>1. thread'["warmer"] = "end"
      BY <2>4 DEF WarmFail, GuardedThreads, Actors
    <3>. QED
      BY <3>1 DEF WarmerLoaded
  <2>5. CASE WarmStop
    BY <2>5 DEF WarmStop, WarmerLoaded
  <2>. QED
    BY <2>1, <2>2, <2>3, <2>4, <2>5
<1>. QED
  BY <1>1, <1>2, <1>3, <1>4

LEMMA WarmCommitKept ==
    ASSUME sqlite, BoardGuarded, WarmCommit
    PROVE  BoardGuarded' /\ FirstKept
<1>. USE DEF BoardGuarded
<1>. DEFINE copy == Synced("warmer")
            old == seen["warmer"].rows
            ok == ~Conflicts("warmer", copy)
<1>1. /\ thread["warmer"] = "commit" /\ guard = NoHolder
      /\ thread' = [thread EXCEPT !["warmer"] = "end"]
      /\ seen' = [seen EXCEPT !["warmer"] = NoSession]
      /\ UNCHANGED <<sqlite, report, guard>>
  BY DEF WarmCommit, GuardFree, GuardedThreads, Holders, Refreshers, Close, NoHolder
<1>2. \A a \in Holders : thread[a] = "idle" /\ thread'[a] = "idle"
  BY <1>1 DEF GuardedThreads, Holders, Refreshers, NoHolder
<1>3. GuardedThreads' /\ MachineIsCurrent' /\ RefreshIsCurrent' /\ WarmerLoaded'
  <2>1. \A a \in Actors : DOMAIN seen'[a] = {"reports", "rows"}
    BY <1>1 DEF GuardedThreads, NoSession
  <2>2. GuardedThreads'
    BY <1>1, <1>2, <2>1 DEF GuardedThreads, Holders, Actors
  <2>3. MachineIsCurrent' /\ RefreshIsCurrent' /\ WarmerLoaded'
    BY <1>1, <1>2 DEF MachineIsCurrent, RefreshIsCurrent, WarmerLoaded, GuardedThreads, Holders, Actors
  <2>. QED
    BY <2>2, <2>3
<1>4. CASE ~ok
  <2>1. UNCHANGED <<board, raced>>
    BY <1>4 DEF WarmCommit
  <2>2. Seats' /\ ActiveIsValidated' /\ FirstKept
    BY <1>1, <2>1 DEF Seats, ActiveIsValidated, FirstKept
  <2>. QED
    BY <1>3, <2>2
<1>5. CASE ok
  <2>1. WriteRows("warmer", copy) /\ raced' = raced \cup {c \in Issuers : seen["warmer"].reports[c] # report[c]}
    BY <1>5 DEF WarmCommit
  <2>2. /\ DOMAIN old = Issuers
        /\ \A c \in Issuers : IsSeat(old[c]) /\ (old[c] # NoRow => IsRow(board[c]))
    BY <1>1 DEF WarmerLoaded
  <2>3. DOMAIN copy = Issuers /\ \A c \in Issuers : copy[c] = Sync(old[c], seen["warmer"].reports[c])
    BY <2>2 DEF Synced
  <2>4. \A c \in Issuers : ~(copy[c] # NoRow /\ old[c] = NoRow /\ board[c] # NoRow)
    BY <1>5, <2>3 DEF Conflicts
  <2>. HIDE DEF copy, ok
  <2>5. /\ DOMAIN board' = Issuers
        /\ \A c \in Issuers :
              board'[c] = IF copy[c] # NoRow THEN Merged(board[c], old[c], copy[c]) ELSE board[c]
    BY <2>1, <2>3, Written
  <2>. HIDE DEF old
  <2>6. ASSUME NEW c \in Issuers
        PROVE  /\ IsSeat(board'[c])
               /\ board[c] # NoRow => board'[c] # NoRow /\ board'[c].firstPrice = board[c].firstPrice
               /\ board'[c].status = "ACTIVE" =>
                     Qualifies(seen["warmer"].reports[c]) \/ board[c].status = "ACTIVE"
    <3>1. CASE copy[c] = NoRow
      <4>1. board'[c] = board[c]
        BY <2>5, <3>1
      <4>. QED
        BY <4>1 DEF Seats
    <3>2. CASE copy[c] # NoRow
      <4>1. board'[c] = Merged(board[c], old[c], copy[c])
        BY <2>5, <3>2
      <4>2. /\ IsSeat(board[c]) /\ IsSeat(old[c]) /\ (old[c] # NoRow => IsRow(board[c]))
            /\ copy[c] = Sync(old[c], seen["warmer"].reports[c])
            /\ ~(old[c] = NoRow /\ board[c] # NoRow)
        BY <2>2, <2>3, <2>4, <3>2 DEF Seats
      <4>3. /\ IsRow(board'[c])
            /\ board[c] # NoRow => board'[c].firstPrice = board[c].firstPrice
            /\ board'[c].status = "ACTIVE" =>
                 Qualifies(seen["warmer"].reports[c])
                    \/ (IsRow(board[c]) /\ board[c].status = "ACTIVE" /\ old[c].status = "MONITOR")
        BY <3>2, <4>1, <4>2, SyncWritten
      <4>. QED
        BY <4>3, RowIsNoEmptySeat DEF IsSeat
    <3>. QED
      BY <3>1, <3>2
  <2>7. Seats' /\ FirstKept
    BY <1>1, <2>5, <2>6 DEF Seats, FirstKept, IsSeat, IsRow
  <2>8. ActiveIsValidated'
    <3>. SUFFICES ASSUME NEW c \in Issuers \ raced', board'[c].status = "ACTIVE"
                  PROVE  Validated(report'[c])
      BY DEF ActiveIsValidated
    <3>1. seen["warmer"].reports[c] = report[c] /\ c \notin raced
      BY <2>1
    <3>2. CASE Qualifies(seen["warmer"].reports[c])
      BY <1>1, <3>1, <3>2 DEF Qualifies
    <3>3. CASE board[c].status = "ACTIVE"
      BY <1>1, <3>1, <3>3 DEF ActiveIsValidated
    <3>. QED
      BY <2>6, <3>2, <3>3
  <2>. QED
    BY <1>3, <2>7, <2>8
<1>. QED
  BY <1>4, <1>5

LEMMA RefreshLoadKept ==
    ASSUME sqlite, BoardGuarded, NEW a \in Refreshers, RefreshLoad(a)
    PROVE  BoardGuarded' /\ UNCHANGED board
<1>. USE DEF BoardGuarded
<1>1. /\ thread[a] = "idle" /\ guard \in {NoHolder, a} /\ guard' = a
      /\ seen' = [seen EXCEPT ![a].rows = [c \in Active |-> board[c]]]
      /\ thread' = [thread EXCEPT ![a] = "quote"]
      /\ UNCHANGED <<sqlite, report, board, raced>>
  BY DEF RefreshLoad, GuardFree, Hold
<1>2. /\ a \in Actors /\ a \in Holders /\ a # "machine" /\ a # "warmer" /\ a # NoHolder
      /\ Holders \subseteq Actors
      /\ DOMAIN thread = Actors /\ DOMAIN seen = Actors
  BY DEF Refreshers, Holders, Actors, NoHolder, GuardedThreads
<1>3. \A b \in Holders \ {a} : thread[b] = "idle" /\ thread'[b] = "idle"
  BY <1>1, <1>2 DEF GuardedThreads, Holders, Refreshers, NoHolder
<1>4. thread'["machine"] = "idle"
  BY <1>2, <1>3 DEF Holders
<1>5. GuardedThreads'
  BY <1>1, <1>2, <1>3, <1>4 DEF GuardedThreads
<1>6. MachineIsCurrent'
  BY <1>4 DEF MachineIsCurrent
<1>7. seen'[a].rows = [c \in Active |-> board[c]]
  BY <1>1, <1>2 DEF GuardedThreads
<1>8. Active \subseteq Issuers /\ \A c \in Active : IsRow(board[c])
  BY DEF Active, Seats, IsSeat, NoRow
<1>9. RefreshIsCurrent'
  BY <1>1, <1>3, <1>7, <1>8 DEF RefreshIsCurrent, Holders
<1>10. seen'["warmer"] = seen["warmer"] /\ thread'["warmer"] = thread["warmer"]
  BY <1>1, <1>2
<1>11. Seats' /\ WarmerLoaded' /\ ActiveIsValidated'
  BY <1>1, <1>10 DEF Seats, WarmerLoaded, ActiveIsValidated
<1>. QED
  BY <1>1, <1>5, <1>6, <1>9, <1>11

LEMMA RefreshCommitKept ==
    ASSUME sqlite, BoardGuarded, NEW a \in Refreshers,
           NEW answers \in [DOMAIN seen[a].rows -> Answers], RefreshCommit(a, answers)
    PROVE  BoardGuarded' /\ FirstKept
<1>. USE DEF BoardGuarded
<1>. DEFINE copy == [c \in DOMAIN answers |-> Priced(seen[a].rows[c], Answer(answers, c))]
<1>1. /\ thread[a] = "quote" /\ guard' = NoHolder
      /\ WriteRows(a, copy)
      /\ seen' = [seen EXCEPT ![a] = NoSession]
      /\ thread' = [thread EXCEPT ![a] = "idle"]
      /\ UNCHANGED <<sqlite, report, raced>>
  BY DEF RefreshCommit, Release, Close
<1>2. /\ a \in Actors /\ a \in Holders /\ a # "machine" /\ a # "warmer"
      /\ Holders \subseteq Actors
      /\ DOMAIN thread = Actors /\ DOMAIN seen = Actors
  BY DEF Refreshers, Holders, Actors, GuardedThreads
<1>3. \A b \in Holders : thread'[b] = "idle"
  BY <1>1, <1>2, HolderIsAlone
<1>4. DOMAIN answers \subseteq Issuers
      /\ \A c \in DOMAIN answers : seen[a].rows[c] = board[c] /\ IsRow(board[c])
  BY <1>1 DEF RefreshIsCurrent
<1>5. DOMAIN copy = DOMAIN answers
      /\ \A c \in DOMAIN answers : \E n : copy[c] = Priced(board[c], n)
  BY <1>4
<1>. HIDE DEF copy
<1>6. /\ DOMAIN board' = Issuers
      /\ \A c \in Issuers :
            board'[c] = IF c \in DOMAIN copy /\ copy[c] # NoRow
                        THEN Merged(board[c], seen[a].rows[c], copy[c]) ELSE board[c]
  BY <1>1, Written
<1>7. ASSUME NEW c \in Issuers
      PROVE  /\ IsSeat(board'[c])
             /\ IsRow(board[c]) =>
                  /\ IsRow(board'[c])
                  /\ board'[c].status = board[c].status
                  /\ board[c].firstPrice # Missing => board'[c].firstPrice = board[c].firstPrice
             /\ ~IsRow(board[c]) => board'[c] = board[c]
  <2>1. CASE c \in DOMAIN answers
    <3>1. PICK n : copy[c] = Priced(board[c], n)
      BY <1>5, <2>1
    <3>2. /\ IsRow(board[c]) /\ seen[a].rows[c] = board[c]
          /\ IsRow(copy[c])
          /\ copy[c].status = board[c].status
          /\ board[c].firstPrice # Missing => copy[c].firstPrice = board[c].firstPrice
      BY <1>4, <2>1, <3>1, PricedRow
    <3>3. board'[c] = Merged(board[c], board[c], copy[c])
      BY <1>5, <1>6, <2>1, <3>2, RowIsNoEmptySeat
    <3>4. /\ IsRow(board'[c])
          /\ board'[c].status = IF copy[c].status # board[c].status THEN copy[c].status ELSE board[c].status
          /\ board'[c].firstPrice =
               IF copy[c].firstPrice # board[c].firstPrice THEN copy[c].firstPrice ELSE board[c].firstPrice
      BY <3>2, <3>3, MergedRow
    <3>. QED
      BY <3>2, <3>4 DEF IsSeat
  <2>2. CASE c \notin DOMAIN answers
    <3>1. board'[c] = board[c]
      BY <1>5, <1>6, <2>2
    <3>. QED
      BY <3>1 DEF Seats
  <2>. QED
    BY <2>1, <2>2
<1>8. Seats'
  BY <1>1, <1>6, <1>7 DEF Seats, IsSeat, IsRow
<1>9. FirstKept
  BY <1>7, RowIsNoEmptySeat DEF FirstKept, Seats, IsSeat
<1>10. GuardedThreads' /\ MachineIsCurrent' /\ RefreshIsCurrent'
  <2>1. \A b \in Actors : DOMAIN seen'[b] = {"reports", "rows"}
    BY <1>1, <1>2 DEF GuardedThreads, NoSession
  <2>2. GuardedThreads'
    BY <1>1, <1>2, <1>3, <2>1 DEF GuardedThreads, Holders
  <2>3. MachineIsCurrent' /\ RefreshIsCurrent'
    BY <1>3 DEF MachineIsCurrent, RefreshIsCurrent, Holders
  <2>. QED
    BY <2>2, <2>3
<1>11. seen'["warmer"] = seen["warmer"] /\ thread'["warmer"] = thread["warmer"]
  BY <1>1, <1>2
<1>12. WarmerLoaded'
  BY <1>7, <1>11 DEF WarmerLoaded
<1>13. ActiveIsValidated'
  <2>. SUFFICES ASSUME NEW c \in Issuers \ raced, board'[c].status = "ACTIVE"
                PROVE  Validated(report[c])
    BY <1>1 DEF ActiveIsValidated
  <2>1. board[c].status = "ACTIVE"
    BY <1>7
  <2>. QED
    BY <2>1 DEF ActiveIsValidated
<1>. QED
  BY <1>8, <1>9, <1>10, <1>12, <1>13

LEMMA RestartKept ==
    ASSUME sqlite, BoardGuarded, RestartServer
    PROVE  BoardGuarded' /\ UNCHANGED board
<1>. USE DEF BoardGuarded
<1>1. /\ thread' = [a \in Actors |-> IF a = "warmer" THEN "count" ELSE "idle"]
      /\ seen' = [a \in Actors |-> NoSession]
      /\ guard' = NoHolder
      /\ UNCHANGED <<sqlite, report, board, raced>>
  BY DEF RestartServer
<1>2. thread'["warmer"] = "count" /\ \A a \in Holders : thread'[a] = "idle"
  BY <1>1 DEF Actors, Holders, Refreshers
<1>3. GuardedThreads' /\ MachineIsCurrent' /\ RefreshIsCurrent' /\ WarmerLoaded'
  <2>1. \A b \in Actors : DOMAIN seen'[b] = {"reports", "rows"}
    BY <1>1 DEF NoSession
  <2>2. GuardedThreads'
    BY <1>1, <1>2, <2>1 DEF GuardedThreads, Holders
  <2>3. MachineIsCurrent' /\ RefreshIsCurrent' /\ WarmerLoaded'
    BY <1>2 DEF MachineIsCurrent, RefreshIsCurrent, WarmerLoaded, Holders
  <2>. QED
    BY <2>2, <2>3
<1>4. Seats' /\ ActiveIsValidated'
  BY <1>1 DEF Seats, ActiveIsValidated
<1>. QED
  BY <1>1, <1>3, <1>4

LEMMA BoardStep ==
    ASSUME BoardInv, sqlite, BoardNext
    PROVE  BoardInv' /\ FirstKept
<1>1. BoardGuarded /\ Seats
  BY DEF BoardInv, BoardGuarded
<1>2. ASSUME NEW c \in Issuers, NEW r \in Builds, RebuildLoad(c, r)
      PROVE  BoardGuarded' /\ FirstKept
  BY <1>1, <1>2, RebuildLoadKept, BoardStays DEF RebuildLoad
<1>3. CASE RebuildCommit
  BY <1>1, <1>3, RebuildCommitKept DEF BoardInv
<1>4. ASSUME NEW c \in Issuers, Review(c)
      PROVE  BoardGuarded' /\ FirstKept
  BY <1>1, <1>4, ReviewKept, BoardStays DEF Review
<1>5. CASE \/ \E pending \in BOOLEAN : WarmCount(pending)
           \/ WarmBackfill \/ WarmCheckStop \/ WarmFail \/ WarmStop
  BY <1>1, <1>5, WarmerMovesKept, BoardStays DEF BoardInv
<1>6. CASE WarmCommit
  BY <1>1, <1>6, WarmCommitKept DEF BoardInv
<1>7. ASSUME NEW a \in Refreshers, RefreshLoad(a)
      PROVE  BoardGuarded' /\ FirstKept
  BY <1>1, <1>7, RefreshLoadKept, BoardStays
<1>8. ASSUME NEW a \in Refreshers, NEW answers \in [DOMAIN seen[a].rows -> Answers], RefreshCommit(a, answers)
      PROVE  BoardGuarded' /\ FirstKept
  BY <1>1, <1>8, RefreshCommitKept
<1>9. CASE RestartServer
  BY <1>1, <1>9, RestartKept, BoardStays DEF BoardInv
<1>. QED
  BY <1>2, <1>3, <1>4, <1>5, <1>6, <1>7, <1>8, <1>9 DEF BoardNext, BoardInv

LEMMA BoardInvInit == BoardInit => BoardInv
<1>. SUFFICES ASSUME BoardInit
              PROVE  BoardGuarded
  BY DEF BoardInv
<1>1. thread["warmer"] = "count" /\ \A a \in Holders : thread[a] = "idle"
  BY DEF BoardInit, Actors, Holders, Refreshers
<1>2. Seats
  BY DEF BoardInit, Seats, IsSeat
<1>3. GuardedThreads /\ MachineIsCurrent /\ RefreshIsCurrent /\ WarmerLoaded
  <2>1. \A a \in Actors : DOMAIN seen[a] = {"reports", "rows"}
    BY DEF BoardInit, NoSession
  <2>2. GuardedThreads
    BY <1>1, <2>1 DEF BoardInit, GuardedThreads, Holders
  <2>3. MachineIsCurrent /\ RefreshIsCurrent /\ WarmerLoaded
    BY <1>1 DEF MachineIsCurrent, RefreshIsCurrent, WarmerLoaded, Holders
  <2>. QED
    BY <2>2, <2>3
<1>4. \A c \in Issuers : board[c].status # "ACTIVE"
  BY DEF BoardInit, NoRow
<1>. QED
  BY <1>2, <1>3, <1>4 DEF BoardGuarded, ActiveIsValidated

LEMMA BoardInvNext == BoardInv /\ [BoardNext]_boardVars => BoardInv'
<1>. SUFFICES ASSUME BoardInv, [BoardNext]_boardVars
              PROVE  BoardInv'
  OBVIOUS
<1>1. CASE BoardNext /\ sqlite
  BY <1>1, BoardStep
<1>2. CASE BoardNext /\ ~sqlite
  <2>1. sqlite' = sqlite
    BY <1>2 DEF BoardNext, RebuildLoad, RebuildCommit, Review, WarmCount, WarmBackfill, WarmCheckStop,
       WarmCommit, WarmFail, WarmStop, RefreshLoad, RefreshCommit, RestartServer
  <2>. QED
    BY <1>2, <2>1 DEF BoardInv
<1>3. CASE UNCHANGED boardVars
  <2>1. UNCHANGED <<sqlite, report, board, guard, thread, seen, raced>>
    BY <1>3 DEF boardVars
  <2>2. Seats' = Seats /\ GuardedThreads' = GuardedThreads
    BY <2>1 DEF Seats, GuardedThreads
  <2>3. MachineIsCurrent' = MachineIsCurrent
    BY <2>1 DEF MachineIsCurrent
  <2>4. RefreshIsCurrent' = RefreshIsCurrent /\ WarmerLoaded' = WarmerLoaded
    BY <2>1 DEF RefreshIsCurrent, WarmerLoaded
  <2>5. ActiveIsValidated' = ActiveIsValidated
    BY <2>1 DEF ActiveIsValidated
  <2>. QED
    BY <2>1, <2>2, <2>3, <2>4, <2>5 DEF BoardInv, BoardGuarded
<1>. QED
  BY <1>1, <1>2, <1>3

\* On SQLite the guard lets one thread at a time load and write the candidate
\* rows; the warmer, which loads without it, loses no row.  (db/session.py;
\* buy_board.py; cache_warmer.py)
THEOREM GuardKeepsRows == BoardSpec => []BoardInv
<1>. QED
  BY BoardInvInit, BoardInvNext, PTL DEF BoardSpec

\* On SQLite the price a candidate entered the board at is never replaced.
THEOREM FirstPriceIsKept == BoardSpec => FirstPriceKept
<1>1. BoardInv /\ [BoardNext]_boardVars =>
        [board' # board => \A c \in Issuers :
            (sqlite /\ board[c] # NoRow) =>
                /\ board'[c] # NoRow
                /\ board[c].firstPrice # Missing => board'[c].firstPrice = board[c].firstPrice]_boardVars
  BY BoardStep DEF FirstKept, boardVars
<1>. QED
  BY <1>1, GuardKeepsRows, PTL DEF BoardSpec, FirstPriceKept

\* On SQLite an active candidate's report is validated, unless the warmer
\* committed what it had read before the machine rebuilt the report.
THEOREM ActiveIsOfValidated == BoardSpec => []ActiveIsValidated
<1>1. BoardInv => ActiveIsValidated
  BY DEF BoardInv, BoardGuarded, ActiveIsValidated
<1>. QED
  BY <1>1, GuardKeepsRows, PTL

-----------------------------------------------------------------------------
(* The repair scripts *)

\* A company has filings before any script runs, and no card without a report:
\* it is a report that writes the card.
HeldBeforeReports == \A c \in Companies : "filings" \in Held[c] /\ "card" \notin Held[c]

JobFields == {"company", "step", "row", "had", "did", "seen", "resets"}

IsJob(j) == DOMAIN j = JobFields /\ j.company \in Companies /\ j.resets \in Nat

RepairShapes ==
    /\ resets \in Nat
    /\ swept \subseteq Companies
    /\ DOMAIN db = Companies
    /\ \A c \in Companies : DOMAIN db[c] = {"kinds", "stage"}
    /\ DOMAIN queue = Scripts /\ DOMAIN phase = Scripts
    /\ \A s \in Scripts : DOMAIN queue[s] \subseteq Companies
    /\ DOMAIN job = Hands
    /\ \A w \in Hands : job[w] # NoJob => IsJob(job[w])

\* Cards come with reports, and no report that comes with a card comes out ready.
CardsHaveReports ==
    \A c \in Companies :
        /\ "filings" \in db[c].kinds
        /\ "card" \in db[c].kinds => db[c].stage # "none"
        /\ db[c].stage = "reports-ready" => "card" \notin db[c].kinds

\* What the sweep has loaded has facts and asks for a report.
WantsReport(row) == "raw" \in row.kinds /\ (row.stage # "reports-ready" \/ "card" \notin row.kinds)

SweepQueue ==
    \A s \in Scripts : s = "sweep" => phase[s] # "coverage" /\ \A c \in DOMAIN queue[s] : WantsReport(queue[s][c])

\* How far the sweep has come with a company, at each of its steps.
SweepJob(w) ==
    LET j == job[w]
        c == job[w].company
    IN  /\ j.step \in {"normalize", "statements", "build", "commit", "finish"}
        /\ j.step \in {"normalize", "statements"} => WantsReport(j.row)
        /\ j.step \in {"build", "commit", "finish"} =>
              \A k \in j.had : k \in {"canonical", "statements"} /\ k \in db[c].kinds
        /\ j.step = "commit" =>
              /\ "filings" \in j.seen.kinds
              /\ j.resets = resets /\ "card" \in j.seen.kinds => "card" \in db[c].kinds
        /\ j.step = "finish" /\ "canonical" \in j.had =>
              /\ db[c].stage # "none"
              /\ j.resets = resets /\ "card" \in gives[c] => "card" \in db[c].kinds

\* A partial report that is not a parked one replaces none.
JobOk(w) ==
    LET j == job[w]
        c == job[w].company
    IN  /\ j.resets <= resets
        /\ j.step = "choose" /\ j.did => "raw" \notin db[c].kinds /\ "raw" \notin gives[c]
        /\ j.step = "seed" => j.did \/ j.seen.stage = "none"
        /\ ScriptOf[w] = "sweep" => SweepJob(w)

JobsOk == \A w \in Hands : job[w] # NoJob => JobOk(w)

RepairsInv ==
    /\ RepairShapes
    /\ CardsHaveReports
    /\ SweepQueue
    /\ JobsOk
    /\ SweptIsComplete
-----------------------------------------------------------------------------
\* What any step does to the database: rows are only added, and only those
\* the filings and facts give; a reset alone takes cards away.
DbGrows ==
    /\ gives' = gives
    /\ DOMAIN db' = Companies
    /\ \A c \in Companies :
          /\ DOMAIN db'[c] = {"kinds", "stage"}
          /\ \A k \in db[c].kinds : k # "card" \/ resets' = resets => k \in db'[c].kinds
          /\ \A k \in db'[c].kinds : k \in db[c].kinds \/ k \in gives[c]
          /\ db[c].stage # "none" => db'[c].stage # "none"
    /\ resets' \in Nat /\ resets <= resets'

\* A row that is written with what it had and some of what it may have.
LEMMA StoreKeeps ==
    ASSUME RepairsInv, NEW c \in Companies, NEW K, NEW S, Store(c, K, S),
           \A k \in db[c].kinds : k \in K,
           \A k \in K : k \in db[c].kinds \/ k \in gives[c],
           db[c].stage # "none" => S # "none",
           "card" \in K => S # "none",
           S = "reports-ready" => "card" \notin K,
           resets' = resets, gives' = gives
    PROVE  /\ DbGrows
           /\ CardsHaveReports'
           /\ db'[c].kinds = K /\ db'[c].stage = S
<1>1. DOMAIN db = Companies /\ \A d \in Companies : DOMAIN db[d] = {"kinds", "stage"}
  BY DEF RepairsInv, RepairShapes
<1>2. resets \in Nat
  BY DEF RepairsInv, RepairShapes
<1>3. DOMAIN db' = Companies
  BY <1>1 DEF Store
<1>4. DOMAIN db'[c] = {"kinds", "stage"} /\ db'[c].kinds = K /\ db'[c].stage = S
  BY <1>1 DEF Store
<1>5. \A d \in Companies : d # c => db'[d] = db[d]
  BY <1>1 DEF Store
<1>6. DbGrows
  BY <1>1, <1>2, <1>3, <1>4, <1>5 DEF DbGrows
<1>7. CardsHaveReports'
  <2> SUFFICES ASSUME NEW d \in Companies
               PROVE  /\ "filings" \in db'[d].kinds
                      /\ "card" \in db'[d].kinds => db'[d].stage # "none"
                      /\ db'[d].stage = "reports-ready" => "card" \notin db'[d].kinds
    BY DEF CardsHaveReports, Companies
  <2>1. "filings" \in db[d].kinds
    BY DEF RepairsInv, CardsHaveReports
  <2>2. CASE d = c
    BY <1>4, <2>1, <2>2
  <2>3. CASE d # c
    BY <1>5, <2>3 DEF RepairsInv, CardsHaveReports
  <2>. QED
    BY <2>2, <2>3
<1>. QED
  BY <1>4, <1>6, <1>7

\* A step that writes no row.
LEMMA DbStays ==
    ASSUME RepairsInv, db' = db, resets' = resets, gives' = gives
    PROVE  DbGrows /\ CardsHaveReports'
<1>1. DbGrows
  BY DEF DbGrows, RepairsInv, RepairShapes
<1>2. CardsHaveReports'
  BY DEF CardsHaveReports, RepairsInv, Companies
<1>. QED
  BY <1>1, <1>2

\* What a worker stands on stays as others write.
LEMMA JobOkKept ==
    ASSUME RepairsInv, DbGrows, NEW w \in Hands, job[w] # NoJob, job'[w] = job[w]
    PROVE  JobOk(w)'
<1> DEFINE j == job[w]
           c == job[w].company
<1>1. IsJob(j) /\ JobOk(w)
  BY DEF RepairsInv, RepairShapes, JobsOk
<1>2. c \in Companies /\ j.resets \in Nat /\ resets \in Nat
  BY <1>1 DEF IsJob, RepairsInv, RepairShapes
<1>3. gives' = gives
  BY DEF DbGrows
<1>4. /\ \A k \in db[c].kinds : k # "card" \/ resets' = resets => k \in db'[c].kinds
      /\ \A k \in db'[c].kinds : k \in db[c].kinds \/ k \in gives[c]
      /\ db[c].stage # "none" => db'[c].stage # "none"
      /\ resets' \in Nat /\ resets <= resets'
  BY <1>2 DEF DbGrows
<1>5. j.resets <= resets
  BY <1>1 DEF JobOk
<1>6. j.resets <= resets' /\ (j.resets = resets' => resets' = resets)
  BY <1>2, <1>4, <1>5
<1>7. SweepJob(w) => SweepJob(w)'
  BY <1>3, <1>4, <1>6 DEF SweepJob
<1>. QED
  BY <1>1, <1>3, <1>4, <1>6, <1>7 DEF JobOk

\* What the sweep has finished stays complete; a reset of the cards forgets it.
LEMMA SweptKept ==
    ASSUME RepairsInv, DbGrows, swept' = IF resets' = resets THEN swept ELSE {}
    PROVE  SweptIsComplete'
<1> SUFFICES ASSUME NEW c \in swept'
             PROVE  /\ {"canonical", "statements"} \subseteq db'[c].kinds
                    /\ db'[c].stage # "none"
                    /\ "filings" \in db'[c].kinds /\ "card" \in gives'[c] => "card" \in db'[c].kinds
  BY DEF SweptIsComplete
<1>1. gives' = gives /\ resets' = resets /\ c \in swept /\ c \in Companies
  BY DEF DbGrows, RepairsInv, RepairShapes
<1>2. "filings" \in db[c].kinds
  BY <1>1 DEF RepairsInv, CardsHaveReports
<1>3. /\ {"canonical", "statements"} \subseteq db[c].kinds
      /\ db[c].stage # "none"
      /\ "card" \in gives[c] => "card" \in db[c].kinds
  BY <1>1, <1>2 DEF RepairsInv, SweptIsComplete
<1>4. /\ \A k \in db[c].kinds : k \in db'[c].kinds
      /\ db[c].stage # "none" => db'[c].stage # "none"
  BY <1>1 DEF DbGrows
<1>. QED
  BY <1>1, <1>3, <1>4

\* A worker's step: what it writes grows, and it stands where it should.
LEMMA StepKeeps ==
    ASSUME RepairsInv, NEW w \in Hands, NEW J, job' = [job EXCEPT ![w] = J],
           DbGrows, CardsHaveReports', resets' = resets,
           phase' = phase, queue' = queue, SweptIsComplete', swept' \subseteq Companies,
           J # NoJob => IsJob(J) /\ JobOk(w)'
    PROVE  RepairsInv'
<1>1. DOMAIN job' = Hands /\ job'[w] = J /\ \A v \in Hands : v # w => job'[v] = job[v]
  BY DEF RepairsInv, RepairShapes
<1>2. \A v \in Hands : job'[v] # NoJob => IsJob(job'[v])
  BY <1>1 DEF RepairsInv, RepairShapes
<1>3. \A v \in Hands : job'[v] # NoJob => JobOk(v)'
  <2> SUFFICES ASSUME NEW v \in Hands, job'[v] # NoJob
               PROVE  JobOk(v)'
    OBVIOUS
  <2>1. CASE v = w
    BY <1>1, <2>1
  <2>2. CASE v # w
    BY <1>1, <2>2, JobOkKept
  <2>. QED
    BY <2>1, <2>2
<1>4. RepairShapes'
  <2>1. resets' \in Nat /\ DOMAIN db' = Companies /\ \A c \in Companies : DOMAIN db'[c] = {"kinds", "stage"}
    BY DEF DbGrows
  <2>2. DOMAIN queue' = Scripts /\ DOMAIN phase' = Scripts /\ \A s \in Scripts : DOMAIN queue'[s] \subseteq Companies
    BY DEF RepairsInv, RepairShapes
  <2>. QED
    BY <1>1, <1>2, <2>1, <2>2 DEF RepairShapes, IsJob, NoJob, Companies, Hands, Scripts
<1>5. SweepQueue'
  BY DEF RepairsInv, SweepQueue, WantsReport, Scripts
<1>6. JobsOk'
  BY <1>3 DEF JobsOk, Hands, NoJob
<1>. QED
  BY <1>4, <1>5, <1>6 DEF RepairsInv

LEMMA NoStepsLeft == DOMAIN <<>> = {}
  OBVIOUS

\* A script that starts loads its rows; with a reset it takes the cards first.
LEMMA StartKeeps ==
    ASSUME RepairsInv, gives' = gives, NEW s \in Scripts, NEW reset \in BOOLEAN, StartScript(s, reset)
    PROVE  RepairsInv'
<1>1. /\ resets \in Nat
      /\ DOMAIN db = Companies
      /\ \A c \in Companies : DOMAIN db[c] = {"kinds", "stage"}
      /\ DOMAIN queue = Scripts /\ DOMAIN phase = Scripts
      /\ \A t \in Scripts : DOMAIN queue[t] \subseteq Companies
  BY DEF RepairsInv, RepairShapes
<1>2. DbGrows /\ CardsHaveReports'
  <2>1. CASE ~reset
    BY <2>1, DbStays DEF StartScript
  <2>2. CASE reset
    <3>1. /\ resets' = resets + 1
          /\ db' = [c \in Companies |-> [db[c] EXCEPT !.kinds = @ \ {"card"}]]
      BY <2>2 DEF StartScript
    <3>2. DOMAIN db' = Companies
      BY <3>1
    <3>3. \A c \in Companies :
             DOMAIN db'[c] = {"kinds", "stage"} /\ db'[c].kinds = db[c].kinds \ {"card"} /\ db'[c].stage = db[c].stage
      BY <1>1, <3>1
    <3>4. DbGrows
      BY <1>1, <3>1, <3>2, <3>3 DEF DbGrows
    <3>5. CardsHaveReports'
      BY <3>3 DEF CardsHaveReports, RepairsInv, Companies
    <3>. QED
      BY <3>4, <3>5
  <2>. QED
    BY <2>1, <2>2
<1>3. swept' = IF resets' = resets THEN swept ELSE {}
  BY <1>1 DEF StartScript
<1>4. SweptIsComplete'
  BY <1>2, <1>3, SweptKept
<1>5. job' = job
  BY DEF StartScript
<1>6. JobsOk'
  <2>1. \A w \in Hands : job[w] # NoJob => JobOk(w)'
    BY <1>2, <1>5, JobOkKept
  <2>. QED
    BY <1>5, <2>1 DEF JobsOk, Hands, NoJob
<1>7. PICK rows \in RowChoices(s, reset) : queue' = [queue EXCEPT ![s] = [c \in rows |-> db[c]]]
  BY DEF StartScript
<1>8. rows \subseteq Companies /\ (s = "sweep" => rows = SweepRows)
  <2>1. s \in {"catchup", "serial", "sweep", "finalizer", "backfill", "scores"}
    BY RepairsAssumption DEF Scripts, Hands
  <2>2. CASE s \in {"catchup", "serial"}
    BY <2>2 DEF RowChoices, MissingReports
  <2>3. CASE s = "sweep"
    BY <2>3 DEF RowChoices, SweepRows
  <2>4. CASE s = "finalizer"
    BY <2>4 DEF RowChoices, BacklogRows
  <2>5. CASE s = "backfill"
    <3>1. RowChoices(s, reset) = CardRows(reset)
      BY <2>5 DEF RowChoices
    <3>. QED
      BY <2>5, <3>1 DEF CardRows, Reported
  <2>6. CASE s = "scores"
    <3>1. RowChoices(s, reset) = ScoreRows
      BY <2>6 DEF RowChoices
    <3>. QED
      BY <2>6, <3>1 DEF ScoreRows, Reported
  <2>. QED
    BY <2>1, <2>2, <2>3, <2>4, <2>5, <2>6
<1>9. RepairShapes'
  <2>1. DOMAIN queue' = Scripts /\ \A t \in Scripts : DOMAIN queue'[t] \subseteq Companies
    BY <1>1, <1>7, <1>8
  <2>2. DOMAIN phase' = Scripts
    BY <1>1 DEF StartScript
  <2>3. swept' \subseteq Companies
    BY <1>3 DEF RepairsInv, RepairShapes
  <2>4. resets' \in Nat /\ DOMAIN db' = Companies /\ \A c \in Companies : DOMAIN db'[c] = {"kinds", "stage"}
    BY <1>2 DEF DbGrows
  <2>. QED
    BY <1>5, <2>1, <2>2, <2>3, <2>4 DEF RepairsInv, RepairShapes, IsJob, NoJob, Companies, Hands, Scripts
<1>10. SweepQueue'
  <2> SUFFICES ASSUME NEW t \in Scripts, t = "sweep"
               PROVE  phase'[t] # "coverage" /\ \A c \in DOMAIN queue'[t] : WantsReport(queue'[t][c])
    BY DEF SweepQueue, WantsReport, Scripts
  <2>1. CASE t # s
    BY <1>1, <1>7, <2>1 DEF StartScript, RepairsInv, SweepQueue
  <2>2. CASE t = s
    <3>1. phase'[t] # "coverage"
      BY <1>1, <2>2 DEF StartScript
    <3>2. queue'[t] = [c \in SweepRows |-> db[c]]
      BY <1>1, <1>7, <1>8, <2>2
    <3>3. \A c \in SweepRows : WantsReport(db[c])
      BY DEF SweepRows, Without, WantsReport, RepairsInv, CardsHaveReports
    <3>. QED
      BY <3>1, <3>2, <3>3
  <2>. QED
    BY <2>1, <2>2
<1>. QED
  BY <1>2, <1>4, <1>6, <1>9, <1>10 DEF RepairsInv

\* The rows loaded for the second stage are the catch-up's, not the sweep's.
LEMMA EndPhaseKeeps ==
    ASSUME RepairsInv, gives' = gives, NEW s \in Scripts, EndPhase(s)
    PROVE  RepairsInv'
<1>1. /\ DOMAIN queue = Scripts /\ DOMAIN phase = Scripts
      /\ \A t \in Scripts : DOMAIN queue[t] \subseteq Companies
  BY DEF RepairsInv, RepairShapes
<1>2. db' = db /\ job' = job /\ resets' = resets /\ swept' = swept
  BY DEF EndPhase
<1>3. DbGrows /\ CardsHaveReports'
  BY <1>2, DbStays
<1>4. SweptIsComplete'
  BY <1>2, <1>3, SweptKept
<1>5. JobsOk'
  <2>1. \A w \in Hands : job[w] # NoJob => JobOk(w)'
    BY <1>2, <1>3, JobOkKept
  <2>. QED
    BY <1>2, <2>1 DEF JobsOk, Hands, NoJob
<1>6. /\ DOMAIN queue' = Scripts /\ DOMAIN phase' = Scripts
      /\ \A t \in Scripts : t # s => queue'[t] = queue[t] /\ phase'[t] = phase[t]
      /\ phase'[s] # "coverage"
      /\ DOMAIN queue'[s] \subseteq Companies
      /\ phase[s] # "coverage" => DOMAIN queue'[s] = {}
  BY <1>1, NoStepsLeft DEF EndPhase, MissingReports
<1>7. RepairShapes'
  BY <1>1, <1>2, <1>6 DEF RepairsInv, RepairShapes, IsJob, NoJob, Companies, Hands, Scripts
<1>8. SweepQueue'
  <2> SUFFICES ASSUME NEW t \in Scripts, t = "sweep"
               PROVE  phase'[t] # "coverage" /\ \A c \in DOMAIN queue'[t] : WantsReport(queue'[t][c])
    BY DEF SweepQueue, WantsReport, Scripts
  <2>1. phase[t] # "coverage" /\ \A c \in DOMAIN queue[t] : WantsReport(queue[t][c])
    BY DEF RepairsInv, SweepQueue
  <2>. QED
    BY <1>6, <2>1
<1>. QED
  BY <1>3, <1>4, <1>5, <1>7, <1>8 DEF RepairsInv

LEMMA TakeRowKeeps ==
    ASSUME RepairsInv, gives' = gives, NEW w \in Hands, TakeRow(w)
    PROVE  RepairsInv'
<1> DEFINE s == ScriptOf[w]
<1>0. s \in Scripts
  BY DEF Scripts
<1>1. /\ DOMAIN queue = Scripts
      /\ \A t \in Scripts : DOMAIN queue[t] \subseteq Companies
      /\ resets \in Nat /\ DOMAIN job = Hands
  BY DEF RepairsInv, RepairShapes
<1>2. db' = db /\ phase' = phase /\ resets' = resets /\ swept' = swept
  BY DEF TakeRow
<1>3. DbGrows /\ CardsHaveReports'
  BY <1>2, DbStays
<1>4. SweptIsComplete'
  BY <1>2, <1>3, SweptKept
<1>5. PICK c \in DOMAIN queue[s] :
         /\ queue' = [queue EXCEPT ![s] = [d \in DOMAIN @ \ {c} |-> @[d]]]
         /\ job' = [job EXCEPT ![w] = [company |-> c, step |-> FirstStep(s), row |-> queue[s][c], had |-> {}, did |-> FALSE, seen |-> Unseen, resets |-> 0]]
  BY DEF TakeRow
<1>6. c \in Companies
  BY <1>0, <1>1, <1>5
<1>7. /\ DOMAIN queue' = Scripts
      /\ \A t \in Scripts : t # s => queue'[t] = queue[t]
      /\ DOMAIN queue'[s] = DOMAIN queue[s] \ {c}
      /\ \A d \in DOMAIN queue'[s] : queue'[s][d] = queue[s][d]
  BY <1>0, <1>1, <1>5
<1>8. FirstStep(s) \in {"filings", "normalize", "finalize", "build"} /\ (s = "sweep" => FirstStep(s) = "normalize")
  BY DEF FirstStep
<1>9. /\ DOMAIN job' = Hands
      /\ \A v \in Hands : v # w => job'[v] = job[v]
      /\ DOMAIN job'[w] = JobFields
      /\ job'[w].company = c /\ job'[w].step = FirstStep(s) /\ job'[w].row = queue[s][c] /\ job'[w].resets = 0
  BY <1>1, <1>5 DEF JobFields
<1>10. IsJob(job'[w])
  BY <1>6, <1>9 DEF IsJob
<1>11. JobOk(w)'
  <2>1. s = "sweep" => WantsReport(job'[w].row)
    BY <1>0, <1>9 DEF RepairsInv, SweepQueue
  <2>2. s = "sweep" => SweepJob(w)'
    BY <1>8, <1>9, <2>1 DEF SweepJob
  <2>. QED
    BY <1>1, <1>2, <1>8, <1>9, <2>2 DEF JobOk
<1>12. JobsOk'
  <2>1. \A v \in Hands : v # w /\ job[v] # NoJob => JobOk(v)'
    BY <1>3, <1>9, JobOkKept
  <2>. QED
    BY <1>9, <1>11, <2>1 DEF JobsOk, Hands, NoJob
<1>13. RepairShapes'
  <2>1. \A t \in Scripts : DOMAIN queue'[t] \subseteq Companies
    BY <1>0, <1>1, <1>7
  <2>2. \A v \in Hands : job'[v] # NoJob => IsJob(job'[v])
    BY <1>9, <1>10 DEF RepairsInv, RepairShapes
  <2>3. DOMAIN phase' = Scripts /\ resets' \in Nat /\ swept' \subseteq Companies
    BY <1>2 DEF RepairsInv, RepairShapes
  <2>4. DOMAIN db' = Companies /\ \A d \in Companies : DOMAIN db'[d] = {"kinds", "stage"}
    BY <1>3 DEF DbGrows
  <2>. QED
    BY <1>7, <1>9, <2>1, <2>2, <2>3, <2>4 DEF RepairShapes, IsJob, NoJob, Companies, Hands, Scripts
<1>14. SweepQueue'
  BY <1>0, <1>2, <1>7 DEF RepairsInv, SweepQueue, WantsReport, Scripts
<1>. QED
  BY <1>3, <1>4, <1>12, <1>13, <1>14 DEF RepairsInv

\* What every step of a worker at work may assume of the invariant.
LEMMA AtWork ==
    ASSUME RepairsInv, NEW w \in Hands, job[w] # NoJob
    PROVE  /\ job[w].company \in Companies /\ DOMAIN job[w] = JobFields
           /\ job[w].resets \in Nat /\ resets \in Nat /\ job[w].resets <= resets
           /\ JobOk(w) /\ DOMAIN job = Hands
           /\ swept \subseteq Companies
           /\ \A c \in Companies : /\ "filings" \in db[c].kinds
                                   /\ "card" \in db[c].kinds => db[c].stage # "none"
                                   /\ db[c].stage = "reports-ready" => "card" \notin db[c].kinds
  BY DEF RepairsInv, RepairShapes, JobsOk, IsJob, JobOk, CardsHaveReports

LEMMA GivenUpKeeps ==
    ASSUME RepairsInv, NEW w \in Hands, job[w] # NoJob, job' = [job EXCEPT ![w] = NoJob],
           UNCHANGED <<gives, db, phase, queue, resets, swept>>
    PROVE  RepairsInv'
<1>1. DbGrows /\ CardsHaveReports'
  BY DbStays
<1>2. SweptIsComplete'
  BY <1>1, SweptKept
<1>. QED
  BY <1>1, <1>2, StepKeeps, AtWork

LEMMA EnsureCoverageKeeps ==
    ASSUME RepairsInv, gives' = gives, NEW w \in Hands, EnsureCompanyCoverage(w)
    PROVE  RepairsInv'
<1> DEFINE c == job[w].company
           parked == ScriptOf[w] = "serial" /\ AtStep(w, "filings") /\ db[c].stage = "parked"
           kind == IF AtStep(w, "facts") THEN "raw" ELSE "filings"
           next == IF AtStep(w, "filings") THEN "facts" ELSE IF ScriptOf[w] = "serial" THEN "choose" ELSE "none"
           J == IF parked \/ next = "none" THEN NoJob
                ELSE [job[w] EXCEPT !.step = next, !.row = Unseen,
                                    !.did = kind = "raw" /\ Without(c, "raw") /\ "raw" \notin gives[c]]
<1>1. job[w] # NoJob /\ job[w].step \in {"filings", "facts"}
  BY DEF EnsureCompanyCoverage, AtStep
<1>2. /\ c \in Companies /\ DOMAIN job[w] = JobFields
      /\ job[w].resets \in Nat /\ resets \in Nat /\ job[w].resets <= resets
      /\ JobOk(w) /\ DOMAIN job = Hands
      /\ swept \subseteq Companies
      /\ "card" \in db[c].kinds => db[c].stage # "none"
      /\ db[c].stage = "reports-ready" => "card" \notin db[c].kinds
  BY <1>1, AtWork
<1>3. UNCHANGED <<phase, queue, resets, swept>> /\ job' = [job EXCEPT ![w] = J]
  BY DEF EnsureCompanyCoverage
<1>4. PICK done \in MayFail(w) : Store(c, IF done /\ ~parked THEN With(c, {kind}) ELSE db[c].kinds, db[c].stage)
  BY DEF EnsureCompanyCoverage
<1> DEFINE K == IF done /\ ~parked THEN With(c, {kind}) ELSE db[c].kinds
<1>5. /\ \A k \in db[c].kinds : k \in K
      /\ \A k \in K : k \in db[c].kinds \/ k \in gives[c]
      /\ "card" \in K => "card" \in db[c].kinds
      /\ "raw" \in K => "raw" \in db[c].kinds \/ "raw" \in gives[c]
  BY DEF With
<1>6. Store(c, K, db[c].stage)
  BY <1>4
<1>7. next \in {"facts", "choose", "none"}
  BY DEF AtStep
<1> HIDE DEF K
<1>8. DbGrows /\ CardsHaveReports' /\ db'[c].kinds = K
  BY <1>2, <1>3, <1>5, <1>6, StoreKeeps
<1>9. SweptIsComplete'
  BY <1>3, <1>8, SweptKept
<1>10. J # NoJob => IsJob(J) /\ JobOk(w)'
  <2> SUFFICES ASSUME J # NoJob PROVE IsJob(J) /\ JobOk(w)'
    OBVIOUS
  <2>1. ScriptOf[w] # "sweep"
    BY <1>1, <1>2 DEF JobOk, SweepJob
  <2>2. J = [job[w] EXCEPT !.step = next, !.row = Unseen,
                           !.did = kind = "raw" /\ Without(c, "raw") /\ "raw" \notin gives[c]]
    OBVIOUS
  <2> HIDE DEF next, kind, parked
  <2>3. /\ DOMAIN J = JobFields /\ J.company = c /\ J.resets = job[w].resets /\ J.step = next
        /\ J.did => "raw" \notin db[c].kinds /\ "raw" \notin gives[c]
    BY <1>2, <2>2 DEF JobFields, Without
  <2> HIDE DEF J
  <2>4. job'[w] = J
    BY <1>2, <1>3
  <2>5. IsJob(J)
    BY <1>2, <2>3 DEF IsJob
  <2>6. JobOk(w)'
    BY <1>2, <1>3, <1>5, <1>7, <1>8, <2>1, <2>3, <2>4 DEF JobOk
  <2>. QED
    BY <2>5, <2>6
<1> HIDE DEF J
<1>. QED
  BY <1>2, <1>3, <1>8, <1>9, <1>10, StepKeeps

LEMMA ChooseStepKeeps ==
    ASSUME RepairsInv, gives' = gives, NEW w \in Hands, ChooseStep(w)
    PROVE  RepairsInv'
<1> DEFINE c == job[w].company
           noFacts == job[w].did
           has(kind) == ~Without(c, kind)
           seeds == has("filings") /\ ((has("raw") /\ db[c].stage = "none") \/ noFacts)
           step == CASE seeds -> "seed"
                     [] ~seeds /\ has("raw") /\ ~has("canonical") -> "canonicalize"
                     [] ~seeds /\ has("canonical") -> "snapshots"
                     [] OTHER -> "build"
           J == [job[w] EXCEPT !.step = step, !.did = step = "seed" /\ noFacts /\ ~has("raw"),
                               !.seen = IF step = "seed" THEN db[c] ELSE Unseen]
<1>1. job[w] # NoJob /\ job[w].step = "choose"
  BY DEF ChooseStep, AtStep
<1>2. /\ c \in Companies /\ DOMAIN job[w] = JobFields
      /\ job[w].resets \in Nat /\ resets \in Nat /\ job[w].resets <= resets
      /\ JobOk(w) /\ DOMAIN job = Hands
      /\ swept \subseteq Companies
      /\ "filings" \in db[c].kinds
  BY <1>1, AtWork
<1>3. UNCHANGED <<db, phase, queue, resets, swept>>
  BY DEF ChooseStep
<1>4. job' = [job EXCEPT ![w] = J]
  <2>1. job' = [job EXCEPT ![w].step = step, ![w].did = step = "seed" /\ noFacts /\ ~has("raw"),
                           ![w].seen = IF step = "seed" THEN db[c] ELSE Unseen]
    BY DEF ChooseStep
  <2> HIDE DEF step, has
  <2>. QED
    BY <1>2, <2>1
<1>5. DbGrows /\ CardsHaveReports'
  BY <1>3, DbStays
<1>6. SweptIsComplete'
  BY <1>3, <1>5, SweptKept
<1>7. step = "seed" => (has("raw") /\ db[c].stage = "none") \/ noFacts
  BY <1>2 DEF Without
<1>8. step # "choose"
  OBVIOUS
<1>9. noFacts => ~has("raw")
  BY <1>1, <1>2 DEF JobOk, Without
<1> HIDE DEF step, has
<1>10. /\ DOMAIN J = JobFields /\ J.company = c /\ J.resets = job[w].resets /\ J.step = step
       /\ step = "seed" => J.did \/ J.seen.stage = "none"
  BY <1>2, <1>7, <1>9 DEF JobFields
<1> HIDE DEF J
<1>11. job'[w] = J /\ IsJob(J)
  BY <1>2, <1>4, <1>10 DEF IsJob
<1>12. ScriptOf[w] # "sweep"
  BY <1>1, <1>2 DEF JobOk, SweepJob
<1>13. JobOk(w)'
  BY <1>2, <1>3, <1>8, <1>10, <1>11, <1>12 DEF JobOk
<1>. QED
  BY <1>2, <1>3, <1>4, <1>5, <1>6, <1>11, <1>13, StepKeeps

LEMMA CanonicalizeKeeps ==
    ASSUME RepairsInv, gives' = gives, NEW w \in Hands, CanonicalizeCompany(w)
    PROVE  RepairsInv'
<1> DEFINE c == job[w].company
<1>1. job[w] # NoJob /\ job[w].step = "canonicalize"
  BY DEF CanonicalizeCompany, AtStep
<1>2. /\ c \in Companies /\ DOMAIN job[w] = JobFields
      /\ job[w].resets \in Nat /\ resets \in Nat /\ job[w].resets <= resets
      /\ JobOk(w) /\ DOMAIN job = Hands
      /\ swept \subseteq Companies
      /\ "card" \in db[c].kinds => db[c].stage # "none"
      /\ db[c].stage = "reports-ready" => "card" \notin db[c].kinds
  BY <1>1, AtWork
<1>3. UNCHANGED <<phase, queue, resets, swept>>
  BY DEF CanonicalizeCompany
<1>4. PICK K \in {db[c].kinds, With(c, {"canonical"})} :
         /\ Store(c, K, db[c].stage)
         /\ job' = [job EXCEPT ![w] = IF "canonical" \in K THEN [@ EXCEPT !.step = "snapshots"]
                                      ELSE [@ EXCEPT !.step = "seed", !.did = TRUE, !.seen = [kinds |-> K, stage |-> db[c].stage]]]
  BY DEF CanonicalizeCompany
<1> DEFINE J == IF "canonical" \in K THEN [job[w] EXCEPT !.step = "snapshots"]
                ELSE [job[w] EXCEPT !.step = "seed", !.did = TRUE, !.seen = [kinds |-> K, stage |-> db[c].stage]]
<1>5. /\ \A k \in db[c].kinds : k \in K
      /\ \A k \in K : k \in db[c].kinds \/ k \in gives[c]
      /\ "card" \in K => "card" \in db[c].kinds
  BY <1>4 DEF With
<1>6. DbGrows /\ CardsHaveReports'
  BY <1>2, <1>3, <1>4, <1>5, StoreKeeps
<1>7. SweptIsComplete'
  BY <1>3, <1>6, SweptKept
<1>8. job' = [job EXCEPT ![w] = J]
  BY <1>2, <1>4
<1>9. /\ DOMAIN J = JobFields /\ J.company = c /\ J.resets = job[w].resets
      /\ J.step \in {"snapshots", "seed"} /\ (J.step = "seed" => J.did)
  BY <1>2 DEF JobFields
<1> HIDE DEF J
<1>10. job'[w] = J /\ IsJob(J)
  BY <1>2, <1>8, <1>9 DEF IsJob
<1>11. JobOk(w)'
  BY <1>1, <1>2, <1>3, <1>9, <1>10 DEF JobOk, SweepJob
<1>. QED
  BY <1>2, <1>3, <1>6, <1>7, <1>8, <1>10, <1>11, StepKeeps

LEMMA SnapshotKeeps ==
    ASSUME RepairsInv, gives' = gives, NEW w \in Hands, SnapshotCompany(w)
    PROVE  RepairsInv'
<1> DEFINE c == job[w].company
           J == [job[w] EXCEPT !.step = "build"]
<1>1. job[w] # NoJob /\ job[w].step = "snapshots"
  BY DEF SnapshotCompany, AtStep
<1>2. /\ c \in Companies /\ DOMAIN job[w] = JobFields
      /\ job[w].resets \in Nat /\ resets \in Nat /\ job[w].resets <= resets
      /\ JobOk(w) /\ DOMAIN job = Hands
      /\ swept \subseteq Companies
      /\ "card" \in db[c].kinds => db[c].stage # "none"
      /\ db[c].stage = "reports-ready" => "card" \notin db[c].kinds
  BY <1>1, AtWork
<1>3. UNCHANGED <<phase, queue, resets, swept>> /\ job' = [job EXCEPT ![w] = J]
  BY <1>2 DEF SnapshotCompany
<1>4. PICK done \in BOOLEAN : Store(c, IF done THEN With(c, {"statements"}) ELSE db[c].kinds, db[c].stage)
  BY DEF SnapshotCompany
<1> DEFINE K == IF done THEN With(c, {"statements"}) ELSE db[c].kinds
<1>5. /\ \A k \in db[c].kinds : k \in K
      /\ \A k \in K : k \in db[c].kinds \/ k \in gives[c]
      /\ "card" \in K => "card" \in db[c].kinds
  BY DEF With
<1>6. Store(c, K, db[c].stage)
  BY <1>4
<1> HIDE DEF K
<1>7. DbGrows /\ CardsHaveReports'
  BY <1>2, <1>3, <1>5, <1>6, StoreKeeps
<1>8. SweptIsComplete'
  BY <1>3, <1>7, SweptKept
<1>9. DOMAIN J = JobFields /\ J.company = c /\ J.resets = job[w].resets /\ J.step = "build"
  BY <1>2 DEF JobFields
<1> HIDE DEF J
<1>10. job'[w] = J /\ IsJob(J)
  BY <1>2, <1>3, <1>9 DEF IsJob
<1>11. JobOk(w)'
  BY <1>1, <1>2, <1>3, <1>9, <1>10 DEF JobOk, SweepJob
<1>. QED
  BY <1>2, <1>3, <1>7, <1>8, <1>10, <1>11, StepKeeps

\* The sweep leaves this step with canonical facts or without: a row keeps what
\* it wants.
LEMMA NormalizeKeeps ==
    ASSUME RepairsInv, gives' = gives, NEW w \in Hands, NormalizeRow(w)
    PROVE  RepairsInv'
<1> DEFINE c == job[w].company
           run == Without(c, "canonical") /\ "raw" \in job[w].row.kinds
<1>1. job[w] # NoJob /\ job[w].step = "normalize"
  BY DEF NormalizeRow, AtStep
<1>2. /\ c \in Companies /\ DOMAIN job[w] = JobFields
      /\ job[w].resets \in Nat /\ resets \in Nat /\ job[w].resets <= resets
      /\ JobOk(w) /\ DOMAIN job = Hands
      /\ swept \subseteq Companies
      /\ "card" \in db[c].kinds => db[c].stage # "none"
      /\ db[c].stage = "reports-ready" => "card" \notin db[c].kinds
  BY <1>1, AtWork
<1>3. UNCHANGED <<phase, queue, resets, swept>>
  BY DEF NormalizeRow
<1>4. PICK K \in {db[c].kinds, With(c, {"canonical"})} :
         /\ Store(c, K, db[c].stage)
         /\ job' = [job EXCEPT ![w].step = "statements", ![w].had = db[c].kinds \cap {"statements"},
                               ![w].did = run /\ "canonical" \in K]
  BY DEF NormalizeRow
<1> DEFINE J == [job[w] EXCEPT !.step = "statements", !.had = db[c].kinds \cap {"statements"},
                               !.did = run /\ "canonical" \in K]
<1>5. job' = [job EXCEPT ![w] = J]
  <2> HIDE DEF run
  <2>. QED
    BY <1>2, <1>4
<1>6. /\ \A k \in db[c].kinds : k \in K
      /\ \A k \in K : k \in db[c].kinds \/ k \in gives[c]
      /\ "card" \in K => "card" \in db[c].kinds
  BY <1>4 DEF With
<1> HIDE DEF run
<1>7. DbGrows /\ CardsHaveReports'
  BY <1>2, <1>3, <1>4, <1>6, StoreKeeps
<1>12. SweptIsComplete'
  BY <1>3, <1>7, SweptKept
<1>8. /\ DOMAIN J = JobFields /\ J.company = c /\ J.resets = job[w].resets
      /\ J.step = "statements" /\ J.row = job[w].row
  BY <1>2 DEF JobFields
<1> HIDE DEF J
<1>9. job'[w] = J /\ IsJob(J)
  BY <1>2, <1>5, <1>8 DEF IsJob
<1>10. ScriptOf[w] = "sweep" => SweepJob(w)'
  <2> SUFFICES ASSUME ScriptOf[w] = "sweep" PROVE SweepJob(w)'
    OBVIOUS
  <2>1. WantsReport(job[w].row)
    BY <1>1, <1>2 DEF JobOk, SweepJob
  <2>. QED
    BY <1>8, <1>9, <2>1 DEF SweepJob
<1>11. JobOk(w)'
  BY <1>2, <1>3, <1>8, <1>9, <1>10 DEF JobOk
<1>. QED
  BY <1>2, <1>3, <1>5, <1>7, <1>9, <1>11, <1>12, StepKeeps

\* A row of the sweep always needs its report: it comes without a card, or
\* with a report that is not ready.
LEMMA StatementsKeep ==
    ASSUME RepairsInv, gives' = gives, NEW w \in Hands, BuildStatements(w)
    PROVE  RepairsInv'
<1> DEFINE c == job[w].company
           row == job[w].row
           run == CanonicalAfter(w) /\ ("statements" \notin job[w].had \/ RefreshAll)
           K == IF run THEN With(c, {"statements"}) ELSE db[c].kinds
           needed == NeedsReport(w, run /\ "statements" \in K)
           next == IF CanonicalAfter(w) /\ needed THEN "build" ELSE "finish"
           found == K \cap {"canonical", "statements"}
           J == [job[w] EXCEPT !.step = next, !.had = found, !.did = FALSE, !.row = Unseen, !.resets = resets]
<1>1. job[w] # NoJob /\ job[w].step = "statements"
  BY DEF BuildStatements, AtStep
<1>2. /\ c \in Companies /\ DOMAIN job[w] = JobFields
      /\ job[w].resets \in Nat /\ resets \in Nat /\ job[w].resets <= resets
      /\ JobOk(w) /\ DOMAIN job = Hands
      /\ swept \subseteq Companies
      /\ "card" \in db[c].kinds => db[c].stage # "none"
      /\ db[c].stage = "reports-ready" => "card" \notin db[c].kinds
  BY <1>1, AtWork
<1>3. UNCHANGED <<phase, queue, resets, swept>> /\ Store(c, K, db[c].stage)
  BY DEF BuildStatements
<1>4. job' = [job EXCEPT ![w] = J]
  <2>1. job' = [job EXCEPT ![w].step = next, ![w].had = found, ![w].did = FALSE, ![w].row = Unseen, ![w].resets = resets]
    BY DEF BuildStatements
  <2> HIDE DEF next, found
  <2>. QED
    BY <1>2, <2>1
<1>5. /\ \A k \in db[c].kinds : k \in K
      /\ \A k \in K : k \in db[c].kinds \/ k \in gives[c]
      /\ "card" \in K => "card" \in db[c].kinds
  BY DEF With
<1>6. \A k \in found : k \in {"canonical", "statements"} /\ k \in K
  OBVIOUS
<1>7. next \in {"build", "finish"} /\ (WantsReport(row) /\ next = "finish" => "canonical" \notin found)
  BY DEF WantsReport, NeedsReport, CanonicalAfter, Without, With
<1> HIDE DEF K, run, needed, next, found
<1>8. DbGrows /\ CardsHaveReports' /\ db'[c].kinds = K
  BY <1>2, <1>3, <1>5, StoreKeeps
<1>9. SweptIsComplete'
  BY <1>3, <1>8, SweptKept
<1>10. DOMAIN J = JobFields /\ J.company = c /\ J.resets = resets /\ J.step = next /\ J.had = found
  BY <1>2 DEF JobFields
<1> HIDE DEF J
<1>11. job'[w] = J /\ IsJob(J)
  BY <1>2, <1>4, <1>10 DEF IsJob
<1>12. ScriptOf[w] = "sweep" => SweepJob(w)'
  <2> SUFFICES ASSUME ScriptOf[w] = "sweep" PROVE SweepJob(w)'
    OBVIOUS
  <2>1. WantsReport(row)
    BY <1>1, <1>2 DEF JobOk, SweepJob
  <2>. QED
    BY <1>6, <1>7, <1>8, <1>10, <1>11, <2>1 DEF SweepJob
<1>13. JobOk(w)'
  BY <1>2, <1>3, <1>7, <1>10, <1>11, <1>12 DEF JobOk
<1>. QED
  BY <1>2, <1>3, <1>4, <1>8, <1>9, <1>11, <1>13, StepKeeps

LEMMA BeginReportKeeps ==
    ASSUME RepairsInv, gives' = gives, NEW w \in Hands, BeginReport(w)
    PROVE  RepairsInv'
<1> DEFINE c == job[w].company
           J == [job[w] EXCEPT !.step = "commit", !.seen = db[c], !.row = Unseen, !.resets = resets]
<1>1. job[w] # NoJob /\ job[w].step = "build"
  BY DEF BeginReport, AtStep
<1>2. /\ c \in Companies /\ DOMAIN job[w] = JobFields
      /\ job[w].resets \in Nat /\ resets \in Nat /\ job[w].resets <= resets
      /\ JobOk(w) /\ DOMAIN job = Hands
      /\ swept \subseteq Companies
      /\ "filings" \in db[c].kinds
  BY <1>1, AtWork
<1>3. UNCHANGED <<db, phase, queue, resets, swept>>
  BY DEF BeginReport
<1>4. job' = [job EXCEPT ![w] = J]
  BY <1>2 DEF BeginReport
<1>5. DbGrows /\ CardsHaveReports'
  BY <1>3, DbStays
<1>6. SweptIsComplete'
  BY <1>3, <1>5, SweptKept
<1>7. DOMAIN J = JobFields /\ J.company = c /\ J.resets = resets /\ J.step = "commit" /\ J.seen = db[c]
      /\ J.had = job[w].had
  BY <1>2 DEF JobFields
<1> HIDE DEF J
<1>8. job'[w] = J /\ IsJob(J)
  BY <1>2, <1>4, <1>7 DEF IsJob
<1>9. ScriptOf[w] = "sweep" => SweepJob(w)'
  <2> SUFFICES ASSUME ScriptOf[w] = "sweep" PROVE SweepJob(w)'
    OBVIOUS
  <2>1. \A k \in job[w].had : k \in {"canonical", "statements"} /\ k \in db[c].kinds
    BY <1>1, <1>2 DEF JobOk, SweepJob
  <2>. QED
    BY <1>2, <1>3, <1>7, <1>8, <2>1 DEF SweepJob
<1>10. JobOk(w)'
  BY <1>2, <1>3, <1>7, <1>8, <1>9 DEF JobOk
<1>. QED
  BY <1>2, <1>3, <1>4, <1>5, <1>6, <1>8, <1>10, StepKeeps

\* The report is written with the card its filings give, unless there was one.
LEMMA CommitReportKeeps ==
    ASSUME RepairsInv, gives' = gives, NEW w \in Hands, CommitReport(w)
    PROVE  RepairsInv'
<1> DEFINE c == job[w].company
           from == job[w].seen
           K == IF "card" \in from.kinds THEN db[c].kinds ELSE db[c].kinds \cup CardGiven(c, from)
           S == BuiltStage(from)
           J == [job[w] EXCEPT !.step = "finish", !.seen = Unseen]
<1>1. job[w] # NoJob /\ job[w].step = "commit"
  BY DEF CommitReport, AtStep
<1>2. /\ c \in Companies /\ DOMAIN job[w] = JobFields
      /\ job[w].resets \in Nat /\ resets \in Nat /\ job[w].resets <= resets
      /\ JobOk(w) /\ DOMAIN job = Hands
      /\ swept \subseteq Companies
  BY <1>1, AtWork
<1>3. UNCHANGED <<phase, queue, resets, swept>> /\ Store(c, K, S)
  BY DEF CommitReport
<1>4. job' = [job EXCEPT ![w] = J]
  BY <1>2 DEF CommitReport
<1>5. /\ \A k \in db[c].kinds : k \in K
      /\ \A k \in K : k \in db[c].kinds \/ k \in gives[c]
      /\ "filings" \in from.kinds /\ "card" \notin from.kinds /\ "card" \in gives[c] => "card" \in K
  BY DEF CardGiven
<1>6. S # "none" /\ S # "reports-ready"
  BY DEF BuiltStage
<1> HIDE DEF K, S
<1>7. DbGrows /\ CardsHaveReports' /\ db'[c].kinds = K /\ db'[c].stage = S
  BY <1>2, <1>3, <1>5, <1>6, StoreKeeps
<1>8. SweptIsComplete'
  BY <1>3, <1>7, SweptKept
<1>9. DOMAIN J = JobFields /\ J.company = c /\ J.resets = job[w].resets /\ J.step = "finish"
      /\ J.had = job[w].had
  BY <1>2 DEF JobFields
<1> HIDE DEF J
<1>10. job'[w] = J /\ IsJob(J)
  BY <1>2, <1>4, <1>9 DEF IsJob
<1>11. ScriptOf[w] = "sweep" => SweepJob(w)'
  <2> SUFFICES ASSUME ScriptOf[w] = "sweep" PROVE SweepJob(w)'
    OBVIOUS
  <2>1. /\ \A k \in job[w].had : k \in {"canonical", "statements"} /\ k \in db[c].kinds
        /\ "filings" \in from.kinds
        /\ job[w].resets = resets /\ "card" \in from.kinds => "card" \in db[c].kinds
    BY <1>1, <1>2 DEF JobOk, SweepJob
  <2>2. \A k \in J.had : k \in {"canonical", "statements"} /\ k \in db'[c].kinds
    BY <1>5, <1>7, <1>9, <2>1
  <2>3. J.resets = resets /\ "card" \in gives[c] => "card" \in db'[c].kinds
    BY <1>5, <1>7, <1>9, <2>1
  <2>. QED
    BY <1>3, <1>6, <1>7, <1>9, <1>10, <2>2, <2>3 DEF SweepJob
<1>12. JobOk(w)'
  BY <1>2, <1>3, <1>9, <1>10, <1>11 DEF JobOk
<1>. QED
  BY <1>2, <1>3, <1>4, <1>7, <1>8, <1>10, <1>12, StepKeeps

\* A partial report is parked, or comes where there is none, and then no card.
LEMMA SeedReportKeeps ==
    ASSUME RepairsInv, gives' = gives, NEW w \in Hands, SeedReport(w)
    PROVE  RepairsInv'
<1> DEFINE c == job[w].company
           from == job[w].seen
           lost == from.stage = "none" /\ db[c].stage # "none"
           S == IF lost THEN db[c].stage ELSE IF job[w].did THEN "parked" ELSE PartialStage(from)
<1>1. job[w] # NoJob /\ job[w].step = "seed"
  BY DEF SeedReport, AtStep
<1>2. /\ c \in Companies
      /\ JobOk(w) /\ DOMAIN job = Hands
      /\ swept \subseteq Companies
      /\ "card" \in db[c].kinds => db[c].stage # "none"
      /\ db[c].stage = "reports-ready" => "card" \notin db[c].kinds
  BY <1>1, AtWork
<1>3. UNCHANGED <<phase, queue, resets, swept>> /\ Store(c, db[c].kinds, S) /\ job' = [job EXCEPT ![w] = NoJob]
  BY DEF SeedReport
<1>4. job[w].did \/ from.stage = "none"
  BY <1>1, <1>2 DEF JobOk
<1>5. PartialStage(from) # "none"
  BY DEF PartialStage
<1>6. /\ db[c].stage # "none" => S # "none"
      /\ "card" \in db[c].kinds => S # "none"
      /\ S = "reports-ready" => "card" \notin db[c].kinds
  BY <1>2, <1>4, <1>5
<1> HIDE DEF S
<1>7. DbGrows /\ CardsHaveReports'
  BY <1>2, <1>3, <1>6, StoreKeeps
<1>8. SweptIsComplete'
  BY <1>3, <1>7, SweptKept
<1>. QED
  BY <1>2, <1>3, <1>7, <1>8, StepKeeps

\* A company that is not blocked joins the swept ones with its canonical facts,
\* statements, report and card.
LEMMA FinishRowKeeps ==
    ASSUME RepairsInv, gives' = gives, NEW w \in Hands, FinishRow(w)
    PROVE  RepairsInv'
<1> DEFINE c == job[w].company
<1>1. job[w] # NoJob /\ job[w].step = "finish"
  BY DEF FinishRow, AtStep
<1>2. /\ c \in Companies
      /\ JobOk(w) /\ DOMAIN job = Hands
      /\ swept \subseteq Companies
      /\ "filings" \in db[c].kinds
  BY <1>1, AtWork
<1>3. UNCHANGED <<db, phase, queue, resets>> /\ job' = [job EXCEPT ![w] = NoJob]
  BY DEF FinishRow
<1>4. swept' = IF ScriptOf[w] = "sweep" /\ job[w].resets = resets /\ ~Blocked(w) THEN swept \cup {c} ELSE swept
  BY DEF FinishRow
<1>5. DbGrows /\ CardsHaveReports'
  BY <1>3, DbStays
<1>6. SweptIsComplete'
  <2> SUFFICES ASSUME NEW d \in swept'
               PROVE  /\ {"canonical", "statements"} \subseteq db[d].kinds
                      /\ db[d].stage # "none"
                      /\ "filings" \in db[d].kinds /\ "card" \in gives[d] => "card" \in db[d].kinds
    BY <1>3 DEF SweptIsComplete
  <2>1. CASE d \in swept
    BY <2>1 DEF RepairsInv, SweptIsComplete
  <2>2. CASE d \notin swept
    <3>1. d = c /\ ScriptOf[w] = "sweep" /\ job[w].resets = resets /\ ~Blocked(w)
      BY <1>4, <2>2
    <3>2. SweepJob(w)
      BY <1>2, <3>1 DEF JobOk
    <3>4. "canonical" \in job[w].had /\ "statements" \in job[w].had
      BY <3>1 DEF Blocked
    <3>3. /\ "canonical" \in db[c].kinds /\ "statements" \in db[c].kinds
          /\ db[c].stage # "none" /\ ("card" \in gives[c] => "card" \in db[c].kinds)
      BY <1>1, <3>1, <3>2, <3>4 DEF SweepJob
    <3>. QED
      BY <3>1, <3>3
  <2>. QED
    BY <2>1, <2>2
<1>7. swept' \subseteq Companies
  BY <1>2, <1>4
<1>. QED
  BY <1>3, <1>5, <1>6, <1>7, StepKeeps

LEMMA FinalizeKeeps ==
    ASSUME RepairsInv, gives' = gives, NEW w \in Hands, FinalizeCompany(w)
    PROVE  RepairsInv'
<1> DEFINE c == job[w].company
           tries == "raw" \in job[w].row.kinds /\ Without(c, "canonical")
<1>1. job[w] # NoJob /\ job[w].step = "finalize"
  BY DEF FinalizeCompany, AtStep
<1>2. /\ c \in Companies /\ DOMAIN job[w] = JobFields
      /\ job[w].resets \in Nat /\ resets \in Nat /\ job[w].resets <= resets
      /\ JobOk(w) /\ DOMAIN job = Hands
      /\ swept \subseteq Companies
      /\ "card" \in db[c].kinds => db[c].stage # "none"
      /\ db[c].stage = "reports-ready" => "card" \notin db[c].kinds
  BY <1>1, AtWork
<1>3. UNCHANGED <<phase, queue, resets, swept>>
  BY DEF FinalizeCompany
<1>4. PICK K \in IF tries THEN {db[c].kinds, With(c, {"canonical"})} ELSE {db[c].kinds} :
         /\ Store(c, K, db[c].stage)
         /\ job' = [job EXCEPT ![w] = [@ EXCEPT !.step = "park", !.seen = [kinds |-> K, stage |-> db[c].stage]]]
  BY <1>2 DEF FinalizeCompany
<1> DEFINE J == [job[w] EXCEPT !.step = "park", !.seen = [kinds |-> K, stage |-> db[c].stage]]
<1>5. /\ \A k \in db[c].kinds : k \in K
      /\ \A k \in K : k \in db[c].kinds \/ k \in gives[c]
      /\ "card" \in K => "card" \in db[c].kinds
  BY <1>4 DEF With
<1>6. DbGrows /\ CardsHaveReports'
  BY <1>2, <1>3, <1>4, <1>5, StoreKeeps
<1>7. SweptIsComplete'
  BY <1>3, <1>6, SweptKept
<1>8. job' = [job EXCEPT ![w] = J]
  BY <1>2, <1>4
<1>9. DOMAIN J = JobFields /\ J.company = c /\ J.resets = job[w].resets /\ J.step = "park"
  BY <1>2 DEF JobFields
<1> HIDE DEF J
<1>10. job'[w] = J /\ IsJob(J)
  BY <1>2, <1>8, <1>9 DEF IsJob
<1>11. JobOk(w)'
  BY <1>1, <1>2, <1>3, <1>9, <1>10 DEF JobOk, SweepJob
<1>. QED
  BY <1>2, <1>3, <1>6, <1>7, <1>8, <1>10, <1>11, StepKeeps

\* Whatever the report would have been, a parked one takes its place.
LEMMA ParkKeeps ==
    ASSUME RepairsInv, gives' = gives, NEW w \in Hands, ParkCompany(w)
    PROVE  RepairsInv'
<1> DEFINE c == job[w].company
           from == job[w].seen
           built == "raw" \in job[w].row.kinds /\ "canonical" \in from.kinds
           lost == Inserted(c, IF built THEN from ELSE [from EXCEPT !.kinds = @ \cup {"card"}])
           cards == IF "card" \in from.kinds THEN {} ELSE CardGiven(c, from)
           ready == built /\ BuiltStage(from) = "reports-ready"
           K == IF built THEN With(c, {"statements"}) \cup cards ELSE db[c].kinds
           S == IF ready THEN "reports-ready" ELSE "parked"
<1>1. job[w] # NoJob
  BY DEF ParkCompany, AtStep
<1>2. c \in Companies /\ DOMAIN job = Hands /\ swept \subseteq Companies
  BY <1>1, AtWork
<1>3. UNCHANGED <<phase, queue, resets, swept>> /\ job' = [job EXCEPT ![w] = NoJob]
  BY DEF ParkCompany
<1>4. IF lost THEN UNCHANGED db ELSE Store(c, K, S)
  BY DEF ParkCompany
<1>5. /\ \A k \in db[c].kinds : k \in K
      /\ \A k \in K : k \in db[c].kinds \/ k \in gives[c]
  BY DEF With, CardGiven
<1>6. S = "parked"
  BY DEF BuiltStage
<1> HIDE DEF K, S, lost
<1>7. DbGrows /\ CardsHaveReports'
  <2>1. CASE lost
    BY <1>3, <1>4, <2>1, DbStays
  <2>2. CASE ~lost
    BY <1>2, <1>3, <1>4, <1>5, <1>6, <2>2, StoreKeeps
  <2>. QED
    BY <2>1, <2>2
<1>8. SweptIsComplete'
  BY <1>3, <1>7, SweptKept
<1>. QED
  BY <1>2, <1>3, <1>7, <1>8, StepKeeps

LEMMA RepairsInitInv == HeldBeforeReports /\ RepairsInit => RepairsInv
<1> SUFFICES ASSUME HeldBeforeReports, RepairsInit PROVE RepairsInv
  OBVIOUS
<1>1. /\ DOMAIN db = Companies
      /\ \A c \in Companies : DOMAIN db[c] = {"kinds", "stage"} /\ db[c].kinds = Held[c] /\ db[c].stage = "none"
      /\ DOMAIN phase = Scripts /\ \A s \in Scripts : phase[s] \in {"idle", "done"}
      /\ DOMAIN job = Hands /\ \A w \in Hands : job[w] = NoJob
      /\ resets = 0 /\ swept = {}
  BY DEF RepairsInit
<1>2. DOMAIN queue = Scripts /\ \A s \in Scripts : DOMAIN queue[s] = {}
  BY NoStepsLeft DEF RepairsInit
<1>3. RepairShapes /\ SweepQueue
  BY <1>1, <1>2 DEF RepairShapes, SweepQueue
<1>4. CardsHaveReports
  BY <1>1 DEF CardsHaveReports, HeldBeforeReports
<1>. QED
  BY <1>1, <1>3, <1>4 DEF RepairsInv, JobsOk, SweptIsComplete

LEMMA RepairsStepInv == RepairsInv /\ [RepairsNext]_repairVars => RepairsInv'
<1> SUFFICES ASSUME RepairsInv, [RepairsNext]_repairVars PROVE RepairsInv'
  OBVIOUS
<1>1. CASE UNCHANGED repairVars
  <2>1. UNCHANGED <<gives, db, phase, queue, job, resets, swept>>
    BY <1>1 DEF repairVars
  <2>2. RepairShapes' /\ CardsHaveReports' /\ SweepQueue'
    BY <2>1 DEF RepairsInv, RepairShapes, IsJob, CardsHaveReports, SweepQueue, WantsReport, NoJob, Companies, Hands, Scripts
  <2>3. DbGrows
    BY <2>1, DbStays
  <2>4. JobsOk'
    BY <2>1, <2>3, JobOkKept DEF JobsOk, Hands, NoJob
  <2>5. SweptIsComplete'
    BY <2>1, <2>3, SweptKept
  <2>. QED
    BY <2>2, <2>4, <2>5 DEF RepairsInv
<1>2. CASE RepairsNext
  <2>1. gives' = gives
    BY <1>2 DEF RepairsNext
  <2>2. CASE \E s \in Scripts, reset \in BOOLEAN : StartScript(s, reset)
    BY <2>1, <2>2, StartKeeps
  <2>3. CASE \E s \in Scripts : EndPhase(s)
    BY <2>1, <2>3, EndPhaseKeeps
  <2>4. CASE \E w \in Hands : TakeRow(w) \/ RowFails(w) \/ RepairStep(w)
    <3>1. PICK w \in Hands : TakeRow(w) \/ RowFails(w) \/ RepairStep(w)
      BY <2>4
    <3>2. CASE TakeRow(w)
      BY <2>1, <3>2, TakeRowKeeps
    <3>3. CASE RowFails(w)
      BY <2>1, <3>3, GivenUpKeeps DEF RowFails
    <3>4. CASE LoseReport(w)
      BY <2>1, <3>4, GivenUpKeeps DEF LoseReport, AtStep
    <3>5. CASE RepairStep(w) /\ ~LoseReport(w)
      BY <2>1, <3>5, EnsureCoverageKeeps, ChooseStepKeeps, CanonicalizeKeeps, SnapshotKeeps, SeedReportKeeps,
         NormalizeKeeps, StatementsKeep, BeginReportKeeps, CommitReportKeeps, FinishRowKeeps, FinalizeKeeps, ParkKeeps
      DEF RepairStep
    <3>. QED
      BY <3>1, <3>2, <3>3, <3>4, <3>5
  <2>. QED
    BY <1>2, <2>2, <2>3, <2>4 DEF RepairsNext
<1>. QED
  BY <1>1, <1>2

\* Whatever scripts run beside the sweep, and whatever its normalisations lose,
\* for any companies, workers and resets: what it counted neither in error nor
\* as blocked keeps its canonical facts, statements, report and card, if the
\* companies have their filings before the scripts run.
\* (run_second_sweep.py 80-119)
THEOREM SweptStaysComplete == HeldBeforeReports => (RepairsSpec => []SweptIsComplete)
<1>1. HeldBeforeReports /\ RepairsInit => RepairsInv
  BY RepairsInitInv
<1>2. RepairsInv /\ [RepairsNext]_repairVars => RepairsInv'
  BY RepairsStepInv
<1>3. RepairsInv => SweptIsComplete
  BY DEF RepairsInv
<1>. QED
  BY <1>1, <1>2, <1>3, PTL DEF RepairsSpec

-----------------------------------------------------------------------------
(* The caches *)

CacheShapes ==
    /\ version \in Nat
    /\ memory \in [Caches -> [val : Nat, old : BOOLEAN]]
    /\ running \in [Caches -> BOOLEAN]
    /\ counter \in [Caches -> [Threads -> [at : {"gone", "count", "publish", "open", "write", "replace"}, val : Nat]]]
    /\ DOMAIN tmp = Caches /\ DOMAIN file = Caches

IsFile(x, v) == x \notin {Absent, Torn} => x.val \in Nat /\ x.val <= v

\* Nothing was counted that the database has not come to yet.
CountsArePast ==
    \A k \in Caches :
        /\ memory[k].val <= version
        /\ \A t \in Threads : counter[k][t].val <= version
        /\ IsFile(tmp[k], version) /\ IsFile(file[k], version)

Counting(k, t) == counter[k][t].at \in {"count", "publish"}

\* Until a file has failed the flag is up while a thread counts, so that one
\* counts at a time, and what it has counted is no older than what is shown.
OneCounts(k) ==
    /\ \A t \in Threads : Counting(k, t) => running[k]
    /\ \A s, t \in Threads : Counting(k, s) /\ Counting(k, t) => s = t
    /\ \A t \in Threads : counter[k][t].at = "publish" => memory[k].val <= counter[k][t].val

CachesInv ==
    /\ CacheShapes
    /\ CountsArePast
    /\ \A k \in Caches \ unwritten : OneCounts(k)

\* A step of one thread touches no other thread and no other cache.
OnlyMoves(k, t) ==
    /\ \A j \in Caches, s \in Threads : (j # k \/ s # t) => counter'[j][s] = counter[j][s]
    /\ \A j \in Caches \ {k} : memory'[j] = memory[j] /\ running'[j] = running[j]
    /\ unwritten \subseteq unwritten'

Places == {"gone", "count", "publish", "open", "write", "replace"}

CounterType == [Caches -> [Threads -> [at : Places, val : Nat]]]

LEMMA ThreadSteps ==
    ASSUME CacheShapes, NEW k \in Caches, NEW t \in Threads, NEW p \in Places,
           counter' = [counter EXCEPT ![k][t].at = p]
    PROVE  /\ counter' \in CounterType
           /\ counter'[k][t] = [at |-> p, val |-> counter[k][t].val]
           /\ counter[k][t].val \in Nat
           /\ \A j \in Caches, s \in Threads : (j # k \/ s # t) => counter'[j][s] = counter[j][s]
BY DEF CacheShapes, CounterType, Places

\* What is shown moves forward where the counts do not overtake each other.
Forward == \A k \in Caches : k \notin unwritten => memory'[k].val >= memory[k].val

LEMMA OtherCaches ==
    ASSUME CachesInv, NEW k \in Caches, NEW t \in Threads, OnlyMoves(k, t), NEW j \in Caches \ unwritten', j # k
    PROVE  OneCounts(j)'
<1>1. OneCounts(j)
  BY DEF CachesInv, OnlyMoves
<1>2. /\ \A s \in Threads : counter'[j][s] = counter[j][s]
      /\ memory'[j] = memory[j] /\ running'[j] = running[j]
  BY DEF OnlyMoves
<1>. QED
  BY <1>1, <1>2 DEF OneCounts, Counting, Threads

\* A step that shows nothing new.
LEMMA QuietStep ==
    ASSUME CachesInv, NEW k \in Caches, NEW t \in Threads, OnlyMoves(k, t),
           counter' \in CounterType, counter'[k][t].val <= version,
           memory' = memory, version' = version, running' \in [Caches -> BOOLEAN],
           DOMAIN tmp' = Caches, DOMAIN file' = Caches,
           \A j \in Caches : IsFile(tmp'[j], version) /\ IsFile(file'[j], version),
           k \notin unwritten' => OneCounts(k)'
    PROVE  CachesInv' /\ Forward
<1>1. CacheShapes'
  BY DEF CachesInv, CacheShapes, CounterType, Places
<1>2. CountsArePast'
  <2> SUFFICES ASSUME NEW j \in Caches
               PROVE  /\ memory'[j].val <= version'
                      /\ \A s \in Threads : counter'[j][s].val <= version'
                      /\ IsFile(tmp'[j], version') /\ IsFile(file'[j], version')
    BY DEF CountsArePast
  <2>1. memory[j].val <= version /\ \A s \in Threads : counter[j][s].val <= version
    BY DEF CachesInv, CountsArePast
  <2>2. \A s \in Threads : counter'[j][s].val <= version
    BY <2>1 DEF OnlyMoves
  <2>3. IsFile(tmp'[j], version') /\ IsFile(file'[j], version')
    BY DEF IsFile
  <2>. QED
    BY <2>1, <2>2, <2>3
<1>3. \A j \in Caches \ unwritten' : OneCounts(j)'
  BY OtherCaches
<1>4. Forward
  BY DEF Forward, CachesInv, CacheShapes
<1>. QED
  BY <1>1, <1>2, <1>3, <1>4 DEF CachesInv

LEMMA EntryTypes ==
    /\ \A n \in Nat : [at |-> "publish", val |-> n] \in [at : Places, val : Nat]
    /\ [at |-> "gone", val |-> 0] \in [at : Places, val : Nat]
BY DEF Places

LEMMA RefreshingKeeps ==
    ASSUME CachesInv, NEW k \in Caches, NEW t \in Threads, Refreshing(k, t)
    PROVE  CachesInv' /\ Forward
<1>0. /\ CacheShapes
      /\ \A j \in Caches : /\ memory[j].val <= version /\ memory[j].val \in Nat
                           /\ IsFile(tmp[j], version) /\ IsFile(file[j], version)
      /\ version \in Nat
      /\ counter[k][t].val <= version /\ counter[k][t].val \in Nat
      /\ running \in [Caches -> BOOLEAN]
      /\ DOMAIN tmp = Caches /\ DOMAIN file = Caches
      /\ DOMAIN running = Caches /\ DOMAIN memory = Caches
  BY DEF CachesInv, CacheShapes, CountsArePast
<1>1. k \notin unwritten => OneCounts(k)
  BY DEF CachesInv
<1>2. CASE EnsureRefresh(k, t)
  <2>1. counter' = [counter EXCEPT ![k][t].at = "count"] /\ running' = [running EXCEPT ![k] = TRUE]
        /\ ~running[k] /\ UNCHANGED <<version, memory, tmp, file, unwritten>>
    BY <1>2 DEF EnsureRefresh, MayStart
  <2>2. /\ counter' \in CounterType
        /\ counter'[k][t] = [at |-> "count", val |-> counter[k][t].val]
        /\ \A j \in Caches, s \in Threads : (j # k \/ s # t) => counter'[j][s] = counter[j][s]
    BY <1>0, <2>1, ThreadSteps DEF Places
  <2>3. OnlyMoves(k, t)
    BY <1>0, <2>1, <2>2 DEF OnlyMoves
  <2>4. k \notin unwritten' => OneCounts(k)'
    BY <1>0, <1>1, <2>1, <2>2 DEF OneCounts, Counting, Threads
  <2>9. /\ counter' \in CounterType /\ counter'[k][t].val <= version
        /\ memory' = memory /\ version' = version /\ running' \in [Caches -> BOOLEAN]
        /\ DOMAIN tmp' = Caches /\ DOMAIN file' = Caches
        /\ \A j \in Caches : IsFile(tmp'[j], version) /\ IsFile(file'[j], version)
    BY <1>0, <2>1, <2>2
  <2>. QED
    BY <2>3, <2>4, <2>9, QuietStep
<1>3. CASE Count(k, t)
  <2>1. counter' = [counter EXCEPT ![k][t] = [at |-> "publish", val |-> version]]
        /\ counter[k][t].at = "count" /\ UNCHANGED <<version, memory, running, tmp, file, unwritten>>
    BY <1>3 DEF Count
  <2>2. /\ counter' \in CounterType
        /\ counter'[k][t] = [at |-> "publish", val |-> version]
        /\ \A j \in Caches, s \in Threads : (j # k \/ s # t) => counter'[j][s] = counter[j][s]
    <3> DEFINE e == [at |-> "publish", val |-> version]
    <3>1. e \in [at : Places, val : Nat]
      BY <1>0, EntryTypes
    <3>2. counter' = [counter EXCEPT ![k][t] = e]
      BY <2>1
    <3> HIDE DEF e
    <3>3. /\ counter' \in CounterType
          /\ counter'[k][t] = e
          /\ \A j \in Caches, s \in Threads : (j # k \/ s # t) => counter'[j][s] = counter[j][s]
      <4>1. CacheShapes
        BY <1>0
      <4>. QED
        BY ONLY <4>1, <3>1, <3>2, k \in Caches, t \in Threads DEF CacheShapes, CounterType, Places
    <3>. QED
      BY <3>3 DEF e
  <2>3. OnlyMoves(k, t)
    BY <2>1, <2>2 DEF OnlyMoves
  <2>4. k \notin unwritten' => OneCounts(k)'
    BY <1>0, <1>1, <2>1, <2>2 DEF OneCounts, Counting, Threads
  <2>9. /\ counter' \in CounterType /\ counter'[k][t].val <= version
        /\ memory' = memory /\ version' = version /\ running' \in [Caches -> BOOLEAN]
        /\ DOMAIN tmp' = Caches /\ DOMAIN file' = Caches
        /\ \A j \in Caches : IsFile(tmp'[j], version) /\ IsFile(file'[j], version)
    BY <1>0, <2>1, <2>2
  <2>. QED
    BY <2>3, <2>4, <2>9, QuietStep
<1>4. CASE Publish(k, t)
  <2>1. /\ counter' = [counter EXCEPT ![k][t].at = "open"] /\ counter[k][t].at = "publish"
        /\ memory' = [memory EXCEPT ![k] = [val |-> counter[k][t].val, old |-> FALSE]]
        /\ running' = [running EXCEPT ![k] = FALSE]
        /\ UNCHANGED <<version, tmp, file, unwritten>>
    BY <1>4 DEF Publish, Step
  <2>2. /\ counter' \in CounterType
        /\ counter'[k][t] = [at |-> "open", val |-> counter[k][t].val]
        /\ \A j \in Caches, s \in Threads : (j # k \/ s # t) => counter'[j][s] = counter[j][s]
    BY <1>0, <2>1, ThreadSteps DEF Places
  <2>3. OnlyMoves(k, t)
    BY <1>0, <2>1, <2>2 DEF OnlyMoves
  <2>4. k \notin unwritten' => OneCounts(k)'
    BY <1>0, <1>1, <2>1, <2>2 DEF OneCounts, Counting, Threads
  <2>5. memory'[k].val = counter[k][t].val /\ \A j \in Caches \ {k} : memory'[j] = memory[j]
    BY <1>0, <2>1
  <2>6. CacheShapes'
    BY <1>0, <2>1, <2>2 DEF CacheShapes, CounterType, Places
  <2>7. CountsArePast'
    BY <1>0, <2>1, <2>2, <2>5 DEF CountsArePast, CachesInv, IsFile
  <2>8. \A j \in Caches \ unwritten' : OneCounts(j)'
    BY <2>3, <2>4, OtherCaches
  <2>9. Forward
    BY <1>0, <1>1, <2>1, <2>5 DEF Forward, OneCounts
  <2>. QED
    BY <2>6, <2>7, <2>8, <2>9 DEF CachesInv
<1>5. CASE OpenTmp(k, t)
  <2>1. counter' = [counter EXCEPT ![k][t].at = "write"] /\ counter[k][t].at = "open"
        /\ tmp' = [tmp EXCEPT ![k] = Torn] /\ UNCHANGED <<version, memory, running, file, unwritten>>
    BY <1>5 DEF OpenTmp, Step
  <2>2. /\ counter' \in CounterType
        /\ counter'[k][t] = [at |-> "write", val |-> counter[k][t].val]
        /\ \A j \in Caches, s \in Threads : (j # k \/ s # t) => counter'[j][s] = counter[j][s]
    BY <1>0, <2>1, ThreadSteps DEF Places
  <2>3. OnlyMoves(k, t)
    BY <2>1, <2>2 DEF OnlyMoves
  <2>4. k \notin unwritten' => OneCounts(k)'
    BY <1>0, <1>1, <2>1, <2>2 DEF OneCounts, Counting, Threads
  <2>5. DOMAIN tmp' = Caches /\ \A j \in Caches : IsFile(tmp'[j], version) /\ IsFile(file'[j], version)
    BY <1>0, <2>1 DEF IsFile
  <2>9. /\ counter' \in CounterType /\ counter'[k][t].val <= version
        /\ memory' = memory /\ version' = version /\ running' \in [Caches -> BOOLEAN]
        /\ DOMAIN tmp' = Caches /\ DOMAIN file' = Caches
        /\ \A j \in Caches : IsFile(tmp'[j], version) /\ IsFile(file'[j], version)
    BY <1>0, <2>1, <2>2, <2>5
  <2>. QED
    BY <2>3, <2>4, <2>9, QuietStep
<1>6. CASE WriteTmp(k, t)
  <2>1. counter' = [counter EXCEPT ![k][t].at = "replace"] /\ counter[k][t].at = "write"
        /\ tmp' = (IF tmp[k] = Absent THEN tmp ELSE [tmp EXCEPT ![k] = [val |-> counter[k][t].val]])
        /\ UNCHANGED <<version, memory, running, file, unwritten>>
    BY <1>6 DEF WriteTmp, Step
  <2>2. /\ counter' \in CounterType
        /\ counter'[k][t] = [at |-> "replace", val |-> counter[k][t].val]
        /\ \A j \in Caches, s \in Threads : (j # k \/ s # t) => counter'[j][s] = counter[j][s]
    BY <1>0, <2>1, ThreadSteps DEF Places
  <2>3. OnlyMoves(k, t)
    BY <2>1, <2>2 DEF OnlyMoves
  <2>4. k \notin unwritten' => OneCounts(k)'
    BY <1>0, <1>1, <2>1, <2>2 DEF OneCounts, Counting, Threads
  <2>5. DOMAIN tmp' = Caches /\ \A j \in Caches : IsFile(tmp'[j], version) /\ IsFile(file'[j], version)
    BY <1>0, <2>1 DEF IsFile
  <2>9. /\ counter' \in CounterType /\ counter'[k][t].val <= version
        /\ memory' = memory /\ version' = version /\ running' \in [Caches -> BOOLEAN]
        /\ DOMAIN tmp' = Caches /\ DOMAIN file' = Caches
        /\ \A j \in Caches : IsFile(tmp'[j], version) /\ IsFile(file'[j], version)
    BY <1>0, <2>1, <2>2, <2>5
  <2>. QED
    BY <2>3, <2>4, <2>9, QuietStep
<1>7. CASE Replace(k, t)
  <2>1. counter' = [counter EXCEPT ![k][t] = [at |-> "gone", val |-> 0]] /\ counter[k][t].at = "replace"
        /\ file' = [file EXCEPT ![k] = tmp[k]] /\ tmp' = [tmp EXCEPT ![k] = Absent]
        /\ UNCHANGED <<version, memory, running, unwritten>>
    BY <1>7 DEF Replace, Gone
  <2>2. /\ counter' \in CounterType
        /\ counter'[k][t] = [at |-> "gone", val |-> 0]
        /\ \A j \in Caches, s \in Threads : (j # k \/ s # t) => counter'[j][s] = counter[j][s]
    <3> DEFINE e == [at |-> "gone", val |-> 0]
    <3>1. e \in [at : Places, val : Nat]
      BY <1>0, EntryTypes
    <3>2. counter' = [counter EXCEPT ![k][t] = e]
      BY <2>1
    <3> HIDE DEF e
    <3>3. /\ counter' \in CounterType
          /\ counter'[k][t] = e
          /\ \A j \in Caches, s \in Threads : (j # k \/ s # t) => counter'[j][s] = counter[j][s]
      <4>1. CacheShapes
        BY <1>0
      <4>. QED
        BY ONLY <4>1, <3>1, <3>2, k \in Caches, t \in Threads DEF CacheShapes, CounterType, Places
    <3>. QED
      BY <3>3 DEF e
  <2>3. OnlyMoves(k, t)
    BY <2>1, <2>2 DEF OnlyMoves
  <2>4. k \notin unwritten' => OneCounts(k)'
    BY <1>0, <1>1, <2>1, <2>2 DEF OneCounts, Counting, Threads
  <2>5. /\ DOMAIN tmp' = Caches /\ DOMAIN file' = Caches
        /\ \A j \in Caches : IsFile(tmp'[j], version) /\ IsFile(file'[j], version)
    BY <1>0, <2>1 DEF IsFile
  <2>9. /\ counter' \in CounterType /\ counter'[k][t].val <= version
        /\ memory' = memory /\ version' = version /\ running' \in [Caches -> BOOLEAN]
        /\ DOMAIN tmp' = Caches /\ DOMAIN file' = Caches
        /\ \A j \in Caches : IsFile(tmp'[j], version) /\ IsFile(file'[j], version)
    BY <1>0, <2>1, <2>2, <2>5
  <2>. QED
    BY <2>3, <2>4, <2>9, QuietStep
<1>8. CASE RefreshFails(k, t)
  <2>1. counter' = [counter EXCEPT ![k][t] = [at |-> "gone", val |-> 0]]
        /\ running' = [running EXCEPT ![k] = FALSE]
        /\ unwritten' = (IF counter[k][t].at = "count" THEN unwritten ELSE unwritten \cup {k})
        /\ UNCHANGED <<version, memory, tmp, file>>
    BY <1>8 DEF RefreshFails, Gone
  <2>2. /\ counter' \in CounterType
        /\ counter'[k][t] = [at |-> "gone", val |-> 0]
        /\ \A j \in Caches, s \in Threads : (j # k \/ s # t) => counter'[j][s] = counter[j][s]
    <3> DEFINE e == [at |-> "gone", val |-> 0]
    <3>1. e \in [at : Places, val : Nat]
      BY <1>0, EntryTypes
    <3>2. counter' = [counter EXCEPT ![k][t] = e]
      BY <2>1
    <3> HIDE DEF e
    <3>3. /\ counter' \in CounterType
          /\ counter'[k][t] = e
          /\ \A j \in Caches, s \in Threads : (j # k \/ s # t) => counter'[j][s] = counter[j][s]
      <4>1. CacheShapes
        BY <1>0
      <4>. QED
        BY ONLY <4>1, <3>1, <3>2, k \in Caches, t \in Threads DEF CacheShapes, CounterType, Places
    <3>. QED
      BY <3>3 DEF e
  <2>3. OnlyMoves(k, t)
    BY <1>0, <2>1, <2>2 DEF OnlyMoves
  <2>4. k \notin unwritten' => OneCounts(k)'
    BY <1>0, <1>1, <2>1, <2>2 DEF OneCounts, Counting, Threads
  <2>9. /\ counter' \in CounterType /\ counter'[k][t].val <= version
        /\ memory' = memory /\ version' = version /\ running' \in [Caches -> BOOLEAN]
        /\ DOMAIN tmp' = Caches /\ DOMAIN file' = Caches
        /\ \A j \in Caches : IsFile(tmp'[j], version) /\ IsFile(file'[j], version)
    BY <1>0, <2>1, <2>2
  <2>. QED
    BY <2>3, <2>4, <2>9, QuietStep
<1>. QED
  BY <1>2, <1>3, <1>4, <1>5, <1>6, <1>7, <1>8 DEF Refreshing

LEMMA CachesInitInv == CachesInit => CachesInv
<1> SUFFICES ASSUME CachesInit PROVE CachesInv
  OBVIOUS
<1>1. CacheShapes
  BY DEF CachesInit, CacheShapes, Gone
<1>2. CountsArePast
  BY DEF CachesInit, CountsArePast, IsFile, Gone
<1>3. \A k \in Caches : OneCounts(k)
  BY DEF CachesInit, OneCounts, Counting, Gone
<1>. QED
  BY <1>1, <1>2, <1>3 DEF CachesInv

LEMMA CachesStep ==
    ASSUME CachesInv, [CachesNext]_cacheVars
    PROVE  CachesInv' /\ (~LoadCaches => Forward)
<1>1. CASE UNCHANGED cacheVars
  <2>1. UNCHANGED <<version, memory, running, counter, tmp, file, unwritten>>
    BY <1>1 DEF cacheVars
  <2>. QED
    BY <2>1 DEF CachesInv, CacheShapes, CountsArePast, IsFile, OneCounts, Counting, Forward
<1>2. CASE DatabaseChanges
  <2>1. version' = version + 1 /\ UNCHANGED <<memory, running, counter, tmp, file, unwritten>>
    BY <1>2 DEF DatabaseChanges
  <2>2. CacheShapes'
    BY <2>1 DEF CachesInv, CacheShapes
  <2>3. CountsArePast'
    <3>1. \A k \in Caches : memory[k].val \in Nat /\ \A t \in Threads : counter[k][t].val \in Nat
      BY DEF CachesInv, CacheShapes
    <3>. QED
      BY <2>1, <3>1 DEF CachesInv, CacheShapes, CountsArePast, IsFile
  <2>4. (\A k \in Caches \ unwritten : OneCounts(k))' /\ Forward
    BY <2>1 DEF CachesInv, CacheShapes, OneCounts, Counting, Forward
  <2>. QED
    BY <2>2, <2>3, <2>4 DEF CachesInv
<1>3. CASE LoadCaches
  <2>1. /\ memory' = [k \in Caches |-> [val |-> IF file[k] \in {Absent, Torn} THEN 0 ELSE file[k].val, old |-> TRUE]]
        /\ running' = [k \in Caches |-> FALSE]
        /\ counter' = [k \in Caches |-> [t \in Threads |-> [at |-> "gone", val |-> 0]]]
        /\ UNCHANGED <<version, tmp, file>>
    BY <1>3 DEF LoadCaches, Gone
  <2>2. \A k \in Caches : /\ memory'[k].val \in Nat /\ memory'[k].val <= version
                          /\ memory'[k] = [val |-> memory'[k].val, old |-> TRUE]
    <3> SUFFICES ASSUME NEW k \in Caches
                 PROVE  /\ memory'[k].val \in Nat /\ memory'[k].val <= version
                        /\ memory'[k] = [val |-> memory'[k].val, old |-> TRUE]
      OBVIOUS
    <3>1. IsFile(file[k], version) /\ version \in Nat
      BY DEF CachesInv, CacheShapes, CountsArePast
    <3> DEFINE v == IF file[k] \in {Absent, Torn} THEN 0 ELSE file[k].val
    <3>2. memory'[k] = [val |-> v, old |-> TRUE]
      BY <2>1
    <3>3. v \in Nat /\ v <= version
      BY <3>1 DEF IsFile
    <3>. HIDE DEF v
    <3>. QED
      BY <3>2, <3>3
  <2>3. CacheShapes'
    <3>1. memory' \in [Caches -> [val : Nat, old : BOOLEAN]]
      BY <2>1, <2>2
    <3>. QED
      BY <2>1, <3>1 DEF CachesInv, CacheShapes
  <2>4. CountsArePast'
    BY <2>1, <2>2 DEF CachesInv, CacheShapes, CountsArePast, IsFile
  <2>5. (\A k \in Caches \ unwritten : OneCounts(k))'
    BY <2>1 DEF OneCounts, Counting
  <2>. QED
    BY <1>3, <2>3, <2>4, <2>5 DEF CachesInv
<1>4. ASSUME NEW k \in Caches, CacheAges(k) PROVE CachesInv' /\ Forward
  <2>1. memory' = [memory EXCEPT ![k].old = TRUE] /\ UNCHANGED <<version, running, counter, tmp, file, unwritten>>
    BY <1>4 DEF CacheAges
  <2>2. /\ memory' \in [Caches -> [val : Nat, old : BOOLEAN]]
        /\ \A j \in Caches : memory'[j].val = memory[j].val /\ memory[j].val \in Nat
    BY <2>1 DEF CachesInv, CacheShapes
  <2>3. CacheShapes' /\ CountsArePast'
    BY <2>1, <2>2 DEF CachesInv, CacheShapes, CountsArePast, IsFile
  <2>4. (\A j \in Caches \ unwritten : OneCounts(j))' /\ Forward
    BY <2>1, <2>2 DEF CachesInv, OneCounts, Counting, Forward
  <2>. QED
    BY <2>3, <2>4 DEF CachesInv
<1>. QED
  BY <1>1, <1>2, <1>3, <1>4, RefreshingKeeps DEF CachesNext

\* For any caches, changes, failures and restarts: a slow count never puts old
\* figures over newer ones, unless the file of that cache could not be written.
\* (api/app.py 293-315, 436-470)
THEOREM CachesMoveForward == CachesSpec => FiguresMoveForward
<1>1. CachesInit => CachesInv
  BY CachesInitInv
<1>2. CachesInv /\ [CachesNext]_cacheVars => CachesInv'
  BY CachesStep
<1>3. CachesInv /\ [CachesNext]_cacheVars =>
        [\A k \in Caches : (k \notin unwritten /\ ~LoadCaches) => memory'[k].val >= memory[k].val]_cacheVars
  BY CachesStep DEF Forward, cacheVars
<1>. QED
  BY <1>1, <1>2, <1>3, PTL DEF CachesSpec, FiguresMoveForward

=============================================================================
