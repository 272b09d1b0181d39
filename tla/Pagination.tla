------------------------------ MODULE Pagination ------------------------------
(* packages/prisma: a reader walks through all pages of a table, with        *)
(* paginateCursor or paginateOffset, while others insert, delete, soft-      *)
(* delete and restore rows.  A row is its place in the order of the pages.   *)
EXTENDS Naturals, FiniteSets, Collections

CONSTANTS Rows,      \* 1 .. the number of rows there can be
          PageSize,  \* take, or pageSize
          Pending    \* a query that has not been answered

PaginationAssumption ==
  /\ Rows \subseteq Nat \ {0} /\ IsFiniteSet(Rows)
  /\ PageSize \in Nat \ {0}
  /\ Pending \notin Nat /\ Pending \notin Seq(Rows)

VARIABLES mode,            \* which of the two functions the reader calls
          includeDeleted,  \* whether its where has excludeSoftDeleted()
          table,           \* of each row: "absent", "there" or "deleted"
          cursor,          \* of the next page; 0: undefined
          page,            \* of the next page
          found, counted,  \* answers of the two queries of paginateOffset
          served,          \* what the reader has got
          done,            \* its last page said hasNextPage: false
          steady,          \* history: rows it could see all the time
          removed,         \* history: during the walk a row went out of sight
          changed,         \* history: ... or came into sight
          torn,            \* history: ... between the queries of one page
          stray            \* history: a cursor's row was out of sight

progress == <<cursor, page, found, counted, served, done>>
history == <<steady, removed, changed, torn, stray>>
vars == <<mode, includeDeleted, table, cursor, page, found, counted, served, done,
          steady, removed, changed, torn, stray>>

States == {"absent", "there", "deleted"}

TypeOK ==
  /\ mode \in {"cursor", "offset"} /\ includeDeleted \in BOOLEAN
  /\ table \in [Rows -> States]
  /\ cursor \in Rows \cup {0} /\ page \in Nat \ {0}
  /\ found \in Seq(Rows) \cup {Pending} /\ counted \in Nat \cup {Pending}
  /\ served \in Seq(Rows) /\ done \in BOOLEAN
  /\ steady \subseteq Rows
  /\ {removed, changed, torn, stray} \subseteq BOOLEAN
-----------------------------------------------------------------------------
(* Faulty variants of the operators below, used to check that the            *)
(* properties can fail.                                                      *)
NoneExtra == PageSize
-----------------------------------------------------------------------------
(* The rows a query with this where clause matches, in order.                *)
SightOf(t) == {r \in Rows : t[r] = "there" \/ (includeDeleted /\ t[r] = "deleted")}
Matching == Ascending(SightOf(table))

FirstOf(n, rows) == SubSeq(rows, 1, IF n < Len(rows) THEN n ELSE Len(rows))
After(n, rows) == SubSeq(rows, n + 1, Len(rows))

(* findMany with a cursor starts at its row.  When that row is not among     *)
(* the matching ones there is no promise what a database answers: nothing,   *)
(* or the rows that come after its place.                                    *)
FromCursor ==
  IF cursor = 0 THEN {Matching}
  ELSE LET rest == Kept(Matching, {r \in Rows : r >= cursor})
       IN  IF cursor \in SightOf(table) THEN {After(1, rest)} ELSE {<<>>, After(1, rest)}

Init ==
  /\ mode \in {"cursor", "offset"} /\ includeDeleted \in BOOLEAN
  /\ table \in [Rows -> States]
  /\ cursor = 0 /\ page = 1 /\ found = Pending /\ counted = Pending
  /\ served = <<>> /\ done = FALSE
  /\ steady = SightOf(table)
  /\ removed = FALSE /\ changed = FALSE /\ torn = FALSE /\ stray = FALSE

(* One more than a page, to know whether there is a next one.                *)
Take == PageSize + 1

(* paginateCursor(): the query is answered from the table of one moment.     *)
CursorPage ==
  /\ mode = "cursor" /\ ~done
  /\ \E rows \in FromCursor :
       LET results == FirstOf(Take, rows)
           hasNextPage == Len(results) > PageSize
           data == IF hasNextPage THEN FirstOf(PageSize, results) ELSE results
       IN  /\ served' = served \o data
           /\ cursor' = IF hasNextPage THEN Last(data) ELSE 0
           /\ done' = ~hasNextPage
  /\ stray' = (stray \/ cursor \notin SightOf(table) \cup {0})
  /\ UNCHANGED <<table, page, found, counted, steady, removed, changed, torn>>

(* paginateOffset(): Promise.all of two queries, answered in any order.      *)
FindMany ==
  /\ mode = "offset" /\ ~done /\ found = Pending
  /\ found' = FirstOf(PageSize, After((page - 1) * PageSize, Matching))
  /\ UNCHANGED <<table, cursor, page, counted, served, done, history>>

Count ==
  /\ mode = "offset" /\ ~done /\ counted = Pending
  /\ counted' = Len(Matching)
  /\ UNCHANGED <<table, cursor, page, found, served, done, history>>

TotalPages(n) == IF n = 0 THEN 1 ELSE (n + PageSize - 1) \div PageSize

OffsetPage ==
  /\ found # Pending /\ counted # Pending
  /\ served' = served \o found
  /\ done' = (page >= TotalPages(counted))
  /\ page' = IF done' THEN page ELSE page + 1
  /\ found' = Pending /\ counted' = Pending
  /\ UNCHANGED <<table, cursor, history>>

(* A write of somebody else.                                                 *)
Write(r, state) ==
  /\ ~done
  /\ table' = [table EXCEPT ![r] = state]
  /\ steady' = steady \cap SightOf(table')
  /\ removed' = (removed \/ ~(SightOf(table) \subseteq SightOf(table')))
  /\ changed' = (changed \/ SightOf(table) # SightOf(table'))
  /\ torn' = (torn \/ (/\ SightOf(table) # SightOf(table')
                       /\ (found = Pending) # (counted = Pending)))
  /\ UNCHANGED <<progress, stray>>

Insert(r) == table[r] = "absent" /\ Write(r, "there")

HardDelete(r) == table[r] # "absent" /\ Write(r, "absent")

(* SoftDeleteRepository.delete() and restore(); update needs the row.        *)
SoftDelete(r) == table[r] # "absent" /\ Write(r, "deleted")

Restore(r) == table[r] # "absent" /\ Write(r, "there")

Read == CursorPage \/ FindMany \/ Count \/ OffsetPage

Step ==
  \/ Read
  \/ \E r \in Rows : Insert(r) \/ HardDelete(r) \/ SoftDelete(r) \/ Restore(r)

Next == Step /\ UNCHANGED <<mode, includeDeleted>>

Spec == Init /\ [][Next]_vars
-----------------------------------------------------------------------------
(* Pages by cursor serve no row twice and keep the order, whatever is        *)
(* inserted and deleted meanwhile, and miss no row that was there all the    *)
(* time, unless the row of a cursor was deleted.  Pages by number may repeat *)
(* rows when others are inserted, but miss none, unless a row was deleted or *)
(* one came between the two queries of a page; over a table that does not    *)
(* change they serve every row once.                                         *)
WalkServesAll ==
  /\ TypeOK
  /\ mode = "cursor" => \A i, j \in DOMAIN served : i < j => served[i] < served[j]
  /\ done /\ (IF mode = "cursor" THEN ~stray ELSE ~removed /\ ~torn) =>
       steady \subseteq ToSet(served)
  /\ done /\ ~changed => served = Matching

(* pagination.ts:66, README: cursor pages are stable under concurrent        *)
(* inserts and deletes: the rows that were there all the time are served.    *)
StableUnderDeletes == done /\ mode = "cursor" => steady \subseteq ToSet(served)
=============================================================================
