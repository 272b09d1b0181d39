------------------------------- MODULE MCPrisma -------------------------------
(* Instances of pages and transactions, packages/prisma, for TLC.  They      *)
(* share nothing: a behaviour uses one and leaves the other as it began.     *)
EXTENDS Naturals

CONSTANTS Rows, PageSize, Pending,
          Calls, MaxAttempts, RetryableCodes

VARIABLES part,
          mode, includeDeleted, table, cursor, page, found, counted, walked, done,
          steady, removed, changed, torn, stray,
          pc, attempt, lost, commits

pages == INSTANCE Pagination WITH served <- walked
transactions == INSTANCE RunTransaction

ASSUME PrismaAssumption ==
  pages!PaginationAssumption /\ transactions!TransactionAssumption

pageVars == <<mode, includeDeleted, table, cursor, page, found, counted, walked, done,
              steady, removed, changed, torn, stray>>
transactionVars == <<pc, attempt, lost, commits>>

MCInit ==
  /\ part \in {"pages", "transactions"}
  /\ pages!Init /\ transactions!Init
  /\ part = "transactions" =>
       mode = "cursor" /\ includeDeleted /\ table = [r \in Rows |-> "absent"]

MCNext ==
  \/ part = "pages" /\ pages!Next /\ UNCHANGED transactionVars
  \/ part = "transactions" /\ transactions!Next /\ UNCHANGED pageVars

MCSpec == MCInit /\ [][MCNext /\ UNCHANGED part]_<<part, pageVars, transactionVars>>
-----------------------------------------------------------------------------
(* A walk through the pages misses and repeats no more than it must.         *)
WalkServesAll == pages!WalkServesAll

(* runTransaction() applies fn at most once, however often it tries.         *)
AppliedOnce == transactions!AppliedOnce
=============================================================================
