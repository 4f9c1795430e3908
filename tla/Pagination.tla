------------------------------ MODULE Pagination ------------------------------
(***************************************************************************)
(* The paged listings, GET /payments/history and GET /users: a client asks *)
(* for page after page, until the totals it is told say that there is no   *)
(* more, while rows come and go.  Each action is one awaited call with the *)
(* synchronous code that follows it; pc names what is about to be awaited. *)
(*                                                                         *)
(* Without a $sort the database returns rows as they were inserted: the    *)
(* users by a scan of the collection, the history of a wallet by the index *)
(* on walletId.                                                            *)
(***************************************************************************)
EXTENDS Integers, FiniteSets, SequencesExt

CONSTANTS
  Rows,      \* the ids of rows; the page of users is sorted by them
  Limits,    \* the numbers clients send as limit
  Pages,     \* the numbers clients send for the first page
  Default,   \* the limit of a page that asks for none: 200
  Faults,    \* what the environment may do: "db"
  Absent     \* a parameter that is not sent

ASSUME PagesAssumption ==
  /\ Rows \subseteq Int
  /\ Default \in Nat \ {0}
  /\ Absent \notin Int
  /\ Limits \subseteq Int \cup {Absent}
  /\ Pages \subseteq {n \in Int : n <= 1} \cup {Absent}

VARIABLES
  listing,  \* which listing this client walks
  rows,     \* the rows the query selects, in the order of insertion
  pc,       \* what the handler awaits next
  limit,    \* the options of the request: rows per page
  page,     \* and the page
  total,    \* what countDocuments said
  shown,    \* the page answered last
  answer,   \* the answer to the request before
  got,      \* history: all the rows the client was shown
  start,    \* history: the rows when the client began
  left,     \* history: since then, a row was deleted or matches no more
  joined    \* history: since then, a row came in before the end, or came back

request == <<limit, page, total, shown, answer, got>>
vars == <<listing, rows, pc, limit, page, total, shown, answer, got,
          start, left, joined>>

Walking == pc \notin {"new", "done"}

Init ==
  /\ listing \in {"history", "users"}
  /\ rows = <<>>
  /\ pc = "new"
  /\ limit = Default /\ page = 1 /\ total = 0
  /\ shown = <<>> /\ answer = "none"
  /\ got = <<>> /\ start = <<>>
  /\ left = FALSE /\ joined = FALSE

-----------------------------------------------------------------------------
(***************************************************************************)
(* The options, which are built twice on the way to the query, and the     *)
(* arithmetic of pages.                                                    *)
(***************************************************************************)
\* Mutant: a negative number gets through.
Options_signed(l, p) ==
  [limit |-> IF l \in {Absent, 0} THEN Default ELSE l,
   page  |-> IF p \in {Absent, 0} THEN 1 ELSE p]
Options(l, p) ==
  [limit |-> IF l \in {Absent, 0} \/ l < 0 THEN Default ELSE l,
   page  |-> IF p \in {Absent, 0} \/ p < 0 THEN 1 ELSE p]

\* Mutant: the last page does not count if it is not full.
TotalPages_floor(n, l) == n \div l
TotalPages(n, l) == (n + l - 1) \div l

\* Mutant: pages are counted from 0.
Skip_zero(l, p) == l * p
Skip(l, p) == l * (p - 1)

Cut(s, l, p) == SubSeq(s, Skip(l, p) + 1, IF Skip(l, p) + l < Len(s) THEN Skip(l, p) + l ELSE Len(s))

\* The i-th row is the one with i rows of the page at or above it.
Rank(s, r) == Cardinality({q \in ToSet(s) : q >= r})
ByIdDown(s) == [i \in 1 .. Len(s) |-> CHOOSE r \in ToSet(s) : Rank(s, r) = i]

\* rawQueryPaginate sorts what it has cut, findPaginate nothing.
\* Mutants: the users are sorted before they are cut; the last row is cut off.
Page_sorted(l, p) == Cut(IF listing = "users" THEN ByIdDown(rows) ELSE rows, l, p)
Page_short(l, p) == Cut(rows, l - 1, p)
Page(l, p) == IF listing = "users" THEN ByIdDown(Cut(rows, l, p)) ELSE Cut(rows, l, p)

-----------------------------------------------------------------------------
(***************************************************************************)
(* A request.                                                              *)
(***************************************************************************)
\* The users are counted at once, the wallet of the history is looked up first.
First == IF listing = "history" THEN "customer" ELSE "count"

\* What is no number is refused; a search that is no regular expression fails.
Ask ==
  /\ pc = "new"
  /\ \/ /\ \E l \in Limits, p \in Pages :
             LET o == Options(l, p) IN
             /\ limit' = Options(o.limit, o.page).limit
             /\ page' = Options(o.limit, o.page).page
        /\ pc' = First /\ start' = rows
        /\ UNCHANGED answer
     \/ /\ answer' = "rejected" \/ (listing = "users" /\ answer' = "error")
        /\ pc' = "done"
        /\ UNCHANGED <<limit, page, start>>
  /\ UNCHANGED <<listing, rows, total, shown, got, left, joined>>

\* The next page, or once more the one that failed.
AskAgain ==
  /\ pc = "idle"
  /\ pc' = First
  /\ UNCHANGED <<listing, rows, request, start, left, joined>>

\* The user may have no customer, the customer no wallet.
Lookup(step, next) ==
  /\ pc = step
  /\ \/ pc' = next /\ UNCHANGED answer
     \/ pc' = "done" /\ answer' = "rejected"
  /\ UNCHANGED <<listing, rows, limit, page, total, shown, got, start, left, joined>>
FindCustomer == Lookup("customer", "wallet")
FindWallet == Lookup("wallet", "count")

Count ==
  /\ pc = "count" /\ pc' = "find"
  /\ total' = Len(rows)
  /\ UNCHANGED <<listing, rows, limit, page, shown, answer, got, start, left, joined>>

\* The client goes on until the page is the last one.
Find ==
  /\ pc = "find"
  /\ shown' = Page(limit, page)
  /\ got' = got \o Page(limit, page)
  /\ answer' = "ok"
  /\ IF page < TotalPages(total, limit)
       THEN pc' = "idle" /\ page' = page + 1
       ELSE pc' = "done" /\ UNCHANGED page
  /\ UNCHANGED <<listing, rows, limit, total, start, left, joined>>

-----------------------------------------------------------------------------
(***************************************************************************)
(* Meanwhile.                                                              *)
(***************************************************************************)
\* A transaction of the wallet, or a user that matches: it may have been deleted
\* before.
Insert(r) ==
  /\ rows' = Append(rows, r)
  /\ joined' = (joined \/ r \in ToSet(got))
  /\ UNCHANGED <<listing, pc, request, start, left>>

\* PUT /users/:id gives a user an address that matches the search.
Enter(r) ==
  /\ listing = "users"
  /\ \E i \in 1 .. Len(rows) : rows' = InsertAt(rows, i, r)
  /\ joined' = (joined \/ Walking)
  /\ UNCHANGED <<listing, pc, request, start, left>>

\* DELETE /users/:id, or an address that no longer matches.  Nothing deletes or
\* changes a transaction.
Leave(r) ==
  /\ listing = "users"
  /\ \E i \in 1 .. Len(rows) : rows[i] = r /\ rows' = RemoveAt(rows, i)
  /\ left' = (left \/ Walking)
  /\ UNCHANGED <<listing, pc, request, start, joined>>

Collection ==
  \E r \in Rows : IF r \in ToSet(rows) THEN Leave(r) ELSE Insert(r) \/ Enter(r)

\* Whichever call fails, the client is told 500, and may ask again.
DbError ==
  /\ "db" \in Faults
  /\ pc \in {"customer", "wallet", "count", "find"}
  /\ pc' = "idle" /\ answer' = "error"
  /\ UNCHANGED <<listing, rows, limit, page, total, shown, got, start, left, joined>>

Request == Ask \/ AskAgain \/ FindCustomer \/ FindWallet \/ Count \/ Find \/ DbError

\* What comes after the last page is of no interest.
Finished == pc = "done" /\ UNCHANGED vars

Next ==
  \/ Request
  \/ pc # "done" /\ Collection
  \/ Finished

Spec == Init /\ [][Next]_vars

-----------------------------------------------------------------------------
(***************************************************************************)
(* Properties.                                                             *)
(***************************************************************************)
\* Types: whatever a client sends, a page has a positive size and number, and rows
\* are rows.
PagesInRange ==
  /\ listing \in {"history", "users"}
  /\ rows \in Seq(Rows)
  /\ pc \in {"new", "idle", "customer", "wallet", "count", "find", "done"}
  /\ limit \in Nat \ {0} /\ page \in Nat \ {0} /\ total \in Nat
  /\ shown \in Seq(Rows) /\ got \in Seq(Rows) /\ start \in Seq(Rows)
  /\ answer \in {"none", "ok", "rejected", "error"}
  /\ left \in BOOLEAN /\ joined \in BOOLEAN

\* The pages of the history, put together, are the ledger of the wallet from its
\* first entry on, without a gap or a repetition, whatever is paid meanwhile and
\* however often a page failed and was asked again.
HistoryInOrder == listing = "history" => IsPrefix(got, rows)

\* Who walked to the end has seen every row that was there at the beginning,
\* if none was deleted and none slipped in before the end: rows appended
\* between the count and the find, or between two pages, hide nothing.
NothingMissed ==
  pc = "done" /\ answer = "ok" /\ ~left /\ ~joined => ToSet(start) \subseteq ToSet(got)

\* No row is shown twice unless one came back or slipped in: rows appended or
\* deleted between two pages do not repeat others, for pages are cut in the
\* order of insertion and sorted only then.
NothingTwice == ~joined => IsInjective(got)

\* The page is what its totals promise, unless a row was deleted: countDocuments
\* runs before find, so rows that come in between only make the page fuller.
PageAsPromised ==
  answer = "ok" /\ pc \in {"idle", "done"} /\ ~left =>
    LET p == IF pc = "done" THEN page ELSE page - 1
        promised == total - Skip(limit, p)
    IN  Len(shown) >= (IF promised < limit THEN promised ELSE limit)
=============================================================================
