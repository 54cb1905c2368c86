------------------------------- MODULE Listing -------------------------------
(***************************************************************************)
(* The tables an administrator searches and turns the pages of: the audit  *)
(* log, and the bans of the threats page. Search, page and page size live  *)
(* in the URL. A search waits 300 ms in a timer that remembers the URL of  *)
(* when it was typed; a page that shows another search mounts the search   *)
(* box anew, and leaves the timers of the old one running. The server      *)
(* counts and selects the rows in two statements, while rows come and go.  *)
(***************************************************************************)
EXTENDS Naturals, Sequences, FiniteSets

CONSTANTS
  MaxRows,     \* bound: rows ever inserted; numbered as they come
  FirstRows,   \* how many are there at first
  Hits,        \* the rows the search term matches
  Sizes,       \* rows on a page
  MaxClicks    \* bound: what the administrator does

ASSUME ListingAssumption ==
  /\ MaxRows \in Nat \ {0} /\ FirstRows \in 0..MaxRows /\ Sizes \subseteq Nat \ {0}
  /\ Sizes # {} /\ MaxClicks \in Nat

VARIABLES
  table,    \* "audit" or "bans"
  log,      \* rows in the order of the table, the newest first
  inserted, \* how many rows ever were
  shown,    \* what the browser shows
  box,      \* the text in the search box
  size,     \* history: the page size chosen last
  timers,   \* searches waiting, the oldest first
  own,      \* the last of them was set by the search box that is mounted
  going,    \* the URL that is loading, or none
  counted,  \* of that load: how many rows match, or Uncounted
  clicks,
  walk,     \* history: of going from page to page of the audit log
  crossed   \* history: two things were asked of one URL

listingVars ==
  <<table, log, inserted, shown, box, size, timers, own, going, counted, clicks,
    walk, crossed>>

server == <<log, inserted>>
Terms  == {"", "term"}
URLs   == [q : Terms, page : 1..MaxRows, size : Sizes]
NoURL  == [q |-> "none", page |-> 1, size |-> 1]
Uncounted == [count |-> 0, gone |-> FALSE, known |-> FALSE]
Row    == 1..MaxRows

ListingTypeOK ==
  /\ table \in {"audit", "bans"} /\ log \in Seq(Row) /\ inserted \in 0..MaxRows
  /\ shown.url \in URLs /\ shown.page \in 1..MaxRows /\ shown.pages \in 1..MaxRows
  /\ shown.rows \in SUBSET Row /\ shown.count \in 0..MaxRows /\ shown.gone \in BOOLEAN
  /\ box \in Terms /\ size \in Sizes /\ own \in BOOLEAN /\ crossed \in BOOLEAN
  /\ timers \in Seq([q : Terms, url : URLs])
  /\ going \in URLs \cup {NoURL} /\ clicks \in 0..MaxClicks
  /\ counted \in [count : 0..MaxRows, gone : BOOLEAN, known : BOOLEAN]
  /\ walk \in [on : BOOLEAN, next : BOOLEAN, seen : SUBSET Row, held : SUBSET Row]

Smaller(i, j) == IF i < j THEN i ELSE j

\* Where the rows are that a search finds, and the how manieth one of them is.
Matching(rows, q) == {i \in DOMAIN rows : q = "" \/ rows[i] \in Hits}
Place(rows, q, k) == Cardinality({i \in Matching(rows, q) : i <= k})
Found(rows, q)    == {rows[i] : i \in Matching(rows, q)}

\* Math.max(1, Math.ceil(total / pageSize))
Pages(count, n) == IF count = 0 THEN 1 ELSE (count + n - 1) \div n

\* Mutant of Clamp: the page that was asked for.
Asked(page, pages) == page

Clamp(page, pages) == Smaller(page, pages)

\* limit and offset
Slice(rows, q, page, n) ==
  {rows[i] : i \in {k \in Matching(rows, q) :
                      (page - 1) * n < Place(rows, q, k) /\ Place(rows, q, k) <= page * n}}

ListingInit ==
  LET rows  == [i \in 1..FirstRows |-> FirstRows + 1 - i]
      first == CHOOSE n \in Sizes : \A m \in Sizes : n <= m
  IN  /\ table \in {"audit", "bans"} /\ log = rows /\ inserted = FirstRows
      /\ shown = [url |-> [q |-> "", page |-> 1, size |-> first], page |-> 1,
                  pages |-> Pages(FirstRows, first), rows |-> Slice(rows, "", 1, first),
                  count |-> FirstRows, gone |-> FALSE]
      /\ box = "" /\ size = first /\ timers = <<>> /\ own = FALSE
      /\ going = NoURL /\ counted = Uncounted /\ clicks = 0 /\ crossed = FALSE
      /\ walk = [on |-> TRUE, next |-> FALSE, held |-> Found(rows, ""),
                 seen |-> Slice(rows, "", 1, first)]

-----------------------------------------------------------------------------
(* The browser.                                                            *)

Click == clicks < MaxClicks /\ clicks' = clicks + 1 /\ UNCHANGED <<table, server, shown>>

\* router.replace: what is still loading is given up.
Navigate(url, forward) ==
  /\ going' = url /\ counted' = Uncounted
  /\ walk' = [walk EXCEPT !.next = forward]

\* Mutant of Type: the first text that was typed is searched for.
TypeOnce(v) ==
  /\ Click /\ v # box /\ box' = v
  /\ timers' = IF own THEN timers ELSE Append(timers, [q |-> v, url |-> shown.url])
  /\ own' = TRUE
  /\ crossed' = (crossed \/ (going # NoURL /\ going.size # shown.url.size))
  /\ UNCHANGED <<size, going, counted, walk>>

\* updateSearch: the timer of this search box is replaced.
Type(v) ==
  /\ Click /\ v # box /\ box' = v
  /\ timers' = Append(IF own THEN SubSeq(timers, 1, Len(timers) - 1) ELSE timers,
                      [q |-> v, url |-> shown.url])
  /\ own' = TRUE
  /\ crossed' = (crossed \/ (going # NoURL /\ going.size # shown.url.size))
  /\ UNCHANGED <<size, going, counted, walk>>

\* The bans have a page parameter of their own, which a search leaves.
FirstPage(url) == IF table = "audit" THEN [url EXCEPT !.page = 1] ELSE url

SearchFires ==
  /\ timers # <<>> /\ timers' = Tail(timers) /\ own' = (own /\ Len(timers) > 1)
  /\ Navigate([FirstPage(Head(timers).url) EXCEPT !.q = Head(timers).q], FALSE)
  /\ UNCHANGED <<table, server, shown, box, size, clicks, crossed>>

Waiting == going # NoURL \/ timers # <<>>

ChooseSize(n) ==
  /\ Click /\ n # shown.url.size /\ size' = n
  /\ Navigate([FirstPage(shown.url) EXCEPT !.size = n], FALSE)
  /\ crossed' = (crossed \/ Waiting) /\ UNCHANGED <<box, timers, own>>

TurnTo(page, forward) ==
  /\ Click /\ Navigate([shown.url EXCEPT !.page = page], forward)
  /\ crossed' = (crossed \/ Waiting) /\ UNCHANGED <<box, size, timers, own>>

NextPage     == shown.page < shown.pages /\ TurnTo(shown.page + 1, TRUE)

PreviousPage == shown.page > 1 /\ TurnTo(shown.page - 1, FALSE)

-----------------------------------------------------------------------------
(* The server renders the page.                                            *)

Count ==
  /\ going # NoURL /\ ~counted.known
  /\ counted' = [count |-> Cardinality(Matching(log, going.q)), gone |-> FALSE, known |-> TRUE]
  /\ UNCHANGED <<table, server, shown, box, size, timers, own, going, clicks, walk, crossed>>

\* The rows, and the page that shows them; key={query} mounts the box anew.
Select ==
  LET url   == going
      pages == Pages(counted.count, url.size)
      page  == Clamp(url.page, pages)
      rows  == Slice(log, url.q, page, url.size)
      anew  == url.q # shown.url.q
  IN /\ counted.known
     /\ shown' = [url |-> url, page |-> page, pages |-> pages, rows |-> rows,
                  count |-> counted.count, gone |-> counted.gone]
     /\ box' = (IF anew THEN url.q ELSE box) /\ own' = (own /\ ~anew)
     /\ walk' = IF page = 1
                THEN [on |-> TRUE, next |-> FALSE, seen |-> rows,
                      held |-> Found(log, url.q)]
                ELSE IF walk.on /\ walk.next /\ page = shown.page + 1
                THEN [walk EXCEPT !.next = FALSE, !.seen = @ \cup rows]
                ELSE [on |-> FALSE, next |-> FALSE, seen |-> {}, held |-> {}]
     /\ going' = NoURL /\ counted' = Uncounted
     /\ UNCHANGED <<table, server, size, timers, clicks, crossed>>

-----------------------------------------------------------------------------
(* The rows.                                                               *)

RowsChange ==
  UNCHANGED <<table, shown, box, size, timers, own, going, clicks, walk, crossed>>

With(k, row) == SubSeq(log, 1, k) \o <<row>> \o SubSeq(log, k + 1, Len(log))

\* created_at is when the transaction began: the newest may not come first.
Insert ==
  /\ inserted < MaxRows /\ inserted' = inserted + 1
  /\ \E k \in 0..Smaller(1, Len(log)) : log' = With(k, inserted + 1)
  /\ UNCHANGED counted /\ RowsChange

Without(k) == SubSeq(log, 1, k - 1) \o SubSeq(log, k + 1, Len(log))

\* The Runtime Agent deletes what is old: of the bans, any that has ended.
Delete ==
  /\ log # <<>> /\ UNCHANGED inserted
  /\ \E k \in DOMAIN log :
       (table = "audit" => k = Len(log)) /\ log' = Without(k)
  /\ counted' = [counted EXCEPT !.gone = counted.known] /\ RowsChange

ToFront(k) == <<log[k]>> \o Without(k)

\* A ban that is changed moves to the front of its table.
Touch ==
  /\ table = "bans" /\ UNCHANGED inserted
  /\ \E k \in DOMAIN log : k > 1 /\ log' = ToFront(k)
  /\ UNCHANGED counted /\ RowsChange

ListingNext ==
  \/ \E v \in Terms : Type(v)
  \/ \E n \in Sizes : ChooseSize(n)
  \/ SearchFires \/ NextPage \/ PreviousPage \/ Count \/ Select
  \/ Insert \/ Delete \/ Touch

ListingSpec == ListingInit /\ [][ListingNext]_listingVars

-----------------------------------------------------------------------------
(* Properties.                                                             *)

\* A table is shown empty only when nothing matched, or rows were deleted
\* between the two statements: a page that no longer exists, or that a search
\* left behind, becomes the last one.
EmptyOnlyIfNone ==
  shown.rows = {} => shown.count = 0 \/ shown.gone

\* Whoever goes through the audit log from its first page by "next page" sees
\* every row up to where they are, of those there were when they began, though
\* rows are inserted, also late, and deleted meanwhile.
WalkSkipsNothing ==
  table = "audit" /\ walk.on =>
    \A i, j \in DOMAIN log :
      i <= j /\ log[j] \in shown.rows /\ log[i] \in walk.held
        => log[i] \in walk.seen

\* Whatever happens to the rows between two statements and two pages.
ListingHolds == ListingTypeOK /\ EmptyOnlyIfNone /\ WalkSkipsNothing

\* When nothing is pending, the search box holds the term of the rows below it,
\* and the page size is the one chosen last, also when searches overlap loading.
\* Not so when a page or a size was chosen while something was pending, or a
\* search was typed while a size was loading: each works on the URL it saw.
SettledShowsAsked ==
  ~Waiting /\ ~crossed => box = shown.url.q /\ size = shown.url.size

\* The strengthening. Where a search and a size are on their way to the screen:
\* in the box and its timer, in the URL that loads, or already shown.
SettledInv ==
  /\ own => timers # <<>>
  /\ ~crossed =>
       /\ own => timers[Len(timers)].q = box
       /\ ~own => \/ box = shown.url.q
                  \/ timers = <<>> /\ going # NoURL /\ box = going.q
       /\ going = NoURL \/ timers # <<>> => shown.url.size = size
       /\ going # NoURL => going.size = size
       /\ \A i \in DOMAIN timers : timers[i].url.size = size

\* A row is in the table once. What was counted is still there unless rows were
\* deleted.
RowsInv ==
  /\ Len(log) <= inserted /\ \A i \in DOMAIN log : log[i] <= inserted
  /\ \A i, j \in DOMAIN log : log[i] = log[j] => i = j
  /\ counted.known => going # NoURL
  /\ counted.known /\ ~counted.gone => counted.count <= Cardinality(Matching(log, going.q))
  /\ EmptyOnlyIfNone /\ \A r \in shown.rows : r <= inserted

\* Rows of the audit log only move down, so that whatever precedes the end of the
\* page that is shown was on this page or one before it.
WalkInv ==
  table = "audit" /\ walk.on =>
    /\ \A r \in walk.held : r <= inserted /\ (shown.url.q = "" \/ r \in Hits)
    /\ walk.next => going = [shown.url EXCEPT !.page = shown.page + 1]
    /\ \A i \in Matching(log, shown.url.q) :
         log[i] \in walk.held /\ Place(log, shown.url.q, i) <= shown.page * shown.url.size
           => log[i] \in walk.seen
    /\ WalkSkipsNothing

ListingInv == ListingTypeOK /\ SettledInv /\ RowsInv /\ WalkInv
=============================================================================
