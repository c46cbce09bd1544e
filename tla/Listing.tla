------------------------------ MODULE Listing ------------------------------
(* A folder of the dashboard read page by page (web/dashboard.rs, dashboard_handler;  *)
(* web/api.rs, list_emails_handler) while mail goes on arriving.                       *)
(*                                                                                     *)
(* A page is two queries: the rows of the page, by LIMIT and OFFSET, and the number of *)
(* rows, from which the number of pages follows.  They are separate SQL texts, each    *)
(* with its own WHERE clause, and nothing holds the tables still between them or       *)
(* between two pages.                                                                  *)
EXTENDS Naturals, Sequences, FiniteSets

CONSTANTS
  Mail,        \* the mail a mailbox is made of: [kind, starred, hits]
  Views,       \* what a reader opens: [folder, active], active the filters of the URL
  PageSize,    \* page_size, 10 in the code
  MaxRows,     \* bound on the rows of the mailbox when the reader opens it
  MaxChanges,  \* bound on what happens to the mailbox meanwhile
  MaxFaults    \* bound on failing queries

Kinds == {"root", "child", "draft", "sending", "sent", "failed"}
Filters == {"alias", "query", "label"}

ASSUME ListingAssumption ==
  /\ Mail \subseteq [kind : Kinds, starred : BOOLEAN, hits : SUBSET Filters]
  /\ Views \subseteq [folder : {"inbox", "sent", "drafts", "favorites"},
                      active : SUBSET Filters]
  /\ PageSize \in Nat \ {0} /\ MaxRows \in Nat /\ MaxChanges \in Nat /\ MaxFaults \in Nat

VARIABLES
  rows,     \* the mailbox in the order of the folder's ORDER BY, most recent first
  reader,   \* [view, phase, page, total]: the page on screen, or being fetched
  shown,    \* the rows the reader has been shown so far
  wanted,   \* the rows that were in the folder when its first page was read
  blank,    \* the page just read had no rows
  excused,  \* a row has left the folder, or an error was shown as an empty answer
  changes,  \* changes made so far
  faults    \* faults met so far

listingVars == <<rows, reader, shown, wanted, blank, excused, changes, faults>>

----------------------------------------------------------------------------
(* The queries.  "hits" are the filters a row satisfies; the label filter exists only  *)
(* for the inbox, and looks at the labels of the thread's first mail.                  *)

Matches(r, active) == active \subseteq r.hits

\* The three queries for the rows.
InboxLists(v, r) == r.kind = "root" /\ Matches(r, v.active)
SentLists(v, r) ==
  /\ r.kind = IF v.folder = "drafts" THEN "draft" ELSE "sent"
  /\ Matches(r, v.active \ {"label"})
FavoritesList(v, r) ==
  /\ r.starred /\ r.kind \notin {"child", "draft"}
  /\ Matches(r, v.active \ {"label"})

\* The three queries for their number.  First, the inbox without "thread_id IS NULL".
InboxCountsReplies(v, r) == r.kind \in {"root", "child"} /\ Matches(r, v.active)
InboxCounts(v, r) == r.kind = "root" /\ Matches(r, v.active)
SentCounts(v, r) ==
  /\ r.kind = IF v.folder = "drafts" THEN "draft" ELSE "sent"
  /\ Matches(r, v.active \ {"label"})
FavoritesCount(v, r) ==
  \/ r.kind = "root" /\ r.starred /\ Matches(r, v.active \ {"label"})
  \/ /\ r.kind \in {"sending", "sent", "failed"} /\ r.starred
     /\ Matches(r, v.active \ {"label"})

\* dashboard_handler picks the queries by the folder of the URL.
Listed(v, r) ==
  CASE v.folder = "inbox" -> InboxLists(v, r)
    [] v.folder \in {"sent", "drafts"} -> SentLists(v, r)
    [] v.folder = "favorites" -> FavoritesList(v, r)
Counted(v, r) ==
  CASE v.folder = "inbox" -> InboxCounts(v, r)
    [] v.folder \in {"sent", "drafts"} -> SentCounts(v, r)
    [] v.folder = "favorites" -> FavoritesCount(v, r)

\* The rows of the folder by their places in the mailbox, and the number of them up to
\* and with a place.
Folder(s, v) == {i \in DOMAIN s : Listed(v, s[i])}
Rank(s, v, i) == Cardinality({j \in Folder(s, v) : j <= i})
Count(s, v) == Cardinality({i \in DOMAIN s : Counted(v, s[i])})
Ids(s, places) == {s[i].id : i \in places}

\* LIMIT page_size OFFSET (page - 1) * page_size.
Page(s, v, page) ==
  {i \in Folder(s, v) :
     Rank(s, v, i) \in ((page - 1) * PageSize + 1)..(page * PageSize)}

calculate_total_pages(count) ==
  IF count = 0 THEN 1 ELSE (count + PageSize - 1) \div PageSize

----------------------------------------------------------------------------
(* The reader.                                                                         *)

Idle == [view |-> [folder |-> "none", active |-> {}], phase |-> "idle", page |-> 0,
         total |-> 0]

ListingInit ==
  /\ rows = <<>> /\ reader = Idle
  /\ shown = {} /\ wanted = {}
  /\ blank = FALSE /\ excused = FALSE
  /\ changes = 0 /\ faults = 0

\* A reader opens a folder of a mailbox that is already there.
Open ==
  /\ reader.phase = "idle"
  /\ \E n \in 0..MaxRows : \E s \in [1..n -> Mail] : \E v \in Views :
       /\ rows' = [i \in 1..n |-> [id |-> i, kind |-> s[i].kind, starred |-> s[i].starred,
                                   hits |-> s[i].hits]]
       /\ reader' = [view |-> v, phase |-> "list", page |-> 1, total |-> 1]
  /\ UNCHANGED <<shown, wanted, blank, excused, changes, faults>>

FolderIds(s) == Ids(s, Folder(s, reader.view))

\* The first query of the page.
ListRows ==
  /\ reader.phase = "list"
  /\ LET page == Page(rows, reader.view, reader.page)
     IN  /\ shown' = shown \cup Ids(rows, page)
         /\ wanted' = IF reader.page = 1 THEN FolderIds(rows) ELSE wanted
         /\ blank' = (page = {})
  /\ reader' = [reader EXCEPT !.phase = "count"]
  /\ UNCHANGED <<rows, excused, changes, faults>>

\* It fails: the inbox and the favourites answer with an error, and the reader may ask
\* again; a sent folder shows an empty page.
ListFails ==
  /\ reader.phase = "list" /\ faults < MaxFaults
  /\ faults' = faults + 1
  /\ IF reader.view.folder \in {"inbox", "favorites"}
     THEN UNCHANGED <<reader, blank, excused>>
     ELSE /\ reader' = [reader EXCEPT !.phase = "count"]
          /\ blank' = TRUE /\ excused' = TRUE
  /\ UNCHANGED <<rows, shown, wanted, changes>>

\* The second query, and the page is on screen.
CountRows ==
  /\ reader.phase = "count"
  /\ reader' = [reader EXCEPT !.phase = "shown",
                  !.total = calculate_total_pages(Count(rows, reader.view))]
  /\ UNCHANGED <<rows, shown, wanted, blank, excused, changes, faults>>

\* It fails: the folder is shown as having a single page.
CountFails ==
  /\ reader.phase = "count" /\ faults < MaxFaults
  /\ faults' = faults + 1
  /\ reader' = [reader EXCEPT !.phase = "shown", !.total = calculate_total_pages(0)]
  /\ excused' = TRUE
  /\ UNCHANGED <<rows, shown, wanted, blank, changes>>

\* The link to the next page, dead on the last one.
NextPage ==
  /\ reader.phase = "shown" /\ reader.page < reader.total
  /\ reader' = [reader EXCEPT !.phase = "list", !.page = @ + 1]
  /\ UNCHANGED <<rows, shown, wanted, blank, excused, changes, faults>>

----------------------------------------------------------------------------
(* What happens to the mailbox between the queries.  A row that moves to the top counts *)
(* as new: the reader need not look for it further down.                               *)

Fresh == Len(rows) + changes + 1
Drop(i) == SubSeq(rows, 1, i - 1) \o SubSeq(rows, i + 1, Len(rows))
ToTop(i, r) == <<r>> \o Drop(i)

Becomes(s, moved) ==
  /\ reader.phase # "idle" /\ changes < MaxChanges
  /\ changes' = changes + 1
  /\ rows' = s
  /\ wanted' = wanted \ moved
  /\ excused' = (excused \/ ~(FolderIds(rows) \subseteq FolderIds(s)))
  /\ UNCHANGED <<reader, shown, blank, faults>>

\* New mail is received, or a new draft is saved.
Arrive ==
  \E m \in {n \in Mail : n.kind \in {"root", "draft"}} :
    Becomes(<<[id |-> Fresh, kind |-> m.kind, starred |-> m.starred, hits |-> m.hits]>>
              \o rows, {})

\* A reply is received: the conversation's last activity is now.
ReplyArrives ==
  \E i \in DOMAIN rows :
    /\ rows[i].kind = "root"
    /\ Becomes(<<[rows[i] EXCEPT !.id = Fresh, !.kind = "child", !.starred = FALSE]>>
                 \o ToTop(i, rows[i]), {rows[i].id})

\* A draft is sent, and the sending ends.  The sent folder keeps the date of creation;
\* among the favourites the date of sending counts once there is one.
Advance ==
  \E i \in DOMAIN rows : \E k \in Kinds :
    /\ <<rows[i].kind, k>> \in {<<"draft", "sending">>, <<"sending", "sent">>,
                                <<"sending", "failed">>}
    /\ LET r == [rows[i] EXCEPT !.kind = k]
       IN  IF reader.view.folder = "favorites" /\ k = "sent"
           THEN Becomes(ToTop(i, r), {r.id})
           ELSE Becomes([rows EXCEPT ![i] = r], {})

\* A mail gets its label from the backfill, or its star is toggled.
Mark ==
  \E i \in DOMAIN rows :
    \/ Becomes([rows EXCEPT ![i].hits = @ \cup {"label"}], {})
    \/ Becomes([rows EXCEPT ![i].starred = ~@], {})

Delete == \E i \in DOMAIN rows : Becomes(Drop(i), {})
=============================================================================
