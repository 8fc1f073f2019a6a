--------------------------- MODULE KeysetListing ---------------------------
(* The cursor-paged lists of the admin API: events and audit records, newest *)
(* first by (created_at, id), and ordering streams by (destination, key). A  *)
(* reader follows the cursors while rows come and go. created_at is the      *)
(* start of the writing transaction, so a row may become visible behind rows *)
(* that are already listed.                                                  *)
EXTENDS Naturals, FiniteSets

CONSTANTS
    RowKey,      \* the sort keys rows can have, numbers; the list runs downwards
    PageLimit,   \* filter.Limit
    MaxWrites    \* bound: rows inserted or deleted during a behaviour

ASSUME ListingConstants ==
    /\ RowKey \subseteq Nat \ {0} /\ IsFiniteSet(RowKey)
    /\ PageLimit \in Nat \ {0} /\ MaxWrites \in Nat

VARIABLES
    stored,   \* the keys of the visible rows
    used,     \* keys no new row can have: ids are never handed out twice
    steady,   \* rows visible since the reader's first page
    shown,    \* rows shown so far, and those shown more than once
    repeated,
    cursor,   \* the cursor of the next request; 0 for none
    reader,   \* "none", "paging" or "done"
    writes

listingVars == <<stored, used, steady, shown, repeated, cursor, reader, writes>>

\* ORDER BY key DESC LIMIT n.
Top(rows, n) == {k \in rows : Cardinality({j \in rows : j > k}) < n}
Bottom(rows) == CHOOSE k \in rows : \A j \in rows : k <= j

InsertRow(k) ==
    /\ k \notin used /\ writes < MaxWrites
    /\ stored' = stored \cup {k} /\ used' = used \cup {k} /\ writes' = writes + 1
    /\ UNCHANGED <<steady, shown, repeated, cursor, reader>>

\* Cleanup deletes a row, or its status leaves the filter of the list.
DeleteRow(k) ==
    /\ k \in stored /\ writes < MaxWrites
    /\ stored' = stored \ {k} /\ steady' = steady \ {k} /\ writes' = writes + 1
    /\ UNCHANGED <<used, shown, repeated, cursor, reader>>

StartReading ==
    /\ reader = "none"
    /\ reader' = "paging" /\ steady' = stored
    /\ UNCHANGED <<stored, used, shown, repeated, cursor, writes>>

\* The row of the next cursor, of the PageLimit + 1 rows fetched: the last one
\* shown. The mutant takes the extra one.
CursorOfFetched(fetched) == Bottom(fetched)
CursorOf(fetched) == Bottom(Top(fetched, PageLimit))

\* eventWhere keeps the rows strictly behind the cursor.
Behind(k) == cursor = 0 \/ k < cursor

ReadPage ==
    LET fetched == Top({k \in stored : Behind(k)}, PageLimit + 1)
        page    == Top(fetched, PageLimit)
    IN  /\ reader = "paging"
        /\ shown' = shown \cup page
        /\ repeated' = repeated \cup (shown \cap page)
        /\ \/ /\ Cardinality(fetched) <= PageLimit
              /\ reader' = "done" /\ UNCHANGED cursor
           \/ /\ Cardinality(fetched) > PageLimit
              /\ cursor' = CursorOf(fetched) /\ UNCHANGED reader
        /\ UNCHANGED <<stored, used, steady, writes>>

ListingInit ==
    /\ stored \in SUBSET RowKey /\ used = stored
    /\ steady = {} /\ shown = {} /\ repeated = {}
    /\ cursor = 0 /\ reader = "none" /\ writes = 0

ListingNext ==
    \/ \E k \in RowKey : InsertRow(k) \/ DeleteRow(k)
    \/ StartReading \/ ReadPage

ListingSpec == ListingInit /\ [][ListingNext]_listingVars

-----------------------------------------------------------------------------
\* Following the cursors to the end shows every row that stayed in the list
\* from the first page to the last, and no row twice, whatever is inserted or
\* deleted between the pages, the cursor's own row included (ListEvents,
\* ListAudit and ListOrderingStreams with normalizePageResult).
ListingIsComplete ==
    /\ repeated = {}
    /\ reader = "done" => steady \subseteq shown
=============================================================================
