------------------------------- MODULE Keyset -------------------------------
(***************************************************************************)
(* The walk a client makes through a paged list while the list changes:    *)
(* the messages of a conversation, conversations, matches, notifications   *)
(* and the discovery feed.  All five ask for one row more than the page,   *)
(* and continue after the last row shown, not at an offset.                *)
(*                                                                         *)
(* A row stands for whatever its query may return.  Its place is the first *)
(* part of the sort key (a time, or a score that is compared as text); its *)
(* number is its id.  Which rows qualify (filters, blocks, swipes) shows   *)
(* as rows that come and go.                                               *)
(***************************************************************************)
EXTENDS Integers, Sequences, SequencesExt, FiniteSets

CONSTANTS RowIds,       \* ids, a finite set of numbers
          Places,       \* times or scores, a finite set of numbers
          PageSize      \* rows of a page

ASSUME KeysetAssumption ==
  /\ RowIds \subseteq Nat /\ IsFiniteSet(RowIds)
  /\ Places \subseteq Nat \ {0} /\ IsFiniteSet(Places)
  /\ PageSize \in Nat \ {0}

Lists == {"messages", "conversations", "matches", "notifications", "feed"}

VARIABLES list,    \* which of them is walked
          place,   \* place[r]: where row r is now, 0 when the query omits it
          walk,    \* "fresh", "between" pages, or "ended"
          cursor,  \* the position after which the next page begins
          shown,   \* history: how often each row was shown in this walk
          steady,  \* history: the rows that were there all the time, unmoved
          moved    \* history: the rows that changed place during the walk

listRows == <<list, place>>
walkState == <<walk, cursor>>
walkHistory == <<shown, steady, moved>>
keysetVars == <<listRows, walkState, walkHistory>>

NoPosition == [place |-> 0, row |-> 0]
Positions == [place: Places, row: RowIds]

KeysetTypeOK ==
  /\ list \in Lists
  /\ place \in [RowIds -> Places \cup {0}]
  /\ walk \in {"fresh", "between", "ended"}
  /\ cursor \in Positions \cup {NoPosition}
  /\ shown \in [RowIds -> Nat]
  /\ steady \subseteq RowIds
  /\ moved \subseteq RowIds

-----------------------------------------------------------------------------
There(r) == place[r] # 0

\* A message, a match or a notification keeps its time.  Activity moves a
\* conversation, and a retake or new weights a candidate.  Blocks and swipes
\* take away and give back all but messages and notifications.
Moves == {"conversations", "feed"}
Leaves == {"conversations", "matches", "feed"}

\* A row turns up: it commits, perhaps with a time older than rows that are
\* there (created_at is the start of its transaction), or it qualifies again.
Appear(r, p) ==
  /\ ~There(r)
  /\ place' = [place EXCEPT ![r] = p]
  /\ UNCHANGED <<list, walkState, walkHistory>>

Move(r, p) ==
  /\ list \in Moves
  /\ There(r) /\ place[r] # p
  /\ place' = [place EXCEPT ![r] = p]
  /\ steady' = steady \ {r}
  /\ moved' = moved \cup {r}
  /\ UNCHANGED <<list, walkState, shown>>

\* A row that may come back elsewhere counts as moved.
Leave(r) ==
  /\ list \in Leaves
  /\ There(r)
  /\ place' = [place EXCEPT ![r] = 0]
  /\ steady' = steady \ {r}
  /\ moved' = moved \cup {r}
  /\ UNCHANGED <<list, walkState, shown>>

-----------------------------------------------------------------------------
PositionOf(r) == [place |-> place[r], row |-> r]

\* Fault: the cursor is compared by time alone, so that rows sharing it are lost.
AfterByPlaceOnly(x, y) == x.place < y.place

\* The feed: the score is lower, or the same with a greater user_id.
FeedAfter(x, y) == x.place < y.place \/ (x.place = y.place /\ x.row > y.row)

\* The lists by time: (time, id) < (the cursor's).
TimeAfter(x, y) == x.place < y.place \/ (x.place = y.place /\ x.row < y.row)

After(x, y) == IF list = "feed" THEN FeedAfter(x, y) ELSE TimeAfter(x, y)

\* No cursor, or the row comes after it.
Selected(from) ==
  {r \in RowIds : There(r) /\ (from = NoPosition \/ After(PositionOf(r), from))}

\* ORDER BY time DESC, id DESC; the feed by score DESC, user_id ASC.
RanksBefore(r, s) ==
  IF place[r] # place[s] THEN place[r] > place[s]
  ELSE IF list = "feed" THEN r < s ELSE r > s

InOrder(rows) ==
  CHOOSE s \in [1 .. Cardinality(rows) -> rows] :
    \A i, j \in DOMAIN s : i < j => RanksBefore(s[i], s[j])

\* LIMIT: one row more than the page, to see whether there is another page.
Fetch(from) ==
  LET rows == InOrder(Selected(from))
  IN  SubSeq(rows, 1, IF Len(rows) > PageSize + 1 THEN PageSize + 1 ELSE Len(rows))

HasMore(rows) == Len(rows) > PageSize

\* Messages are turned round for the chat view, and the extra row and the row of
\* the cursor are then at the front ...
ChatPage(rows) ==
  LET oldestFirst == Reverse(rows)
      page == IF HasMore(rows) THEN Tail(oldestFirst) ELSE oldestFirst
  IN  [items |-> page, last |-> IF page = <<>> THEN 0 ELSE Head(page)]

\* ... everywhere else at the end.
ListPage(rows) ==
  LET page == IF HasMore(rows) THEN SubSeq(rows, 1, PageSize) ELSE rows
  IN  [items |-> page, last |-> IF page = <<>> THEN 0 ELSE page[Len(page)]]

PageOf(rows) == IF list = "messages" THEN ChatPage(rows) ELSE ListPage(rows)

\* A page is one statement, so it sees the rows of one moment.
FetchPage ==
  /\ walk # "ended"
  /\ LET rows == Fetch(cursor)
         page == PageOf(rows)
         more == HasMore(rows)
     IN  /\ shown' = [r \in RowIds |->
                        IF r \in ToSet(page.items) THEN shown[r] + 1 ELSE shown[r]]
         /\ cursor' = IF more THEN PositionOf(page.last) ELSE NoPosition
         /\ walk' = IF more THEN "between" ELSE "ended"
         /\ steady' = IF walk = "fresh" THEN {r \in RowIds : There(r)} ELSE steady
         /\ moved' = IF walk = "fresh" THEN {} ELSE moved
  /\ UNCHANGED listRows

KeysetInit ==
  /\ list \in Lists
  /\ place \in [RowIds -> Places \cup {0}]
  /\ walk = "fresh"
  /\ cursor = NoPosition
  /\ shown = [r \in RowIds |-> 0]
  /\ steady = {}
  /\ moved = {}

ListStep(r) == Leave(r) \/ \E p \in Places : Appear(r, p) \/ Move(r, p)

KeysetNext == FetchPage \/ \E r \in RowIds : ListStep(r)

KeysetSpec == KeysetInit /\ [][KeysetNext]_keysetVars

-----------------------------------------------------------------------------
\* What has been walked past: everything, once there is no next cursor.
Passed(r) ==
  \/ walk = "ended"
  \/ walk = "between" /\ ~After(PositionOf(r), cursor)

\* "pagination stays stable when rows share a timestamp" (cursor.go:15-16): a
\* row that is there all the time is shown exactly once when the walk passes it,
\* and no row is shown twice unless it moved, whatever comes and goes meanwhile.
WalksAreComplete ==
  /\ \A r \in steady : shown[r] = IF Passed(r) THEN 1 ELSE 0
  /\ \A r \in RowIds \ moved : shown[r] <= 1
=============================================================================
