---------------------------- MODULE PrefetchQueue ----------------------------
(***************************************************************************)
(* PrefetchQueue of src/perf.rs: items are taken in order, and a callback  *)
(* is told of those that come next, so that they can be fetched ahead.     *)
(* The items are numbered from 0, and hints are the numbers of the items.  *)
(***************************************************************************)
EXTENDS Naturals

CONSTANTS
  Counts,               \* lookahead counts a caller may ask for
  MAX_LOOKAHEAD_COUNT,
  MaxItems              \* bound on the items of the queue

VARIABLES
  items,            \* how many items the queue has
  current_index,
  lookahead_count,
  hinted            \* history: the items the callback was told of

queue == <<items, current_index, lookahead_count, hinted>>

\* mutant of ClampCount: no lookahead is possible
UnclampedCount(count) == count

ClampCount(count) ==
  IF count < 1 THEN 1
  ELSE IF count > MAX_LOOKAHEAD_COUNT THEN MAX_LOOKAHEAD_COUNT ELSE count

\* the items from index on that are within the lookahead
Window(index, count, n) ==
  {i \in index..(index + count - 1) : i < n}

\* to be conjoined to an assignment of the other three
send_hints ==
  hinted' = hinted \cup Window(current_index', lookahead_count', items')

\* new
QueueInit ==
  /\ items \in 0..MaxItems
  /\ current_index = 0
  /\ lookahead_count \in {ClampCount(count) : count \in Counts}
  /\ hinted = Window(0, lookahead_count, items)

\* advance, next and advance_index
advance ==
  /\ current_index < items
  /\ current_index' = current_index + 1
  /\ UNCHANGED <<items, lookahead_count>>
  /\ send_hints

set_lookahead_count(count) ==
  /\ lookahead_count' = ClampCount(count)
  /\ UNCHANGED <<items, current_index>>
  /\ send_hints

\* mutant of extend_items: the items are hinted by the next advance
extend_items_unhinted(n) ==
  /\ items + n <= MaxItems
  /\ items' = items + n
  /\ UNCHANGED <<current_index, lookahead_count, hinted>>

extend_items(n) ==
  /\ items + n <= MaxItems
  /\ items' = items + n
  /\ UNCHANGED <<current_index, lookahead_count>>
  /\ send_hints

peek_upcoming(count) == Window(current_index, count, items)
=============================================================================
