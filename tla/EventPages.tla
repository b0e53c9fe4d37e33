------------------------------ MODULE EventPages ------------------------------
(***************************************************************************)
(* What a control client reads of a branch's schedule over several         *)
(* requests, while the store changes: the events page by page, each page   *)
(* continued from the cursor of the one before (ScheduledEventPage), and   *)
(* the batch the next scheduler step would run (NextDueBatch).  The two    *)
(* never bear on each other: the client holds one of them at a time.       *)
(***************************************************************************)
EXTENDS TwinStore, SequencesExt

CONSTANTS
  PageSizes,   \* page limits a client asks for
  Filters      \* status filters a client asks for; None lists everything

ASSUME PageAssumption ==
  /\ PageSizes \subseteq Nat \ {0}
  /\ Filters \subseteq Processed \cup {Pending, "canceled", None}
  /\ None # Pending

VARIABLES
  listing,   \* the pages a client has put together, and the cursor of the last
  preview    \* a NextDueBatch a client has read

pageVars == <<listing, preview>>

\* The events a query lists: every one that was scheduled, or those of a status.
Filtered(state, filter) ==
  {x \in Present(state) : filter \in {None, state.events[x].status}}

\* The sequences of the members of a set, each once, in the order of scheduledEvents.
Sorted(state, set) ==
  {s \in [1..Cardinality(set) -> set] :
     \A i, j \in DOMAIN s : i < j => Before(state, s[i], s[j])}

ScheduledEvents(state, filter) ==
  CHOOSE s \in Sorted(state, Filtered(state, filter)) : TRUE

\* What schedulerDigest is taken of: the scheduler, not the world.
Scheduler(state) == [events |-> state.events, next |-> state.next]

NoCursor == [head |-> 0, scheduler |-> None, filter |-> None, after |-> None]
\* state: history, the state the first page was of.
NoListing == [on |-> None, filter |-> None, state |-> None, got |-> <<>>, cursor |-> NoCursor]
NoPreview == [on |-> None, head |-> 0, due |-> 0, pending |-> 0, size |-> 0, actions |-> 0]

PageInit == StoreInit /\ listing = NoListing /\ preview = NoPreview

-----------------------------------------------------------------------------
\* A page of events from index start on, and the cursor that continues it:
\* bound to head, scheduler, filter and the last event of the page.
Page(events, start, size) ==
  SubSeq(events, start, IF start + size - 1 < Len(events) THEN start + size - 1 ELSE Len(events))

CursorAfter(b, filter, events, got) ==
  IF Len(got) = Len(events) THEN NoCursor
  ELSE [head |-> branch[b].head, scheduler |-> Scheduler(branch[b].state), filter |-> filter,
        after |-> got[Len(got)]]

\* The connection is free and the branch exists: scanBranch reads one state.
Readable(b) == tx.on = None /\ Known(b)

\* ScheduledEventPage without a cursor.
FirstPage(b, filter, size) ==
  LET events == ScheduledEvents(branch[b].state, filter)
      got == Page(events, 1, size)
  IN /\ Readable(b)
     /\ listing' = [on |-> b, filter |-> filter, state |-> branch[b].state, got |-> got,
                    cursor |-> CursorAfter(b, filter, events, got)]
     /\ preview' = NoPreview
     /\ UNCHANGED storeVars

\* Fault: the cursor is only looked up in the events of the day.
CursorAdmittedByEvent(b, events) ==
  LET cursor == listing.cursor
  IN cursor.filter = listing.filter /\ \E i \in DOMAIN events : events[i] = cursor.after

\* A cursor is good for the head, the scheduler and the filter it was made for.
CursorAdmitted(b, events) ==
  LET cursor == listing.cursor
  IN /\ cursor.head = branch[b].head
     /\ cursor.scheduler = Scheduler(branch[b].state)
     /\ cursor.filter = listing.filter
     /\ \E i \in DOMAIN events : events[i] = cursor.after

\* Fault: a page starts with the event its cursor names.
NextStartAgain(events) == CHOOSE i \in DOMAIN events : events[i] = listing.cursor.after

\* A page starts behind the event its cursor names.
NextStart(events) == 1 + CHOOSE i \in DOMAIN events : events[i] = listing.cursor.after

\* ScheduledEventPage with the cursor of the page before; a conflict makes the
\* client give up what it has.
NextPage(size) ==
  LET b == listing.on
      events == ScheduledEvents(branch[b].state, listing.filter)
      got == listing.got \o Page(events, NextStart(events), size)
  IN /\ listing.cursor # NoCursor
     /\ Readable(b)
     /\ listing' = IF CursorAdmitted(b, events)
                   THEN [listing EXCEPT !.got = got,
                                        !.cursor = CursorAfter(b, listing.filter, events, got)]
                   ELSE NoListing
     /\ UNCHANGED <<storeVars, preview>>

-----------------------------------------------------------------------------
\* Fault: the batch may end with one action too many.
BatchSizePastActions(pending, due) ==
  LET fits(n) ==
        /\ n < Len(pending) /\ due[n + 1] = due[1] /\ n < MaxScheduledDelivery
        /\ ~(pending[n + 1] \in Actions
             /\ Cardinality({i \in 1..n : pending[i] \in Actions}) > MaxScheduledActions)
  IN CHOOSE n \in 0..Len(pending) : ~fits(n) /\ \A k \in 0..(n - 1) : fits(k)

\* scheduledBatchSize counts along the pending events: it stops at the end of
\* the instant, at the budget of events, and before an action too many.
BatchSize(pending, due) ==
  LET fits(n) ==
        /\ n < Len(pending) /\ due[n + 1] = due[1] /\ n < MaxScheduledDelivery
        /\ ~(pending[n + 1] \in Actions
             /\ Cardinality({i \in 1..n : pending[i] \in Actions}) >= MaxScheduledActions)
  IN CHOOSE n \in 0..Len(pending) : ~fits(n) /\ \A k \in 0..(n - 1) : fits(k)

\* NextDueBatch: the earliest pending instant, how many events it holds, and how
\* many of them, with how many actions, the next step takes.
NextDueBatch(b) ==
  LET state == branch[b].state
      pending == ScheduledEvents(state, Pending)
      due == [i \in DOMAIN pending |-> state.events[pending[i]].due]
      size == BatchSize(pending, due)
  IN /\ Readable(b)
     /\ pending # <<>>
     /\ preview' = [on |-> b, head |-> branch[b].head, due |-> due[1],
                    pending |-> Cardinality({i \in DOMAIN due : due[i] = due[1]}),
                    size |-> size,
                    actions |-> Cardinality({i \in 1..size : pending[i] \in Actions})]
     /\ listing' = NoListing
     /\ UNCHANGED storeVars

RequiresDrain(p) == p.pending > p.size

PageNext ==
  \/ StoreNext /\ UNCHANGED pageVars
  \/ \E b \in Branches :
       \/ \E filter \in Filters, size \in PageSizes : FirstPage(b, filter, size)
       \/ NextDueBatch(b)
  \/ \E size \in PageSizes : NextPage(size)

PageSpec == PageInit /\ [][PageNext]_<<storeVars, pageVars>>

-----------------------------------------------------------------------------
(***************************************************************************)
(* Properties.                                                             *)
(***************************************************************************)
\* Pages put together are the schedule of one state: no event is skipped, none
\* listed twice and none out of order, however the branch changed, was stepped or
\* reset between two requests; and the page without a cursor is the last
\* (ScheduledEventPage, SPEC on head-and-digest-bound pages).
ListingIsOneState ==
  listing.on # None =>
    LET all == ScheduledEvents(listing.state, listing.filter)
    IN /\ IsPrefix(listing.got, all)
       /\ listing.cursor = NoCursor <=> listing.got = all

\* A step that commits over the head a client previewed does what NextDueBatch
\* said: it processes that many events, that many actions among them, all of the
\* previewed instant, stops the clock there, and leaves events of that instant
\* pending exactly if a drain was announced (advanceClockToNext).
PreviewComesTrue ==
  [][LET b == preview.on
         before == PendingEvents(branch[b].state)
         after == PendingEvents(branch'[b].state)
     IN b # None /\ CommitStep /\ tx.on = b /\ branch[b].head = preview.head =>
          /\ Cardinality(before \ after) = preview.size
          /\ Cardinality((before \ after) \cap Actions) = preview.actions
          /\ \A x \in before \ after : branch[b].state.events[x].due = preview.due
          /\ branch'[b].clock = preview.due
          /\ RequiresDrain(preview) <=>
               \E x \in after : branch'[b].state.events[x].due = preview.due
    ]_<<storeVars, pageVars>>
=============================================================================
