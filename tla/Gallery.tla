------------------------------ MODULE Gallery ------------------------------
(***************************************************************************)
(* GalleryPanel.tsx: every image of the project, a page at a time, behind  *)
(* a status filter.  Two things ask the server: the reload effect, whose   *)
(* earlier run is cancelled, and the observer of the sentinel below the    *)
(* last row, which asks for the next page unless a request is under way.   *)
(* Both share one busy flag; answers come in any order.                    *)
(***************************************************************************)
EXTENDS Filtering, SequencesExt

CONSTANTS Count,        \* images in the folder: 1..Count in the server's order
          Statuses,     \* what an image can be: labeled, auto, test, unlabeled
          PAGE,         \* rows of a page
          MaxClicks,    \* bound: filter clicks
          MaxChanges,   \* bound: images whose status changes on the server
          MaxFails      \* bound: requests that fail

VARIABLES
  filter, items, total, error,
  busy,        \* the ref both kinds of request set and clear
  due,         \* the sentinel came into view: the observer's callback is next
  reqs,        \* requests under way
  heard,       \* s.labeled and s.auto: the statuses the tab knows
  status,      \* the server's
  clicks, changes, fails,
  skewed       \* history: pages that need not be of one list

panel == <<filter, items, total, error, busy, due>>
used  == <<clicks, changes, fails>>
vars  == <<panel, reqs, heard, status, used, skewed>>

Filters == Statuses \cup {"all"}
Images  == 1..Count

\* What GET /api/pool pages through.
Matching(f) == Keep([i \in Images |-> i], {i \in Images : f \in {"all", status[i]}})

Page(f, offset) == LET m == Matching(f)
                       last == IF offset + PAGE > Len(m) THEN Len(m) ELSE offset + PAGE
                   IN  SubSeq(m, offset + 1, last)

exhausted == Len(items) >= total

Reloads == {r \in reqs : r.kind = "reload"}
Mores   == {r \in reqs : r.kind = "more"}
Live    == {r \in Reloads : r.live}

TypeOK ==
  /\ filter \in Filters /\ items \in Seq(Images) /\ total \in 0..Count
  /\ {error, busy, due, skewed} \subseteq BOOLEAN
  /\ \A r \in reqs :
       /\ r.kind \in {"reload", "more"} /\ r.filter \in Filters /\ r.offset \in Nat
       /\ r.live \in BOOLEAN /\ r.st \in {"sent", "served"}
       /\ r.items \in Seq(Images) /\ r.total \in 0..Count /\ r.seen \in 0..MaxChanges
  /\ Cardinality(Live) <= 1
  /\ status \in [Images -> Statuses] /\ heard \in [Images -> Statuses]

Request(kind, f, offset) ==
  [id |-> CHOOSE n \in 1..(Cardinality(reqs) + 1) : \A r \in reqs : r.id # n,
   kind |-> kind, filter |-> f, offset |-> offset, live |-> TRUE, st |-> "sent",
   items |-> <<>>, total |-> 0, seen |-> 0]

-----------------------------------------------------------------------------
\* The reload effect: the run before is cancelled, the busy flag is taken
\* whoever has it.
Reload(f) ==
  /\ reqs' = {[r EXCEPT !.live = @ /\ r.kind = "more"] : r \in reqs} \cup {Request("reload", f, 0)}
  /\ busy' = TRUE /\ error' = FALSE
  /\ skewed' = (skewed \/ Mores # {})

\* The observer is made anew when loadMore or exhausted changes, and calls
\* back at once if the sentinel is in view.
Observe ==
  IF Len(items') >= total' THEN due' = FALSE
  ELSE IF filter' # filter \/ Len(items') # Len(items) \/ exhausted
         THEN due' \in BOOLEAN
         ELSE UNCHANGED due

setFilter(f) ==
  /\ f # filter /\ clicks < MaxClicks /\ clicks' = clicks + 1
  /\ filter' = f /\ Reload(f)
  /\ UNCHANGED <<items, total, heard, status, changes, fails>>
  /\ Observe

\* The sentinel scrolls out of view and in again.
Scroll == /\ ~exhausted /\ ~due /\ due' = TRUE
          /\ UNCHANGED <<filter, items, total, error, busy, reqs, heard, status, used, skewed>>

loadMore ==
  /\ due /\ due' = FALSE
  /\ IF busy THEN UNCHANGED <<busy, reqs, skewed>>
     ELSE /\ busy' = TRUE
          /\ reqs' = reqs \cup {Request("more", filter, Len(items))}
          /\ skewed' = (skewed \/ Reloads # {})
  /\ UNCHANGED <<filter, items, total, error, heard, status, used>>

-----------------------------------------------------------------------------
Serve(r) ==
  /\ r.st = "sent"
  /\ reqs' = (reqs \ {r}) \cup
       {[r EXCEPT !.st = "served", !.items = Page(r.filter, r.offset),
                  !.total = Len(Matching(r.filter)), !.seen = changes]}
  /\ UNCHANGED <<panel, heard, status, used, skewed>>

\* Deliberate bug: a cancelled reload is applied.
ReloadAnswerAny(r) ==
  /\ r.st = "served" /\ r.kind = "reload"
  /\ reqs' = reqs \ {r} /\ busy' = FALSE
  /\ items' = r.items /\ total' = r.total
  /\ skewed' = (Mores # {} \/ r.seen # changes)
  /\ UNCHANGED <<filter, error, heard, status, used>>
  /\ Observe

\* A cancelled reload still clears the flag.
ReloadAnswer(r) ==
  /\ r.st = "served" /\ r.kind = "reload"
  /\ reqs' = reqs \ {r} /\ busy' = FALSE
  /\ IF r.live
       THEN /\ items' = r.items /\ total' = r.total
            /\ skewed' = (Mores # {} \/ r.seen # changes)
       ELSE UNCHANGED <<items, total, skewed>>
  /\ UNCHANGED <<filter, error, heard, status, used>>
  /\ Observe

\* A page is appended to whatever is on screen by now.
MoreAnswer(r) ==
  /\ r.st = "served" /\ r.kind = "more"
  /\ reqs' = reqs \ {r} /\ busy' = FALSE
  /\ items' = items \o r.items /\ total' = r.total
  /\ UNCHANGED <<filter, error, heard, status, used, skewed>>
  /\ Observe

\* Deliberate bug: a failure keeps the busy flag.
FailsBusy(r) ==
  /\ fails < MaxFails /\ fails' = fails + 1
  /\ reqs' = reqs \ {r}
  /\ error' = (error \/ r.live)
  /\ UNCHANGED <<filter, items, total, busy, due, heard, status, clicks, changes, skewed>>

Fails(r) ==
  /\ fails < MaxFails /\ fails' = fails + 1
  /\ reqs' = reqs \ {r} /\ busy' = FALSE
  /\ error' = (error \/ r.live)
  /\ UNCHANGED <<filter, items, total, due, heard, status, clicks, changes, skewed>>

-----------------------------------------------------------------------------
\* Somebody labels an image.
Labeled(i) ==
  /\ changes < MaxChanges /\ changes' = changes + 1
  /\ \E s \in Statuses \ {status[i]} : status' = [status EXCEPT ![i] = s]
  /\ skewed' = TRUE
  /\ UNCHANGED <<panel, reqs, heard, clicks, fails>>

\* A poll, or this tab's own save, brings new sets and with them a reload.
Hear ==
  /\ heard # status /\ heard' = status
  /\ Reload(filter)
  /\ UNCHANGED <<filter, items, total, due, status, used>>

\* A fresh panel: the reload effect has run.
Init ==
  /\ filter = "all" /\ items = <<>> /\ total = 0 /\ error = FALSE
  /\ busy = TRUE /\ due = FALSE
  /\ reqs = {[id |-> 1, kind |-> "reload", filter |-> "all", offset |-> 0, live |-> TRUE,
              st |-> "sent", items |-> <<>>, total |-> 0, seen |-> 0]}
  /\ status \in [Images -> Statuses] /\ heard = status
  /\ clicks = 0 /\ changes = 0 /\ fails = 0 /\ skewed = FALSE

Answer == \E r \in reqs : Serve(r) \/ ReloadAnswer(r) \/ MoreAnswer(r)

Next ==
  \/ (\E f \in Filters : setFilter(f)) \/ Scroll \/ loadMore
  \/ Answer \/ (\E r \in reqs : Fails(r))
  \/ (\E i \in Images : Labeled(i)) \/ Hear

Spec == Init /\ [][Next]_vars

-----------------------------------------------------------------------------
(* Where nothing is awaited, what is on screen is the beginning of the list *)
(* that was asked for, with no image missing or twice -- unless a page and *)
(* a reload were under way together or the list changed on the server      *)
(* since (skewed), or the panel says that its last request failed (error): *)
(* then the rows are of an earlier one.  The next reload that meets none   *)
(* of this puts it right (GalleryPanel.tsx:61-103).                        *)
Coherent ==
  ~skewed /\ ~error /\ Live = {} => IsPrefix(items, Matching(filter))

(* Whatever overlaps, somebody who keeps scrolling comes to the end of the *)
(* list: the busy flag two kinds of request share is never left set        *)
(* (GalleryPanel.tsx:81, 87-101).                                          *)
ScrollReachesEnd == []<>exhausted
=============================================================================
