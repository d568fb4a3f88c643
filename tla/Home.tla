-------------------------------- MODULE Home --------------------------------
(***************************************************************************)
(* The home page, one page per person, and the handlers of projects.go:    *)
(* the list of projects, renaming on a card, claiming, deleting after a    *)
(* confirmation, and the dialog that creates a project.  Nothing is polled: *)
(* a page asks for the list again after each answer to a change of its     *)
(* own, and the last answer is shown.                                      *)
(*                                                                         *)
(* The server serves an update or a creation in one statement; a deletion  *)
(* checks the owner in one query and deletes in another.  There is one     *)
(* folder to make projects of, so that all creations collide.              *)
(***************************************************************************)
EXTENDS Naturals, FiniteSets

CONSTANTS People, Names, None,
          MaxProjects,   \* bound: ids the database hands out
          MaxCalls,      \* bound: requests a page has under way at a time
          MaxAsked       \* bound: requests people make, all pages together

VARIABLES
  projects,    \* by id: the row, or None
  made,        \* ids handed out
  rows,        \* per page: the projects it shows, None before the first list
  renaming,    \* per page: the card whose name is a field, or None
  error,       \* per page: the note about the last failure, with Try again
  confirm,     \* per page: confirmDelete
  dialog,      \* per page: CreateDialog, or None
  calls,       \* per page: requests under way
  at,          \* per page: the project whose workspace it was sent to, or None
  asked

server == <<projects, made>>
page   == <<rows, renaming, error, confirm, dialog, at>>
vars   == <<server, page, calls, asked>>

Ids     == 1..MaxProjects
Project == [owner : People \cup {None}, name : Names]
Rows    == [Ids -> Project \cup {None}]
Dialog  == [filled : BOOLEAN, busy : 0..MaxCalls]   \* filled: a name and a folder
Call    == [n : 1..MaxCalls, op : {"list", "rename", "claim", "delete", "create"},
            id : Ids \cup {None}, name : Names \cup {None},
            st : {"sent", "checked", "done", "refused"}, got : Rows, unowned : BOOLEAN, here : BOOLEAN]

TypeOK ==
  /\ projects \in Rows /\ made \in 0..MaxProjects
  /\ rows \in [People -> Rows \cup {None}]
  /\ renaming \in [People -> Ids \cup {None}]
  /\ error \in [People -> BOOLEAN]
  /\ confirm \in [People -> Ids \cup {None}]
  /\ dialog \in [People -> Dialog \cup {None}]
  /\ \A u \in People : calls[u] \subseteq Call
  /\ at \in [People -> Ids \cup {None}] /\ asked \in 0..MaxAsked

Shown(u)  == IF rows[u] = None THEN {} ELSE {i \in Ids : rows[u][i] # None}
Nothing   == [i \in Ids |-> None]
Live      == {i \in Ids : projects[i] # None}

-----------------------------------------------------------------------------
\* Requests of a page.
Request(n, op, id, name) ==
  [n |-> n, op |-> op, id |-> id, name |-> name, st |-> "sent", got |-> Nothing,
   unowned |-> FALSE, here |-> TRUE]

Free(u)  == {n \in 1..MaxCalls : \A c \in calls[u] : c.n # n}
First(u) == CHOOSE n \in Free(u) : \A m \in Free(u) : n <= m

Ask(u, op, id, name) ==
  /\ Free(u) # {} /\ asked < MaxAsked /\ asked' = asked + 1
  /\ calls' = [calls EXCEPT ![u] = @ \cup {Request(First(u), op, id, name)}]

\* The page behind a dialog takes no clicks; a page that was sent away none.
Idle(u) == at[u] = None /\ confirm[u] = None /\ dialog[u] = None

reload(u) == Idle(u) /\ error[u] /\ Ask(u, "list", None, None) /\ UNCHANGED <<server, page>>

startRename(u, i) ==
  /\ Idle(u) /\ i \in Shown(u) /\ renaming[u] = None
  /\ renaming' = [renaming EXCEPT ![u] = i]
  /\ UNCHANGED <<server, error, rows, confirm, dialog, at, calls, asked>>

\* Enter, and again the loss of the focus, with what is typed by then: the
\* field stays until the answer.
rename(u, name) ==
  /\ Idle(u) /\ renaming[u] # None
  /\ IF name = rows[u][renaming[u]].name
       THEN renaming' = [renaming EXCEPT ![u] = None] /\ UNCHANGED <<calls, asked>>
       ELSE Ask(u, "rename", renaming[u], name) /\ UNCHANGED renaming
  /\ UNCHANGED <<server, error, rows, confirm, dialog, at>>

\* Escape: what was sent is not taken back.
CancelRename(u) ==
  /\ Idle(u) /\ renaming[u] # None /\ renaming' = [renaming EXCEPT ![u] = None]
  /\ UNCHANGED <<server, error, rows, confirm, dialog, at, calls, asked>>

Claim(u, i) ==
  /\ Idle(u) /\ i \in Shown(u) /\ rows[u][i].owner = None
  /\ Ask(u, "claim", i, None) /\ UNCHANGED <<server, page>>

onDelete(u, i) ==
  /\ Idle(u) /\ i \in Shown(u) /\ rows[u][i].owner \in {None, u}
  /\ confirm' = [confirm EXCEPT ![u] = i]
  /\ UNCHANGED <<server, error, rows, renaming, dialog, at, calls, asked>>

Confirmed(u) ==
  /\ confirm[u] # None /\ Ask(u, "delete", confirm[u], None)
  /\ confirm' = [confirm EXCEPT ![u] = None]
  /\ UNCHANGED <<server, error, rows, renaming, dialog, at>>

NotDeleted(u) ==
  /\ confirm[u] # None /\ confirm' = [confirm EXCEPT ![u] = None]
  /\ UNCHANGED <<server, error, rows, renaming, dialog, at, calls, asked>>

-----------------------------------------------------------------------------
\* CreateDialog.

NewProject(u) ==
  /\ Idle(u)
  /\ dialog' = [dialog EXCEPT ![u] = [filled |-> FALSE, busy |-> 0]]
  /\ UNCHANGED <<server, error, rows, renaming, confirm, at, calls, asked>>

InDialog(u) == at[u] = None /\ dialog[u] # None

\* Typing, or picking a folder: its name fills an empty name field.
Fill(u) ==
  /\ InDialog(u) /\ dialog' = [dialog EXCEPT ![u].filled = ~@]
  /\ UNCHANGED <<server, error, rows, renaming, confirm, at, calls, asked>>

submit(u, name) ==
  /\ InDialog(u) /\ dialog[u].busy = 0 /\ dialog[u].filled
  /\ Ask(u, "create", None, name)
  /\ dialog' = [dialog EXCEPT ![u].busy = First(u)]
  /\ UNCHANGED <<server, error, rows, renaming, confirm, at>>

\* Closing the dialog takes no creation back.
CloseDialog(u) ==
  /\ InDialog(u) /\ dialog' = [dialog EXCEPT ![u] = None]
  /\ UNCHANGED <<server, error, rows, renaming, confirm, at, calls, asked>>

-----------------------------------------------------------------------------
\* projects.go.

Reply(u, c, st) == calls' = [calls EXCEPT ![u] = (@ \ {c}) \cup {[c EXCEPT !.st = st]}]

ListProjects(u, c) ==
  /\ c.op = "list" /\ c.st = "sent"
  /\ calls' = [calls EXCEPT ![u] = (@ \ {c}) \cup {[c EXCEPT !.st = "done", !.got = projects]}]
  /\ UNCHANGED <<server, page, asked>>

\* Deliberate bug: an owner replaces the owner.
Reassigned(row, u, c) ==
  IF c.op = "rename" THEN [row EXCEPT !.name = c.name] ELSE [row EXCEPT !.owner = u]

\* A name replaces the name, an owner fills only an empty place.
Updated(row, u, c) ==
  IF c.op = "rename" THEN [row EXCEPT !.name = c.name]
  ELSE [row EXCEPT !.owner = IF @ = None THEN u ELSE @]

UpdateProject(u, c) ==
  /\ c.op \in {"rename", "claim"} /\ c.st = "sent"
  /\ IF projects[c.id] = None
       THEN Reply(u, c, "refused") /\ UNCHANGED projects
       ELSE Reply(u, c, "done")
            /\ projects' = [projects EXCEPT ![c.id] = Updated(@, u, c)]
  /\ UNCHANGED <<made, page, asked>>

\* Deliberate bug: a folder that is a project already is answered with it.
AdoptProject(u, c) ==
  /\ c.op = "create" /\ c.st = "sent"
  /\ IF Live # {}
       THEN /\ calls' = [calls EXCEPT ![u] = (@ \ {c}) \cup
                 {[c EXCEPT !.st = "done", !.id = CHOOSE i \in Live : TRUE]}]
            /\ UNCHANGED server
       ELSE /\ made < MaxProjects /\ made' = made + 1
            /\ projects' = [projects EXCEPT ![made + 1] = [owner |-> u, name |-> c.name]]
            /\ calls' = [calls EXCEPT ![u] =
                 (@ \ {c}) \cup {[c EXCEPT !.st = "done", !.id = made + 1]}]
  /\ UNCHANGED <<page, asked>>

\* A folder that is a project already makes no second one.
CreateProject(u, c) ==
  /\ c.op = "create" /\ c.st = "sent"
  /\ IF Live # {}
       THEN Reply(u, c, "refused") /\ UNCHANGED server
       ELSE /\ made < MaxProjects /\ made' = made + 1
            /\ projects' = [projects EXCEPT ![made + 1] = [owner |-> u, name |-> c.name]]
            /\ calls' = [calls EXCEPT ![u] =
                 (@ \ {c}) \cup {[c EXCEPT !.st = "done", !.id = made + 1]}]
  /\ UNCHANGED <<page, asked>>

\* The owner is compared; the row is deleted by the queries after.
CheckOwner(u, c) ==
  /\ c.op = "delete" /\ c.st = "sent"
  /\ IF projects[c.id] = None \/ projects[c.id].owner \notin {None, u}
       THEN Reply(u, c, "refused")
       ELSE calls' = [calls EXCEPT ![u] = (@ \ {c}) \cup
              {[c EXCEPT !.st = "checked", !.unowned = projects[c.id].owner = None]}]
  /\ UNCHANGED <<server, page, asked>>

DeleteProject(u, c) ==
  /\ c.op = "delete" /\ c.st = "checked"
  /\ Reply(u, c, IF projects[c.id] = None THEN "refused" ELSE "done")
  /\ projects' = [projects EXCEPT ![c.id] = None]
  /\ UNCHANGED <<made, page, asked>>

Serve(u, c) == \/ ListProjects(u, c) \/ UpdateProject(u, c) \/ CreateProject(u, c)
               \/ CheckOwner(u, c) \/ DeleteProject(u, c)

-----------------------------------------------------------------------------
\* Answers.

\* A card whose project is not in the new list goes with its field.
ListAnswer(u, c) ==
  /\ c.op = "list" /\ c.st = "done" /\ c.here
  /\ rows' = [rows EXCEPT ![u] = c.got]
  /\ renaming' = IF renaming[u] # None /\ c.got[renaming[u]] = None
                THEN [renaming EXCEPT ![u] = None] ELSE renaming
  /\ calls' = [calls EXCEPT ![u] = @ \ {c}] /\ error' = [error EXCEPT ![u] = FALSE]
  /\ UNCHANGED <<server, confirm, dialog, at, asked>>

\* What a call of a card leaves of the card.
RenamingAfter(u, c) ==
  IF c.here /\ c.op = "rename" /\ renaming[u] # None /\ renaming[u] = c.id
    THEN [renaming EXCEPT ![u] = None] ELSE renaming

\* What was done is shown by the list that is asked for next.
ChangeAnswer(u, c) ==
  /\ c.op \in {"rename", "claim", "delete"} /\ c.st = "done" /\ c.here
  /\ calls' = [calls EXCEPT ![u] = (@ \ {c}) \cup {Request(c.n, "list", None, None)}]
  /\ renaming' = RenamingAfter(u, c)
  /\ UNCHANGED <<server, error, rows, confirm, dialog, at, asked>>

\* Also after the dialog was closed or the page left.  The page goes, what it
\* asked for is still served.
CreateAnswer(u, c) ==
  /\ c.op = "create" /\ c.st = "done"
  /\ at' = [at EXCEPT ![u] = c.id]
  /\ calls' = [calls EXCEPT ![u] = {[d EXCEPT !.here = FALSE] : d \in @ \ {c}}]
  /\ rows' = [rows EXCEPT ![u] = None] /\ renaming' = [renaming EXCEPT ![u] = None]
  /\ confirm' = [confirm EXCEPT ![u] = None] /\ dialog' = [dialog EXCEPT ![u] = None]
  /\ error' = [error EXCEPT ![u] = FALSE]
  /\ UNCHANGED <<server, asked>>

\* Refused, lost before or after it was served, or of a page that is gone.
CallFails(u, c) ==
  /\ calls' = [calls EXCEPT ![u] = @ \ {c}]
  /\ renaming' = RenamingAfter(u, c)
  /\ dialog' = IF dialog[u] # None /\ dialog[u].busy = c.n
                 THEN [dialog EXCEPT ![u].busy = 0] ELSE dialog
  /\ error' = [error EXCEPT ![u] = @ \/ (c.here /\ c.op # "create")]
  /\ UNCHANGED <<server, rows, confirm, at, asked>>

\* Back from the workspace: a page that has just asked for its list.
Home(u) ==
  /\ at[u] # None /\ at' = [at EXCEPT ![u] = None]
  /\ Ask(u, "list", None, None)
  /\ UNCHANGED <<server, error, rows, renaming, confirm, dialog>>

\* A project of a database older than sign-in has no owner.
Init ==
  /\ \E o \in People \cup {None}, n \in Names :
       projects \in {Nothing, [Nothing EXCEPT ![1] = [owner |-> o, name |-> n]]}
  /\ made = Cardinality(Live) /\ asked = 0
  /\ error = [u \in People |-> FALSE]
  /\ rows = [u \in People |-> None] /\ renaming = [u \in People |-> None]
  /\ confirm = [u \in People |-> None] /\ dialog = [u \in People |-> None]
  /\ at = [u \in People |-> None]
  /\ calls = [u \in People |-> {Request(1, "list", None, None)}]

Act(u) ==
  \/ reload(u) \/ (\E i \in Ids : startRename(u, i) \/ Claim(u, i) \/ onDelete(u, i))
  \/ (\E n \in Names : submit(u, n) \/ rename(u, n))
  \/ CancelRename(u) \/ Confirmed(u) \/ NotDeleted(u)
  \/ NewProject(u) \/ Fill(u) \/ CloseDialog(u) \/ Home(u)

Next ==
  \E u \in People :
    Act(u) \/ \E c \in calls[u] : \/ Serve(u, c) \/ ListAnswer(u, c) \/ ChangeAnswer(u, c)
                                  \/ CreateAnswer(u, c) \/ CallFails(u, c)

Spec == Init /\ [][Next]_vars

-----------------------------------------------------------------------------
(* Whoever is sent to a workspace by creating a project made that project: *)
(* two people who create one on the same folder never share it unasked     *)
(* (projects.go:69-75).                                                    *)
NeverAdopted ==
  \A u \in People : at[u] # None /\ projects[at[u]] # None => projects[at[u]].owner = u

(* A project is only deleted by its owner, or by somebody who asked while  *)
(* it had none; it may have been claimed by another since: the check and   *)
(* the deletion are two queries (projects.go:166-181).                     *)
DeletesOwn ==
  \A i \in Live : projects'[i] = None =>
    \E u \in People : \E c \in calls[u] :
      /\ c.op = "delete" /\ c.id = i
      /\ c.unowned \/ projects[i].owner = u
=============================================================================
