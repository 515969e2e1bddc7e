----------------------------- MODULE ClientsPage -----------------------------
(***************************************************************************)
(* The clients page of the web page (static/js/app.js): the table, its     *)
(* search and its pages, and the two dialogs that create a client and show *)
(* its secrets, once: "Add client" and "Provision bridge".                 *)
(*                                                                         *)
(* The user may press a button as often as it lets itself be pressed, but  *)
(* does not close a dialog that has not answered, and goes on with the     *)
(* table when it is loaded.                                                *)
(***************************************************************************)
EXTENDS Naturals, FiniteSets

CONSTANTS
  Most,     \* clients there may be (a bound)
  PerPage,  \* clientsPerPage
  Searches, \* what the search and the filter may select: sets of clients
  Slot,     \* calls that can be under way at one time (a bound)
  NoOne     \* no client, no call

Client == 1..Most

Dialog == {"add", "bridge"}

\* client is the one created or to be deleted, rows and gone are a list's.
Call == [op : Dialog \cup {"list", "catalog", "delete"},
         client : Client \cup {NoOne}, rows : 0..Most, gone : SUBSET Client,
         answer : {"none", "ok", "failed"}]

PageAssumption ==
  /\ Most \in Nat /\ PerPage \in Nat \ {0}
  /\ Searches \subseteq SUBSET Client /\ NoOne \notin Client \cup Call

VARIABLES
  clients,   \* the server's: how many; they are numbered as they are created
  revoked,   \* the server's: those that were deleted
  allClients, filteredClients, currentPage,
  marked,    \* those that allClients shows as revoked
  modal,     \* the dialog that is up
  form,      \* form[d]: whether dialog d has its form, and not its result
  button,    \* button[d]: whether the button of that form can be pressed
  revealed,  \* revealed[d]: the client whose secrets dialog d holds, or NoOne
  calls,     \* calls[r]: a call under way, or NoOne
  owed       \* created for this page; the user has not closed its secrets

table == <<allClients, filteredClients, currentPage, marked>>
dialogs == <<modal, form, button, revealed>>
vars == <<clients, revoked, table, dialogs, calls, owed>>

TypeOK ==
  /\ clients \in 0..Most /\ revoked \subseteq 1..clients
  /\ allClients \in 0..clients /\ marked \subseteq 1..allClients
  /\ filteredClients \subseteq 1..allClients
  /\ currentPage \in Nat \ {0}
  /\ modal \in Dialog \cup {"none"}
  /\ form \in [Dialog -> BOOLEAN] /\ button \in [Dialog -> BOOLEAN]
  /\ revealed \in [Dialog -> Client \cup {NoOne}]
  /\ calls \in [Slot -> Call \cup {NoOne}]
  /\ owed \subseteq 1..clients

Init ==
  /\ clients \in 0..Most /\ revoked = {}
  /\ allClients = 0 /\ filteredClients = {} /\ currentPage = 1 /\ marked = {}
  /\ modal = "none" /\ revealed = [d \in Dialog |-> NoOne]
  /\ form = [d \in Dialog |-> TRUE] /\ button = [d \in Dialog |-> TRUE]
  /\ calls = [r \in Slot |-> NoOne] /\ owed = {}

-----------------------------------------------------------------------------
Asking(op) ==
  [op |-> op, client |-> NoOne, rows |-> 0, gone |-> {}, answer |-> "none"]

Place(r, call) == calls' = [calls EXCEPT ![r] = call]
Done(r) == Place(r, NoOne)
Free(r) == calls[r] = NoOne
Came(r, op, answer) == ~Free(r) /\ calls[r].op = op /\ calls[r].answer = answer
UnderWay(ops) == \E r \in Slot : ~Free(r) /\ calls[r].op \in ops

\* The user goes on with the page.
AtTable == modal = "none" /\ \A r \in Slot : Free(r)

\* The panel answers: a client is created, or deleted, or the list is read.
Answer(r) ==
  /\ ~Free(r) /\ calls[r].answer = "none"
  /\ \/ /\ calls[r].op \in Dialog /\ clients < Most
        /\ clients' = clients + 1 /\ owed' = owed \cup {clients'}
        /\ Place(r, [calls[r] EXCEPT !.answer = "ok", !.client = clients'])
        /\ UNCHANGED revoked
     \/ /\ calls[r].op = "delete"
        /\ revoked' = revoked \cup {calls[r].client}
        /\ Place(r, [calls[r] EXCEPT !.answer = "ok"])
        /\ UNCHANGED <<clients, owed>>
     \/ /\ calls[r].op \in {"list", "catalog"}
        /\ Place(r, [calls[r] EXCEPT !.answer = "ok", !.rows = clients, !.gone = revoked])
        /\ UNCHANGED <<clients, revoked, owed>>
  /\ UNCHANGED <<table, dialogs>>

\* The call or its answer is lost, or it is refused.  What a lost answer held
\* can not be shown.
Fail(r) ==
  /\ ~Free(r) /\ calls[r].answer # "failed"
  /\ Place(r, [calls[r] EXCEPT !.answer = "failed"])
  /\ owed' = owed \ {calls[r].client}
  /\ UNCHANGED <<clients, revoked, table, dialogs>>

\* Another administrator creates a client.
Elsewhere ==
  /\ clients < Most /\ clients' = clients + 1
  /\ UNCHANGED <<revoked, table, dialogs, calls, owed>>

-----------------------------------------------------------------------------
(* The table.                                                                *)

\* navigate, loadClients: the user comes to the page, at its first rows.
LoadClients(r) ==
  /\ AtTable /\ Place(r, Asking("list"))
  /\ currentPage' = 1
  /\ UNCHANGED <<clients, revoked, allClients, filteredClients, marked, dialogs, owed>>

\* The search is left as it is, and all clients are listed.
Listed(r) ==
  /\ Came(r, "list", "ok")
  /\ allClients' = calls[r].rows /\ marked' = calls[r].gone
  /\ filteredClients' = 1..calls[r].rows
  /\ Done(r)
  /\ UNCHANGED <<clients, revoked, currentPage, dialogs, owed>>

\* Also the failure of a deletion and of the catalog of bridges: a toast.
NotListed(r) ==
  /\ \E op \in {"list", "delete", "catalog"} : Came(r, op, "failed")
  /\ Done(r)
  /\ UNCHANGED <<clients, revoked, table, dialogs, owed>>

\* Mutant: the page stays.
FilterKeepsPage(found) ==
  /\ AtTable
  /\ filteredClients' = found \cap (1..allClients)
  /\ UNCHANGED <<clients, revoked, allClients, currentPage, marked, dialogs, calls, owed>>

\* filterClients
FilterClients(found) ==
  /\ AtTable
  /\ filteredClients' = found \cap (1..allClients) /\ currentPage' = 1
  /\ UNCHANGED <<clients, revoked, allClients, marked, dialogs, calls, owed>>

Start == (currentPage - 1) * PerPage
End == Start + PerPage

\* The rows of renderClientsTable.
PageClients ==
  {c \in filteredClients :
     Cardinality({b \in filteredClients : b <= c}) \in (Start + 1)..End}

\* prevPage, and the button
PrevPage ==
  /\ AtTable /\ currentPage > 1
  /\ currentPage' = currentPage - 1
  /\ UNCHANGED <<clients, revoked, allClients, filteredClients, marked, dialogs, calls, owed>>

\* nextPage, and the button
NextPage ==
  /\ AtTable /\ End < Cardinality(filteredClients)
  /\ currentPage' = currentPage + 1
  /\ UNCHANGED <<clients, revoked, allClients, filteredClients, marked, dialogs, calls, owed>>

\* deleteClient, confirmed: a row that is not revoked has the button.
DeleteClient(r, c) ==
  /\ AtTable /\ c \in PageClients \ marked
  /\ Place(r, [Asking("delete") EXCEPT !.client = c])
  /\ UNCHANGED <<clients, revoked, table, dialogs, owed>>

Deleted(r) ==
  /\ Came(r, "delete", "ok")
  /\ Place(r, Asking("list"))
  /\ UNCHANGED <<clients, revoked, table, dialogs, owed>>

-----------------------------------------------------------------------------
(* The dialogs.                                                              *)

\* The dialog with its form, an empty result and a button to press.
Opened(d) ==
  /\ form' = [form EXCEPT ![d] = TRUE]
  /\ button' = [button EXCEPT ![d] = TRUE]
  /\ revealed' = [revealed EXCEPT ![d] = NoOne]

\* showAddClientModal
ShowAdd ==
  /\ AtTable
  /\ modal' = "add" /\ Opened("add")
  /\ UNCHANGED <<clients, revoked, table, calls, owed>>

\* showBridgeModal: the dialog comes up with the catalog.
ShowBridge(r) ==
  /\ AtTable
  /\ Opened("bridge") /\ Place(r, Asking("catalog"))
  /\ UNCHANGED <<clients, revoked, table, modal, owed>>

CatalogCame(r) ==
  /\ Came(r, "catalog", "ok")
  /\ modal' = "bridge" /\ Done(r)
  /\ UNCHANGED <<clients, revoked, table, form, button, revealed, owed>>

\* Mutant: the button can be pressed again.
CreateAgain(r, d) ==
  /\ modal = d /\ Free(r)
  /\ form[d] /\ button[d]
  /\ Place(r, Asking(d))
  /\ UNCHANGED <<clients, revoked, table, dialogs, owed>>

\* addClient, provisionBridge
Create(r, d) ==
  /\ modal = d /\ Free(r)
  /\ form[d] /\ button[d]
  /\ button' = [button EXCEPT ![d] = FALSE]
  /\ Place(r, Asking(d))
  /\ UNCHANGED <<clients, revoked, table, modal, form, revealed, owed>>

\* The secrets are shown, in place of the form of "Add client" and below that
\* of a bridge, and the table is loaded.
Created(r, d) ==
  /\ Came(r, d, "ok")
  /\ revealed' = [revealed EXCEPT ![d] = calls[r].client]
  /\ form' = [form EXCEPT ![d] = (d = "bridge")]
  /\ Place(r, Asking("list"))
  /\ UNCHANGED <<clients, revoked, table, modal, button, owed>>

\* The button can be pressed again.
NotCreated(r, d) ==
  /\ Came(r, d, "failed")
  /\ button' = [button EXCEPT ![d] = TRUE]
  /\ Done(r)
  /\ UNCHANGED <<clients, revoked, table, modal, form, revealed, owed>>

\* closeAddClientModal, closeBridgeModal
CloseDialog ==
  /\ modal # "none" /\ ~UnderWay(Dialog)
  /\ modal' = "none" /\ owed' = owed \ {revealed[modal]}
  /\ UNCHANGED <<clients, revoked, table, form, button, revealed, calls>>

Next ==
  \/ \E r \in Slot : Answer(r) \/ Fail(r)
  \/ \E r \in Slot : LoadClients(r) \/ Listed(r) \/ NotListed(r) \/ Deleted(r)
                       \/ ShowBridge(r) \/ CatalogCame(r)
  \/ \E r \in Slot, c \in Client : DeleteClient(r, c)
  \/ \E r \in Slot, d \in Dialog : Create(r, d) \/ Created(r, d) \/ NotCreated(r, d)
  \/ \E found \in Searches : FilterClients(found)
  \/ PrevPage \/ NextPage \/ ShowAdd \/ CloseDialog \/ Elsewhere

Spec == Init /\ [][Next]_vars

-----------------------------------------------------------------------------
\* The secrets of a new client are in one answer only ("Save these now"): they
\* are on their way or on the screen until the user closes their dialog,
\* unless the answer is lost (addClient, provisionBridge).
SecretsAreShown ==
  \A c \in owed :
    \/ \E r \in Slot : ~Free(r) /\ calls[r].op \in Dialog /\ calls[r].client = c
    \/ modal # "none" /\ revealed[modal] = c

\* The table has rows to show when any client is found: no search, load,
\* deletion or turn of the page leaves the user behind the last page.
PageHasRows == filteredClients # {} => PageClients # {}
=============================================================================
