----------------------------- MODULE RemoteList -----------------------------
(***************************************************************************)
(* The lists the web client keeps of what the server has: documents        *)
(* (web/lib/documents.tsx) and conversations (web/lib/conversations.tsx),  *)
(* with the delete dialogs and the drop zone that change them, and the     *)
(* scope the composer chooses from the documents.                          *)
(*                                                                         *)
(* A list response replaces the list on the screen whenever it arrives,    *)
(* whatever has been inserted or filtered since it was asked for.          *)
(***************************************************************************)
EXTENDS Naturals, Sequences, FiniteSets, SequencesExt

CONSTANTS
    Item,     \* documents, or conversations
    Fetch,    \* list requests that may be under way at once (a bound)
    NoItem    \* null

ASSUME ItemsCounted == IsFiniteSet(Item)

VARIABLES
    listKind,   \* "documents" or "conversations"
    held,       \* held[d]: the row of d at the server
    shown,      \* the list on the screen, each [id, status]
    fetches,    \* fetches[f]: [state, rows, overtaken]
    adding,     \* adding[d]: the request that creates d
    dialog,     \* the delete dialog: [id, state]
    dropped,    \* what the server has confirmed to be deleted
    scope,      \* the document the composer is restricted to, or null
    overtaken   \* an answer arrived that was older than a change already shown

list == <<listKind, held, shown, fetches, adding, dialog, dropped, scope, overtaken>>

Busy == {"pending", "processing"}
Absent == {"none", "gone"}
Row(d, status) == [id |-> d, status |-> status]
NoFetch == [state |-> "idle", rows |-> <<>>, overtaken |-> FALSE]
NoDialog == [id |-> NoItem, state |-> "closed"]

\* isBusy over the list: what the polling timer hangs on.
busy == listKind = "documents" /\ \E i \in DOMAIN shown : shown[i].status \in Busy

\* byId
ById(d) == {i \in DOMAIN shown : shown[i].id = d}
Askable == {shown[i].id : i \in {j \in DOMAIN shown : shown[j].status = "ready"}}

\* GET /documents, GET /conversations: the rows of the account.
Rows == SetToSeq({Row(d, held[d]) : d \in {e \in Item : held[e] \notin Absent}})

ListInit ==
    /\ listKind \in {"documents", "conversations"}
    /\ held \in [Item -> {"none", "processing", "ready"}]
    /\ shown = <<>>
    /\ fetches = [f \in Fetch |-> NoFetch]
    /\ adding = [d \in Item |-> "idle"]
    /\ dialog = NoDialog /\ dropped = {}
    /\ scope \in {NoItem} \cup {d \in Item : listKind = "documents" /\ held[d] = "ready"}
    /\ overtaken = FALSE

-----------------------------------------------------------------------------
(***************************************************************************)
(* refresh: when the provider mounts, on the timer while a document is     *)
(* busy, and at the end of every turn for the conversations.               *)
(***************************************************************************)
Refresh(f) ==
    /\ fetches[f].state = "idle"
    /\ fetches' = [fetches EXCEPT ![f] = [@ EXCEPT !.state = "asked"]]
    /\ UNCHANGED <<listKind, held, shown, adding, dialog, dropped, scope, overtaken>>

Unloaded == shown = <<>> /\ \A f \in Fetch : fetches[f].state = "idle"
Mount(f) == Unloaded /\ Refresh(f)
Poll(f) == busy /\ Refresh(f)
TurnEnds(f) == listKind = "conversations" /\ Refresh(f)

ListRead(f) ==
    /\ fetches[f].state = "asked"
    /\ fetches' = [fetches EXCEPT ![f] = [state |-> "read", rows |-> Rows, overtaken |-> FALSE]]
    /\ UNCHANGED <<listKind, held, shown, adding, dialog, dropped, scope, overtaken>>

ListArrives(f) ==
    /\ fetches[f].state = "read"
    /\ shown' = fetches[f].rows
    /\ overtaken' = (overtaken \/ fetches[f].overtaken)
    /\ fetches' = [fetches EXCEPT ![f] = NoFetch]
    /\ UNCHANGED <<listKind, held, adding, dialog, dropped, scope>>

\* Only the error is set: the list stays, and so does the timer.
ListFails(f) ==
    /\ fetches[f].state # "idle"
    /\ fetches' = [fetches EXCEPT ![f] = NoFetch]
    /\ UNCHANGED <<listKind, held, shown, adding, dialog, dropped, scope, overtaken>>

-----------------------------------------------------------------------------
(***************************************************************************)
(* upload and create                                                       *)
(***************************************************************************)
\* The lists already read do not know of a change the screen shows from now on.
OvertakeLists == fetches' = [f \in Fetch |-> [fetches[f] EXCEPT !.overtaken = fetches[f].state = "read"]]

\* The drop zone is disabled while an upload is under way.
Add(d) ==
    /\ held[d] = "none" /\ adding[d] = "idle" /\ \A e \in Item : adding[e] # "sent"
    /\ adding' = [adding EXCEPT ![d] = "sent"]
    /\ UNCHANGED <<listKind, held, shown, fetches, dialog, dropped, scope, overtaken>>

Accepted(d) ==
    /\ adding[d] = "sent" /\ held[d] = "none"
    /\ held' = [held EXCEPT ![d] = IF listKind = "documents" THEN "pending" ELSE "ready"]
    /\ UNCHANGED <<listKind, shown, fetches, adding, dialog, dropped, scope, overtaken>>

\* The row goes in front, with the status the upload was answered with.
Inserted(d) ==
    /\ adding[d] = "sent" /\ held[d] # "none"
    /\ shown' = <<Row(d, IF listKind = "documents" THEN "pending" ELSE "ready")>> \o shown
    /\ adding' = [adding EXCEPT ![d] = "shown"]
    /\ OvertakeLists /\ overtaken' = (overtaken \/ d \in dropped)
    /\ UNCHANGED <<listKind, held, dialog, dropped, scope>>

AddFails(d) ==
    /\ adding[d] = "sent"
    /\ adding' = [adding EXCEPT ![d] = "failed"]
    /\ UNCHANGED <<listKind, held, shown, fetches, dialog, dropped, scope, overtaken>>

\* The server reads the document.
Read(d) ==
    /\ held[d] \in Busy
    /\ held' \in {[held EXCEPT ![d] = s] :
                     s \in IF held[d] = "pending" THEN {"processing"} ELSE {"ready", "failed"}}
    /\ UNCHANGED <<listKind, shown, fetches, adding, dialog, dropped, scope, overtaken>>

-----------------------------------------------------------------------------
(***************************************************************************)
(* The delete dialog: its buttons are disabled while it deletes.           *)
(***************************************************************************)
AskDelete(d) ==
    /\ dialog.state = "closed" /\ ById(d) # {}
    /\ dialog' = [id |-> d, state |-> "open"]
    /\ UNCHANGED <<listKind, held, shown, fetches, adding, dropped, scope, overtaken>>

Cancel ==
    /\ dialog.state = "open"
    /\ dialog' = NoDialog
    /\ UNCHANGED <<listKind, held, shown, fetches, adding, dropped, scope, overtaken>>

Confirm ==
    /\ dialog.state = "open"
    /\ dialog' = [dialog EXCEPT !.state = "deleting"]
    /\ UNCHANGED <<listKind, held, shown, fetches, adding, dropped, scope, overtaken>>

DeletedThere ==
    /\ dialog.state = "deleting" /\ held[dialog.id] \notin Absent
    /\ held' = [held EXCEPT ![dialog.id] = "gone"]
    /\ dialog' = [dialog EXCEPT !.state = "deleted"]
    /\ UNCHANGED <<listKind, shown, fetches, adding, dropped, scope, overtaken>>

Filtered ==
    /\ dialog.state = "deleted"
    /\ shown' = FlattenSeq([i \in DOMAIN shown |-> IF shown[i].id # dialog.id THEN <<shown[i]>> ELSE <<>>])
    /\ dropped' = dropped \cup {dialog.id}
    /\ dialog' = NoDialog
    /\ OvertakeLists
    /\ UNCHANGED <<listKind, held, adding, scope, overtaken>>

\* 404 for what another tab has deleted, or no answer at all.
DeleteFails ==
    /\ dialog.state \in {"deleting", "deleted"}
    /\ dialog' = [dialog EXCEPT !.state = "open"]
    /\ UNCHANGED <<listKind, held, shown, fetches, adding, dropped, scope, overtaken>>

-----------------------------------------------------------------------------
\* The composer's effect: what cannot be asked is not kept as the scope.
DropScope ==
    /\ scope # NoItem /\ scope \notin Askable
    /\ scope' = NoItem
    /\ UNCHANGED <<listKind, held, shown, fetches, adding, dialog, dropped, overtaken>>

Choose(d) ==
    /\ listKind = "documents" /\ scope # d /\ d \in Askable \cup {NoItem}
    /\ scope' = d
    /\ UNCHANGED <<listKind, held, shown, fetches, adding, dialog, dropped, overtaken>>

ListNext ==
    \/ \E f \in Fetch : Mount(f) \/ Poll(f) \/ TurnEnds(f) \/ ListRead(f) \/ ListArrives(f) \/ ListFails(f)
    \/ \E d \in Item : Add(d) \/ Accepted(d) \/ Inserted(d) \/ AddFails(d) \/ Read(d) \/ AskDelete(d)
    \/ Cancel \/ Confirm \/ DeletedThere \/ Filtered \/ DeleteFails
    \/ DropScope \/ \E d \in Item \cup {NoItem} : Choose(d)

\* The server reads what was uploaded, the timer ticks, every list request is
\* answered in the end, and not always with a failure.
ListFair ==
    /\ \A d \in Item : WF_list(Read(d))
    /\ WF_list(\E f \in Fetch : Poll(f))
    /\ \A f \in Fetch : WF_list(ListRead(f)) /\ SF_list(ListArrives(f)) /\ SF_list(ListRead(f))

-----------------------------------------------------------------------------
(***************************************************************************)
(* Properties                                                              *)
(***************************************************************************)
ListTypeOK ==
    /\ held \in [Item -> Busy \cup Absent \cup {"ready", "failed"}]
    /\ \A i \in DOMAIN shown : shown[i] \in [id : Item, status : Busy \cup {"ready", "failed"}]
    /\ adding \in [Item -> {"idle", "sent", "shown", "failed"}]
    /\ dialog.state \in {"closed", "open", "deleting", "deleted"}
    /\ dropped \subseteq Item /\ scope \in Item \cup {NoItem}

\* Unless an answer older than the change arrives after it: what was
\* uploaded is on the list from the answer until it is deleted, and what was
\* confirmed to be deleted is not on it again. Two rows of one
\* document are there only while the list polls, so that the next list mends it.
ListTrue ==
    ~overtaken =>
        /\ \A d \in Item : adding[d] = "shown" /\ held[d] \notin Absent => ById(d) # {}
        /\ \A d \in Item : d \in dropped => ById(d) = {}
        /\ listKind = "documents" =>
              \A i, j \in DOMAIN shown : shown[i].id = shown[j].id /\ i # j => busy

\* Whatever order the lists arrive in, the screen does not say "reading" for
\* ever: the timer goes on until a list without a busy document has come.
BusySettles == <>[]~busy

\* The composer gives up a scope only for a document that is gone or unread.
\* (components/chat/Composer.tsx: the scope falls back when its document is
\* deleted.)
ScopeKept == [][DropScope => held[scope] # "ready"]_list
=============================================================================
