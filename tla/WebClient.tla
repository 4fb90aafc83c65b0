----------------------------- MODULE WebClient -----------------------------
(***************************************************************************)
(* The web client (web/): the chat page, the lists, the session with its   *)
(* screens, and the way of an answer to the screen.                        *)
(*                                                                         *)
(* They keep their state in contexts and components of their own and meet  *)
(* only at the server, so that a behaviour exercises one of them and the   *)
(* others stand still.                                                     *)
(***************************************************************************)
EXTENDS ChatPage, RemoteList, SessionScreens, AnswerView

VARIABLE part   \* which of the four this behaviour exercises

client == <<part, chat, list, session, view>>

Init ==
    /\ part \in {"chat", "list", "session", "view"}
    /\ ChatInit /\ ListInit /\ SessionInit /\ ViewInit
    /\ part # "chat" => address = None
    /\ part # "list" => /\ listKind = "documents" /\ scope = NoItem
                        /\ \A d \in Item : held[d] = "none"
    /\ part # "session" => /\ ~loading /\ ~cookie /\ ~verified /\ link = "bad" /\ screen = "login"
                           /\ url = [fragment |-> NoToken, query |-> NoToken]
    /\ part # "view" => /\ sent = (CHOOSE b \in Bodies : TRUE) /\ wire = Written(sent, <<"n">>, TRUE)
                        /\ text = (CHOOSE t \in Texts : TRUE) /\ citations = (CHOOSE c \in Cited : TRUE)

Next ==
    /\ UNCHANGED part
    /\ \/ part = "chat" /\ ChatNext /\ UNCHANGED <<list, session, view>>
       \/ part = "list" /\ ListNext /\ UNCHANGED <<chat, session, view>>
       \/ part = "session" /\ SessionNext /\ UNCHANGED <<chat, list, view>>
       \/ part = "view" /\ ViewNext /\ UNCHANGED <<chat, list, session>>

Spec == Init /\ [][Next]_client
FairSpec == Spec /\ ChatFair /\ ListFair /\ SessionFair

-----------------------------------------------------------------------------
\* What is on the screen is one thing, and what the server holds, in whatever
\* order the answers arrive: the thread of the chat page (ChatPageInner), the
\* lists (DocumentsProvider, ConversationsProvider) and the text of a source
\* (CitationModal).
ShownTrue == ThreadIsOne /\ ListTrue /\ SourceTrue

\* Whatever step is taken, the verify page says "confirmed" only of a confirmed
\* address, with a session that knows it, whoever asks who the user is at the
\* same time; and it does not take it back (VerifyInner).
LinkAnswered == [][ConfirmedTold' /\ (Shows = "done" => Shows' = "done")]_session

\* Nothing the client waits for keeps it waiting for ever: the composer is
\* freed when a turn is over, the list stops saying that it reads a document
\* that has been read, a link is answered, and no screen stays blank.
WaitsEnd == ComposerFreed /\ BusySettles /\ LinkAnswers /\ NeverBlank
=============================================================================
