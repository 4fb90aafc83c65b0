------------------------------ MODULE ChatPage ------------------------------
(***************************************************************************)
(* The chat page (web/app/(app)/page.tsx) in one browser tab: the address, *)
(* the thread on the screen, and what is still under way at the server.    *)
(*                                                                         *)
(* The page has no means of calling anything back: a response or an event  *)
(* of a stream is applied to whatever is on the screen when it arrives.    *)
(***************************************************************************)
EXTENDS Naturals, Sequences, SequencesExt

CONSTANTS
    Stored,  \* conversations that exist when the page is opened
    Turns,   \* how many questions are asked (a bound)
    None,    \* null
    Moves    \* how often the user navigates, asks or deletes (a bound)

ASSUME TurnsCounted == Turns \in Nat

Turn == 1..Turns

\* A conversation is one that was there, or is named by the turn that made it.
Conversation == Stored \cup Turn

VARIABLES
    address,    \* the c parameter of the address, or None
    synced,     \* the address when the effect last ran
    loaded,     \* loadedId.current
    current,    \* conversationId
    messages,   \* the messages on the thread, each [turn, role]
    streaming,  \* the turns whose tokens are in the growing answer, or None
    error,      \* turnError: None, "turn", "open", or "futile" for a dead end
    again,      \* lastQuestion, as the turn that asked it first
    turn,       \* turn[t]: how far ask(t) got
    target,     \* target[t]: the conversation ask(t) sends its question to
    saved,      \* saved[t]: which messages of t the server has
    opening,    \* getConversation requests under way: [id, left]
    erasing,    \* the deletion under way: [id, open], or None
    erased,     \* conversations deleted at the server
    moves,      \* how often the user has navigated, asked or deleted
    left,       \* turns under way that the user has moved on from
    late        \* something arrived after the user had moved on

thread == <<current, messages, streaming, error, again>>
server == <<saved, erasing, erased>>
chat == <<address, synced, loaded, thread, turn, target, opening, server, moves, left, late>>

TurnPC == {"idle", "create", "send", "stream", "answered", "ended"}

Exists(c) == c \in Conversation \ erased /\ (c \in Turn => target[c] = c)
InFlight == {t \in Turn : turn[t] \notin {"idle", "ended"}}
Message(t, role) == [turn |-> t, role |-> role]

\* What getConversation answers: the messages the server has, in order.
Saved(t) ==
    CASE saved[t] = "both" -> <<Message(t, "user"), Message(t, "assistant")>>
      [] saved[t] = "question" -> <<Message(t, "user")>>
      [] OTHER -> <<>>
History(c) == FlattenSeq([t \in Turn |-> IF target[t] = c THEN Saved(t) ELSE <<>>])

ChatInit ==
    /\ address \in Stored \cup {None}
    /\ synced = None /\ loaded = None /\ current = None
    /\ messages = <<>> /\ streaming = None /\ error = None /\ again = None
    /\ turn = [t \in Turn |-> "idle"]
    /\ target = [t \in Turn |-> None]
    /\ saved = [t \in Turn |-> "none"]
    /\ opening = {} /\ erasing = None /\ erased = {}
    /\ moves = 0 /\ left = {} /\ late = FALSE

-----------------------------------------------------------------------------
(***************************************************************************)
(* Navigation: links of the sidebar, the back button, "new conversation".  *)
(***************************************************************************)
Overtaken(o) == [o EXCEPT !.left = TRUE]

Navigate(c) ==
    /\ moves < Moves /\ moves' = moves + 1
    /\ address # c
    /\ address' = c
    /\ left' = left \cup InFlight /\ opening' = {Overtaken(o) : o \in opening}
    /\ UNCHANGED <<synced, loaded, thread, turn, target, server, late>>

\* The effect on conversationParam: resetThread, or the first half of
\* openConversation, which leaves lastQuestion alone.
SyncAddress ==
    /\ address # synced
    /\ synced' = address
    /\ IF address = loaded THEN UNCHANGED <<loaded, thread, opening, left>>
       ELSE /\ loaded' = address
            /\ left' = left \cup {t \in InFlight : target[t] # address}
            /\ current' = address /\ messages' = <<>>
            /\ streaming' = None /\ error' = None
            /\ opening' = {Overtaken(o) : o \in opening}
                          \cup (IF address = None THEN {} ELSE {[id |-> address, left |-> FALSE]})
            /\ again' = IF address = None THEN None ELSE again
    /\ UNCHANGED <<address, turn, target, server, moves, late>>

\* The second half of openConversation, whichever conversation is shown by now.
Opened(o) ==
    /\ o \in opening
    /\ opening' = opening \ {o}
    /\ \/ /\ Exists(o.id)
          /\ messages' = History(o.id)
          /\ UNCHANGED error
       \/ /\ error' = "open"
          /\ UNCHANGED messages
    /\ late' = (late \/ o.left)
    /\ UNCHANGED <<address, synced, loaded, current, streaming, again, turn, target,
                   server, moves, left>>

-----------------------------------------------------------------------------
(***************************************************************************)
(* ask                                                                     *)
(***************************************************************************)
TurnGoes(t, step) == turn' = [turn EXCEPT ![t] = step]

\* The composer is disabled while an answer streams; the retry button is there
\* while an error is shown that trying again can mend.
Ask(t) ==
    /\ turn[t] = "idle" /\ \A u \in Turn : u < t => turn[u] # "idle"
    /\ moves < Moves
    /\ streaming = None \/ (error \in {"turn", "open"} /\ again # None)
    /\ moves' = moves + 1
    /\ left' = left \cup InFlight /\ opening' = {Overtaken(o) : o \in opening}
    /\ error' = None /\ again' = t
    /\ messages' = Append(messages, Message(t, "user"))
    /\ streaming' = {}
    /\ target' = [target EXCEPT ![t] = current]
    /\ TurnGoes(t, IF current = None THEN "create" ELSE "send")
    /\ UNCHANGED <<address, synced, loaded, current, server, late>>

Late(t) == late' = (late \/ t \in left)

\* Faulty: the effect is not told of the new conversation.
CreatedUnnoted(t) ==
    /\ turn[t] = "create"
    /\ target' = [target EXCEPT ![t] = t]
    /\ current' = t /\ address' = t
    /\ TurnGoes(t, "send")
    /\ Late(t)
    /\ UNCHANGED <<synced, loaded, messages, streaming, error, again, opening, server, moves, left>>

\* The first question makes the conversation, and the address follows.
Created(t) ==
    /\ turn[t] = "create"
    /\ target' = [target EXCEPT ![t] = t]
    /\ current' = t /\ loaded' = t /\ address' = t
    /\ TurnGoes(t, "send")
    /\ Late(t)
    /\ UNCHANGED <<synced, messages, streaming, error, again, opening, server, moves, left>>

\* The stream opens: the server has stored the question.
StreamOpens(t) ==
    /\ turn[t] = "send" /\ Exists(target[t])
    /\ saved' = [saved EXCEPT ![t] = "question"]
    /\ TurnGoes(t, "stream")
    /\ UNCHANGED <<address, synced, loaded, thread, target, opening, erasing, erased,
                   moves, left, late>>

Token(t) ==
    /\ turn[t] = "stream"
    /\ streaming' = (IF streaming = None THEN {} ELSE streaming) \cup {t}
    /\ Late(t)
    /\ UNCHANGED <<address, synced, loaded, current, messages, error, again, turn,
                   target, opening, server, moves, left>>

\* The server stores the answer before it sends "done".
AnswerStored(t) ==
    /\ turn[t] = "stream"
    /\ saved' = [saved EXCEPT ![t] = "both"]
    /\ TurnGoes(t, "answered")
    /\ UNCHANGED <<address, synced, loaded, thread, target, opening, erasing, erased,
                   moves, left, late>>

Done(t) ==
    /\ turn[t] = "answered"
    /\ messages' = Append(messages, Message(t, "assistant"))
    /\ streaming' = None
    /\ TurnGoes(t, "ended")
    /\ Late(t)
    /\ UNCHANGED <<address, synced, loaded, current, error, again, target, opening,
                   server, moves, left>>

\* Faulty: a stream that just ends is not noticed.
FailedUnnoticed(t) ==
    /\ turn[t] \in {"create", "send", "stream", "answered"}
    /\ saved' = IF turn[t] = "stream" THEN [saved EXCEPT ![t] = "none"] ELSE saved
    /\ TurnGoes(t, "ended")
    /\ Late(t)
    /\ UNCHANGED <<address, synced, loaded, current, messages, again, target, opening,
                   erasing, erased, moves, left, streaming, error>>

\* An "error" event (the server discards the question), a stream that ends
\* without "done", or a request that is refused.
Failed(t) ==
    /\ turn[t] \in {"create", "send", "stream", "answered"}
    /\ \E discarded \in BOOLEAN :
          saved' = IF discarded /\ turn[t] = "stream" THEN [saved EXCEPT ![t] = "none"] ELSE saved
    /\ streaming' = None
    /\ error' \in {"turn", "futile"}
    /\ TurnGoes(t, "ended")
    /\ Late(t)
    /\ UNCHANGED <<address, synced, loaded, current, messages, again, target, opening,
                   erasing, erased, moves, left>>

-----------------------------------------------------------------------------
(***************************************************************************)
(* Deleting a conversation from the sidebar (components/AppShell.tsx).     *)
(***************************************************************************)
Erase(c) ==
    /\ erasing = None /\ Exists(c)
    /\ moves < Moves /\ moves' = moves + 1
    /\ erasing' = [id |-> c, open |-> address = c]
    /\ UNCHANGED <<address, synced, loaded, thread, turn, target, opening, saved, erased,
                   left, late>>

\* The conversation that was open when the dialog asked is left behind.
Erased ==
    /\ erasing # None
    /\ erasing' = None
    /\ \/ /\ erased' = erased \cup {erasing.id}
          /\ address' = IF erasing.open THEN None ELSE address
       \/ UNCHANGED <<erased, address>>
    /\ UNCHANGED <<synced, loaded, thread, turn, target, opening, saved, moves, left, late>>

Streams(t) == \/ Created(t) \/ StreamOpens(t) \/ AnswerStored(t) \/ Done(t)
              \/ Failed(t)

ChatNext ==
    \/ \E c \in Stored \cup {None} : Navigate(c)
    \/ \E c \in Conversation : Erase(c)
    \/ SyncAddress \/ Erased
    \/ \E o \in opening : Opened(o)
    \/ \E t \in Turn : Ask(t) \/ Token(t) \/ Streams(t)

\* The browser runs the turn on: every request is answered or fails.
ChatFair == \A t \in Turn : WF_chat(Streams(t))

-----------------------------------------------------------------------------
(***************************************************************************)
(* Properties                                                              *)
(***************************************************************************)
ChatTypeOK ==
    /\ {address, synced, loaded, current} \subseteq Conversation \cup {None}
    /\ messages \in Seq([turn : Turn, role : {"user", "assistant"}])
    /\ streaming \in (SUBSET Turn) \cup {None}
    /\ error \in {None, "turn", "open", "futile"} /\ again \in Turn \cup {None}
    /\ turn \in [Turn -> TurnPC] /\ target \in [Turn -> Conversation \cup {None}]
    /\ saved \in [Turn -> {"none", "question", "both"}]
    /\ opening \subseteq [id : Conversation, left : BOOLEAN]
    /\ erased \subseteq Conversation /\ left \subseteq Turn

\* As long as nothing arrives after the user has moved on, the thread is that
\* of one conversation: every message and every streamed token belongs to the
\* conversation the next question would go to (a question that never reached
\* one belongs to none), each answer stands right after its question, and
\* creating a conversation under the first question loses nothing.
ThreadIsOne ==
    ~late =>
        /\ \A i \in 1..Len(messages) :
              /\ target[messages[i].turn] \in {current, None}
              /\ messages[i].role = "assistant" =>
                    i > 1 /\ messages[i - 1] = Message(messages[i].turn, "user")
        /\ streaming # None =>
              \A t \in streaming : Message(t, "user") \in ToSet(messages)

\* When a conversation could not be opened the page offers the way out, and not
\* to try again. (The comment over the alert, page.tsx:298-306.)
FailedOpenOffersExit == error = "open" => again = None

\* The composer is not locked for ever: whatever a stream does, it ends the
\* turn on the screen.
ComposerFreed == (streaming # None) ~> (streaming = None)
=============================================================================
