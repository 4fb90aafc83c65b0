-------------------------- MODULE WebClientProofs --------------------------
(***************************************************************************)
(* Theorems about WebClient: what is on the screen is one thing and what   *)
(* the server holds, and what the page of an e-mailed link says, for any   *)
(* number of turns, lists, texts and GET /auth/me under way, in whatever   *)
(* order their answers arrive, and whatever is created, deleted or signed  *)
(* out meanwhile.                                                          *)
(***************************************************************************)
EXTENDS WebClient, Recursion, SequenceTheorems, TLAPS

-----------------------------------------------------------------------------
\* The thread of the chat page
Messages == [turn : Turn, role : {"user", "assistant"}]

\* Every message belongs to c or to no conversation; every answer follows its question.
OfOne(m, where, c) == \A i \in 1 .. Len(m) : where[m[i].turn] \in {c, None}

\* An answer comes right after its own question (the page appends both).
Follows(m) == \A i \in 1 .. Len(m) : m[i].role = "assistant" => i > 1 /\ m[i - 1] = Message(m[i].turn, "user")

\* A thread as the page shows it and as the server stores it.
Thread(m, where, c) == m \in Seq(Messages) /\ OfOne(m, where, c) /\ Follows(m)

\* What is typed, and the two things of which none is without the other.
ChatInv ==
    /\ ChatTypeOK /\ loaded = current
    /\ \A t \in Turn : turn[t] = "create" => target[t] = None
    /\ erasing # None => erasing.id \in Conversation

\* Before anything comes too late, the turn under way that the user has not moved
\* on from is the last on the thread, and asks the conversation that is shown;
\* a conversation that is being opened is the one that is shown, and nothing is
\* written under it meanwhile.
Present == InFlight \ left

\* The strengthening of ThreadIsOne.
ThreadInv ==
    /\ OfOne(messages, target, current) /\ Follows(messages)
    /\ streaming # None => \A t \in streaming : \E i \in DOMAIN messages : messages[i] = Message(t, "user")
    /\ \A t \in Present :
          /\ target[t] = current /\ \A u \in Present : u = t
          /\ messages # <<>> /\ messages[Len(messages)] = Message(t, "user")
    /\ \A o \in opening : ~o.left => o.id = current /\ streaming = None /\ Present = {}

\* It is what the property asks.
LEMMA ThreadIs == ChatInv /\ (~late => ThreadInv) => ThreadIsOne
  BY DEF ThreadIsOne, ThreadInv, OfOne, Follows, ToSet, ChatInv, ChatTypeOK

\* What is on the thread, and one more message.
LEMMA OnThread ==
    ASSUME ChatInv
    PROVE  /\ messages \in Seq(Messages) /\ Len(messages) \in Nat /\ DOMAIN messages = 1 .. Len(messages)
           /\ \A i \in 1 .. Len(messages) : messages[i] \in Messages /\ messages[i].turn \in Turn
<1>1. messages \in Seq(Messages)
  BY DEF ChatInv, ChatTypeOK, Messages
<1>2. \A m \in Messages : m.turn \in Turn
  BY DEF Messages
<1> QED
  BY <1>1, <1>2

\* A message more: the others keep their places.
LEMMA OneMore ==
    ASSUME ChatInv, NEW m \in Messages, messages' = Append(messages, m)
    PROVE  /\ messages' \in Seq(Messages) /\ messages' # <<>> /\ Len(messages') = Len(messages) + 1
           /\ messages'[Len(messages')] = m
           /\ \A i \in 1 .. Len(messages) : messages'[i] = messages[i]
           /\ \A i \in 1 .. Len(messages') : i \in 1 .. Len(messages) \/ i = Len(messages')
<1>1. messages \in Seq(Messages) /\ Len(messages) \in Nat
  BY OnThread
<1>2. messages' \in Seq(Messages) /\ messages' # <<>> /\ Len(messages') = Len(messages) + 1
      /\ messages'[Len(messages) + 1] = m /\ \A i \in 1 .. Len(messages) : messages'[i] = messages[i]
  BY <1>1, AppendProperties
<1> QED
  BY <1>1, <1>2

\* One question and its answer.
LEMMA SavedIs ==
    ASSUME ChatInv, NEW t \in Turn, NEW c, target[t] = c
    PROVE  Thread(Saved(t), target, c)
<1>1. Saved(t) \in {<<>>, <<Message(t, "user")>>, <<Message(t, "user"), Message(t, "assistant")>>}
  BY DEF Saved, ChatInv, ChatTypeOK
<1>2. Message(t, "user") \in Messages /\ Message(t, "assistant") \in Messages
      /\ Message(t, "user").turn = t /\ Message(t, "assistant").turn = t /\ Message(t, "user").role = "user"
  BY DEF Message, Messages
<1> DEFINE u == Message(t, "user")
<1> DEFINE v == Message(t, "assistant")
<1> HIDE DEF u, v
<1>3. <<>> \in Seq(Messages) /\ OfOne(<<>>, target, c) /\ Follows(<<>>)
  BY DEF OfOne, Follows
<1>4. <<u>> \in Seq(Messages) /\ OfOne(<<u>>, target, c) /\ Follows(<<u>>)
  BY <1>2 DEF OfOne, Follows, u
<1>5. <<u, v>> \in Seq(Messages) /\ OfOne(<<u, v>>, target, c) /\ Follows(<<u, v>>)
  <2>1. <<u, v>> \in Seq(Messages) /\ Len(<<u, v>>) = 2 /\ <<u, v>>[1] = u /\ <<u, v>>[2] = v
    BY <1>2 DEF u, v
  <2>2. \A i \in 1 .. 2 : i = 1 \/ i = 2
    OBVIOUS
  <2> HIDE DEF u, v
  <2>3. u.turn = t /\ v.turn = t /\ u.role = "user" /\ u = Message(t, "user")
    BY <1>2 DEF u, v
  <2> QED
    BY <2>1, <2>2, <2>3 DEF OfOne, Follows
<1>6. Saved(t) \in {<<>>, <<u>>, <<u, v>>}
  BY <1>1 DEF u, v
<1> QED
  BY <1>3, <1>4, <1>5, <1>6 DEF Thread

\* Two threads of one conversation are one.
LEMMA Joined ==
    ASSUME NEW a, NEW b, NEW where, NEW c, Thread(a, where, c), Thread(b, where, c)
    PROVE  Thread(a \o b, where, c)
<1>1. a \in Seq(Messages) /\ b \in Seq(Messages)
  BY DEF Thread
<1>2. /\ a \o b \in Seq(Messages) /\ Len(a \o b) = Len(a) + Len(b) /\ Len(a) \in Nat /\ Len(b) \in Nat
      /\ \A i \in 1 .. Len(a) : (a \o b)[i] = a[i]
      /\ \A i \in 1 .. Len(b) : (a \o b)[Len(a) + i] = b[i]
  <2>1. /\ a \o b \in Seq(Messages) /\ Len(a \o b) = Len(a) + Len(b) /\ Len(a) \in Nat /\ Len(b) \in Nat
        /\ \A i \in 1 .. Len(a) + Len(b) : (a \o b)[i] = IF i <= Len(a) THEN a[i] ELSE b[i - Len(a)]
    BY <1>1, ConcatProperties
  <2>2. \A i \in 1 .. Len(b) : /\ Len(a) + i \in 1 .. Len(a) + Len(b) /\ ~ (Len(a) + i <= Len(a))
                               /\ (Len(a) + i) - Len(a) = i
    BY <2>1
  <2> QED
    BY <2>1, <2>2
<1>3. \A i \in 1 .. Len(a \o b) : i \in 1 .. Len(a) \/ (i - Len(a) \in 1 .. Len(b) /\ i = Len(a) + (i - Len(a)))
  BY <1>2
<1>4. OfOne(a \o b, where, c)
  BY <1>2, <1>3 DEF Thread, OfOne
<1>5. ASSUME NEW i \in 1 .. Len(a \o b), (a \o b)[i].role = "assistant"
      PROVE  i > 1 /\ (a \o b)[i - 1] = Message((a \o b)[i].turn, "user")
  <2>1. CASE i \in 1 .. Len(a)
    <3>1. i > 1 /\ a[i - 1] = Message(a[i].turn, "user")
      BY <1>2, <1>5, <2>1 DEF Thread, Follows
    <3>2. i - 1 \in 1 .. Len(a)
      BY <1>2, <2>1, <3>1
    <3> QED
      BY <1>2, <2>1, <3>1, <3>2
  <2>2. CASE i \notin 1 .. Len(a)
    <3> DEFINE j == i - Len(a)
    <3>1. j \in 1 .. Len(b) /\ i = Len(a) + j
      BY <1>3, <2>2
    <3>2. (a \o b)[i] = b[j]
      BY <1>2, <3>1
    <3>3. j > 1 /\ b[j - 1] = Message(b[j].turn, "user")
      BY <1>5, <3>1, <3>2 DEF Thread, Follows
    <3>4. j - 1 \in 1 .. Len(b) /\ i - 1 = Len(a) + (j - 1) /\ i > 1
      BY <1>2, <3>1, <3>3
    <3>5. (a \o b)[i - 1] = b[j - 1]
      BY <1>2, <3>4
    <3> QED
      BY <3>2, <3>3, <3>4, <3>5
  <2> QED
    BY <2>1, <2>2
<1> QED
  BY <1>2, <1>4, <1>5 DEF Thread, Follows

\* What getConversation answers is a thread of that conversation.
LEMMA HistoryIs ==
    ASSUME ChatInv, NEW c
    PROVE  Thread(History(c), target, c)
<1> DEFINE G == {m \in Seq(Messages) : Thread(m, target, c)}
<1> DEFINE s == [t \in Turn |-> IF target[t] = c THEN Saved(t) ELSE <<>>]
<1>1. <<>> \in G
  BY DEF Thread, OfOne, Follows
<1>2. \A a, b \in G : a \o b \in G
  BY Joined DEF Thread
<1>3. s \in [1 .. Turns -> G]
  <2>1. \A t \in Turn : s[t] \in G
    BY <1>1, SavedIs DEF Thread
  <2> HIDE DEF G
  <2> QED
    BY <2>1 DEF Turn
<1>4. Turns \in Nat /\ G \subseteq Seq(Messages)
  BY TurnsCounted
<1> HIDE DEF G, s
<1>5. FlattenSeq(s) \in G
  BY <1>1, <1>2, <1>3, <1>4, FlattenIn
<1> QED
  BY <1>5 DEF G, s, History

\* The page opens with nothing on it (ChatInit).
LEMMA ChatStarts == ChatInit => ChatInv /\ ThreadInv
<1> SUFFICES ASSUME ChatInit PROVE ChatInv /\ ThreadInv
  OBVIOUS
<1>1. messages = <<>> /\ opening = {} /\ streaming = None /\ InFlight = {} /\ Present = {}
  BY DEF ChatInit, InFlight, Present
<1>2. ChatTypeOK
  <2>1. {address, synced, loaded, current} \subseteq Conversation \cup {None}
    BY DEF ChatInit, Conversation
  <2>2. messages \in Seq([turn : Turn, role : {"user", "assistant"}])
    BY <1>1
  <2>3. turn \in [Turn -> TurnPC] /\ target \in [Turn -> Conversation \cup {None}]
        /\ saved \in [Turn -> {"none", "question", "both"}]
    BY DEF ChatInit, TurnPC
  <2> QED
    BY <1>1, <2>1, <2>2, <2>3 DEF ChatInit, ChatTypeOK
<1>3. OfOne(messages, target, current) /\ Follows(messages)
  BY <1>1 DEF OfOne, Follows
<1>4. loaded = current /\ erasing = None /\ \A t \in Turn : turn[t] # "create"
  BY DEF ChatInit
<1> QED
  BY <1>1, <1>2, <1>3, <1>4 DEF ChatInv, ThreadInv


\* Nothing that is on the thread is disturbed: what is under way is as it was, or less.
LEMMA Undisturbed ==
    ASSUME ThreadInv, UNCHANGED <<messages, current, streaming, target>>,
           Present' \subseteq Present, \A o \in opening' : ~o.left => o \in opening
    PROVE  ThreadInv'
  BY DEF ThreadInv, OfOne, Follows

\* What is left behind is otherwise as it was.
LEMMA LeftBehind ==
    ASSUME NEW o \in [id : Conversation, left : BOOLEAN]
    PROVE  Overtaken(o) \in [id : Conversation, left : BOOLEAN] /\ Overtaken(o).left
  BY DEF Overtaken

\* The navigation leaves everything under way behind.
LEMMA NavigateKeeps ==
    ASSUME ChatInv, NEW c \in Stored \cup {None}, Navigate(c)
    PROVE  ChatInv' /\ (~late /\ ThreadInv => ThreadInv')
<1>1. UNCHANGED <<synced, loaded, thread, turn, target, server, late>> /\ address' = c
      /\ left' = left \cup InFlight /\ opening' = {Overtaken(o) : o \in opening}
  BY DEF Navigate
<1>2. \A o \in opening' : o \in [id : Conversation, left : BOOLEAN] /\ o.left
  BY <1>1, LeftBehind DEF ChatInv, ChatTypeOK
<1>3. Present' = {}
  BY <1>1 DEF Present, InFlight
<1>4. ChatInv'
  BY <1>1, <1>2 DEF ChatInv, ChatTypeOK, thread, server, Conversation, InFlight
<1> QED
  BY <1>1, <1>2, <1>3, <1>4, Undisturbed DEF thread

\* A new thread is empty, and what was under the old one is left behind.
LEMMA SyncKeeps ==
    ASSUME ChatInv, SyncAddress
    PROVE  ChatInv' /\ (~late /\ ThreadInv => ThreadInv')
<1>0. UNCHANGED <<address, turn, target, server, moves, late>> /\ synced' = address
  BY DEF SyncAddress
<1>1. CASE address = loaded
  <2>1. UNCHANGED <<loaded, thread, opening, left>>
    BY <1>1 DEF SyncAddress
  <2>2. ChatInv'
    BY <1>0, <2>1 DEF ChatInv, ChatTypeOK, thread, server
  <2>3. Present' = Present
    BY <1>0, <2>1 DEF Present, InFlight
  <2> QED
    BY <1>0, <2>1, <2>2, <2>3, Undisturbed DEF thread
<1>2. CASE address # loaded
  <2>1. /\ loaded' = address /\ current' = address /\ messages' = <<>> /\ streaming' = None /\ error' = None
        /\ left' = left \cup {t \in InFlight : target[t] # address}
        /\ opening' = {Overtaken(o) : o \in opening} \cup (IF address = None THEN {} ELSE {[id |-> address, left |-> FALSE]})
        /\ again' = IF address = None THEN None ELSE again
    BY <1>2 DEF SyncAddress
  <2>2. \A o \in opening' : /\ o \in [id : Conversation, left : BOOLEAN]
                            /\ ~o.left => o.id = address
    <3>1. \A o \in opening : Overtaken(o) \in [id : Conversation, left : BOOLEAN] /\ Overtaken(o).left
      BY LeftBehind DEF ChatInv, ChatTypeOK
    <3>2. address # None => [id |-> address, left |-> FALSE] \in [id : Conversation, left : BOOLEAN]
      BY DEF ChatInv, ChatTypeOK
    <3>3. \A o \in opening' : (\E q \in opening : o = Overtaken(q)) \/ (address # None /\ o = [id |-> address, left |-> FALSE])
      BY <2>1
    <3>4. ASSUME NEW o, NEW q \in opening, o = Overtaken(q)
          PROVE  o \in [id : Conversation, left : BOOLEAN] /\ (~o.left => o.id = address)
      BY <3>1, <3>4
    <3>5. ASSUME NEW o, address # None, o = [id |-> address, left |-> FALSE]
          PROVE  o \in [id : Conversation, left : BOOLEAN] /\ (~o.left => o.id = address)
      BY <3>2, <3>5
    <3> QED
      BY <3>3, <3>4, <3>5
  <2>3. ChatInv'
    <3>1. messages' \in Seq([turn : Turn, role : {"user", "assistant"}])
      BY <2>1
    <3>2. left' \subseteq Turn
      BY <2>1 DEF InFlight, ChatInv, ChatTypeOK
    <3> QED
      BY <1>0, <2>1, <2>2, <3>1, <3>2 DEF ChatInv, ChatTypeOK, server
  <2>4. ASSUME ~late, ThreadInv PROVE ThreadInv'
    <3>1. Present' = {}
      BY <1>0, <1>2, <2>1, <2>4 DEF Present, InFlight, ThreadInv, ChatInv
    <3>2. OfOne(messages', target', current') /\ Follows(messages')
      BY <2>1 DEF OfOne, Follows
    <3> QED
      BY <2>1, <2>2, <3>1, <3>2 DEF ThreadInv, OfOne, Follows
  <2> QED
    BY <2>3, <2>4
<1> QED
  BY <1>1, <1>2

\* An opened conversation is the one that is shown, unless it comes too late.
LEMMA OpenedKeeps ==
    ASSUME ChatInv, NEW o \in opening, Opened(o)
    PROVE  ChatInv' /\ (~late' /\ (~late => ThreadInv) => ThreadInv')
<1>1. /\ opening' = opening \ {o} /\ late' = (late \/ o.left)
      /\ UNCHANGED <<address, synced, loaded, current, streaming, again, turn, target, server, moves, left>>
      /\ (messages' = History(o.id) /\ UNCHANGED error) \/ (error' = "open" /\ UNCHANGED messages)
  BY DEF Opened
<1>2. Thread(History(o.id), target, o.id)
  BY HistoryIs
<1>3. messages' \in Seq([turn : Turn, role : {"user", "assistant"}])
  BY <1>1, <1>2 DEF Thread, Messages, ChatInv, ChatTypeOK
<1>4. ChatInv'
  BY <1>1, <1>3 DEF ChatInv, ChatTypeOK, server
<1>5. ASSUME ~late', ~late => ThreadInv PROVE ThreadInv'
  <2>1. ThreadInv /\ ~o.left
    BY <1>1, <1>5
  <2>2. o.id = current /\ streaming = None /\ Present = {}
    BY <2>1 DEF ThreadInv
  <2>3. Present' = {}
    BY <1>1, <2>2 DEF Present, InFlight
  <2>4. CASE UNCHANGED messages
    BY <1>1, <2>1, <2>2, <2>3, <2>4, Undisturbed
  <2>5. CASE messages' = History(o.id)
    <3>1. OfOne(messages, target, current)' /\ Follows(messages)'
      BY <1>1, <1>2, <2>2, <2>5 DEF Thread, OfOne, Follows
    <3> QED
      BY <1>1, <2>1, <2>2, <2>3, <3>1 DEF ThreadInv
  <2> QED
    BY <1>1, <2>4, <2>5
<1> QED
  BY <1>4, <1>5

\* The turn goes a step; the others stay.
LEMMA TurnStep ==
    ASSUME ChatInv, NEW t \in Turn, NEW step \in TurnPC, TurnGoes(t, step)
    PROVE  turn' \in [Turn -> TurnPC] /\ turn'[t] = step /\ \A u \in Turn : u # t => turn'[u] = turn[u]
  BY DEF TurnGoes, ChatInv, ChatTypeOK

\* A question ends the thread, and the turn is the only one that is present.
LEMMA AskKeeps ==
    ASSUME ChatInv, NEW t \in Turn, Ask(t)
    PROVE  ChatInv' /\ (~late /\ ThreadInv => ThreadInv')
<1> DEFINE q == Message(t, "user")
<1>1. /\ left' = left \cup InFlight /\ opening' = {Overtaken(o) : o \in opening}
      /\ error' = None /\ again' = t /\ messages' = Append(messages, q) /\ streaming' = {}
      /\ target' = [target EXCEPT ![t] = current]
      /\ TurnGoes(t, IF current = None THEN "create" ELSE "send")
      /\ UNCHANGED <<address, synced, loaded, current, server, late>>
      /\ turn[t] = "idle"
  BY DEF Ask
<1>2. turn' \in [Turn -> TurnPC] /\ turn'[t] = (IF current = None THEN "create" ELSE "send")
      /\ \A u \in Turn : u # t => turn'[u] = turn[u]
  BY <1>1, TurnStep, Zenon DEF TurnPC
<1>3. target' \in [Turn -> Conversation \cup {None}] /\ target'[t] = current
      /\ \A u \in Turn : u # t => target'[u] = target[u]
  BY <1>1 DEF ChatInv, ChatTypeOK
<1>4. \A o \in opening' : o \in [id : Conversation, left : BOOLEAN] /\ o.left
  BY <1>1, LeftBehind DEF ChatInv, ChatTypeOK
<1>5. q \in Messages /\ q.turn = t /\ q.role = "user"
  BY DEF Message, Messages
<1> HIDE DEF q
<1>6. /\ messages \in Seq(Messages) /\ messages' \in Seq(Messages) /\ messages' # <<>>
      /\ Len(messages') = Len(messages) + 1 /\ Len(messages) \in Nat
      /\ \A i \in 1 .. Len(messages) : messages'[i] = messages[i] /\ messages[i] \in Messages
      /\ messages'[Len(messages')] = q
  BY <1>1, <1>5, OneMore, OnThread
<1>7. ChatInv'
  BY <1>1, <1>2, <1>3, <1>4, <1>6 DEF ChatInv, ChatTypeOK, server, Messages, InFlight
<1>8. ASSUME ThreadInv PROVE ThreadInv'
  <2>1. \A i \in 1 .. Len(messages') : i \in 1 .. Len(messages) \/ i = Len(messages')
    BY <1>6
  <2>2. OfOne(messages', target', current')
    <3>1. ASSUME NEW i \in 1 .. Len(messages') PROVE target'[messages'[i].turn] \in {current', None}
      <4>1. CASE i \in 1 .. Len(messages)
        <5>1. messages'[i] = messages[i] /\ messages[i].turn \in Turn /\ target[messages[i].turn] \in {current, None}
          BY <1>6, <1>8, <4>1, OnThread DEF ThreadInv, OfOne
        <5> QED
          BY <1>1, <1>3, <5>1
      <4>2. CASE i = Len(messages')
        BY <1>1, <1>3, <1>5, <1>6, <4>2
      <4> QED
        BY <2>1, <4>1, <4>2
    <3> QED
      BY <3>1 DEF OfOne
  <2>3. Follows(messages')
    <3>1. ASSUME NEW i \in 1 .. Len(messages'), messages'[i].role = "assistant"
          PROVE  i > 1 /\ messages'[i - 1] = Message(messages'[i].turn, "user")
      <4>1. i \in 1 .. Len(messages)
        BY <1>5, <1>6, <2>1, <3>1
      <4>2. i > 1 /\ messages[i - 1] = Message(messages[i].turn, "user") /\ i - 1 \in 1 .. Len(messages)
        BY <1>6, <1>8, <3>1, <4>1 DEF ThreadInv, Follows
      <4> QED
        BY <1>6, <4>1, <4>2
    <3> QED
      BY <3>1 DEF Follows
  <2>4. Present' \subseteq {t}
    BY <1>1, <1>2 DEF Present, InFlight
  <2> QED
    BY <1>1, <1>3, <1>4, <1>6, <2>2, <2>3, <2>4 DEF ThreadInv, q
<1> QED
  BY <1>7, <1>8

\* The first question makes the conversation: no other message belonged to any.
LEMMA CreatedKeeps ==
    ASSUME ChatInv, NEW t \in Turn, Created(t)
    PROVE  ChatInv' /\ (~late' /\ (~late => ThreadInv) => ThreadInv')
<1>1. /\ turn[t] = "create" /\ target' = [target EXCEPT ![t] = t] /\ current' = t /\ loaded' = t /\ address' = t
      /\ TurnGoes(t, "send") /\ late' = (late \/ t \in left)
      /\ UNCHANGED <<synced, messages, streaming, error, again, opening, server, moves, left>>
  BY DEF Created, Late
<1>2. turn' \in [Turn -> TurnPC] /\ turn'[t] = "send" /\ \A u \in Turn : u # t => turn'[u] = turn[u]
  BY <1>1, TurnStep DEF TurnPC
<1>3. target' \in [Turn -> Conversation \cup {None}] /\ target'[t] = t
      /\ \A u \in Turn : u # t => target'[u] = target[u]
  BY <1>1 DEF ChatInv, ChatTypeOK, Conversation
<1>4. ChatInv'
  BY <1>1, <1>2, <1>3 DEF ChatInv, ChatTypeOK, server, Conversation
<1>5. ASSUME ThreadInv, t \notin left PROVE ThreadInv'
  <2>1. t \in Present /\ target[t] = None
    BY <1>1, <1>5 DEF ChatInv, Present, InFlight
  <2>2. current = None /\ \A u \in Present : u = t
    BY <1>5, <2>1 DEF ThreadInv
  <2>3. Present' = {t}
    BY <1>1, <1>2, <2>1, <2>2 DEF Present, InFlight
  <2>4. \A i \in 1 .. Len(messages) : messages[i].turn \in Turn
    BY OnThread
  <2>5. OfOne(messages', target', current')
    BY <1>1, <1>3, <1>5, <2>2, <2>4 DEF ThreadInv, OfOne
  <2> QED
    BY <1>1, <1>3, <1>5, <2>1, <2>3, <2>5 DEF ThreadInv
<1> QED
  BY <1>1, <1>4, <1>5

\* The server's steps do not reach the thread.
LEMMA StoredKeeps ==
    ASSUME ChatInv, NEW t \in Turn, StreamOpens(t) \/ AnswerStored(t)
    PROVE  ChatInv' /\ (~late /\ ThreadInv => ThreadInv') /\ late' = late
<1>1. \E step \in {"stream", "answered"}, s \in {"question", "both"} :
        TurnGoes(t, step) /\ saved' = [saved EXCEPT ![t] = s]
  BY DEF StreamOpens, AnswerStored
<1>2. /\ turn[t] \in {"send", "stream"}
      /\ UNCHANGED <<address, synced, loaded, thread, target, opening, erasing, erased, moves, left, late>>
  BY DEF StreamOpens, AnswerStored
<1>3. turn' \in [Turn -> TurnPC] /\ turn'[t] \in {"stream", "answered"} /\ \A u \in Turn : u # t => turn'[u] = turn[u]
  BY <1>1, TurnStep DEF TurnPC
<1>4. saved' \in [Turn -> {"none", "question", "both"}]
  BY <1>1 DEF ChatInv, ChatTypeOK
<1>5. ChatInv'
  BY <1>2, <1>3, <1>4 DEF ChatInv, ChatTypeOK, thread
<1>6. Present' = Present
  BY <1>2, <1>3 DEF Present, InFlight
<1> QED
  BY <1>2, <1>5, <1>6, Undisturbed DEF thread

\* A token is written under a question that is on the thread.
LEMMA TokenKeeps ==
    ASSUME ChatInv, NEW t \in Turn, Token(t)
    PROVE  ChatInv' /\ (~late' /\ (~late => ThreadInv) => ThreadInv')
<1>1. /\ turn[t] = "stream" /\ streaming' = (IF streaming = None THEN {} ELSE streaming) \cup {t}
      /\ late' = (late \/ t \in left)
      /\ UNCHANGED <<address, synced, loaded, current, messages, error, again, turn, target, opening, server, moves, left>>
  BY DEF Token, Late
<1>2. ChatInv'
  <2>1. streaming' \in SUBSET Turn
    BY <1>1 DEF ChatInv, ChatTypeOK
  <2> QED
    BY <1>1, <2>1 DEF ChatInv, ChatTypeOK, server
<1>3. ASSUME ThreadInv, t \notin left PROVE ThreadInv'
  <2>1. t \in Present /\ Present' = Present
    BY <1>1, <1>3 DEF Present, InFlight
  <2>2. Len(messages) \in DOMAIN messages /\ messages[Len(messages)] = Message(t, "user")
    BY <1>3, <2>1, OnThread DEF ThreadInv
  <2>3. \A u \in streaming' : \E i \in DOMAIN messages' : messages'[i] = Message(u, "user")
    BY <1>1, <1>3, <2>2 DEF ThreadInv
  <2> QED
    BY <1>1, <1>3, <2>1, <2>3 DEF ThreadInv
<1> QED
  BY <1>1, <1>2, <1>3

\* The answer follows its question, which is the last on the thread.
LEMMA DoneKeeps ==
    ASSUME ChatInv, NEW t \in Turn, Done(t)
    PROVE  ChatInv' /\ (~late' /\ (~late => ThreadInv) => ThreadInv')
<1> DEFINE a == Message(t, "assistant")
<1>1. /\ turn[t] = "answered" /\ messages' = Append(messages, a) /\ streaming' = None
      /\ TurnGoes(t, "ended") /\ late' = (late \/ t \in left)
      /\ UNCHANGED <<address, synced, loaded, current, error, again, target, opening, server, moves, left>>
  BY DEF Done, Late
<1>2. turn' \in [Turn -> TurnPC] /\ turn'[t] = "ended" /\ \A u \in Turn : u # t => turn'[u] = turn[u]
  BY <1>1, TurnStep DEF TurnPC
<1>3. a \in Messages /\ a.turn = t
  BY DEF Message, Messages
<1> HIDE DEF a
<1>4. /\ messages' \in Seq(Messages) /\ messages' # <<>> /\ Len(messages') = Len(messages) + 1 /\ Len(messages) \in Nat
      /\ messages'[Len(messages')] = a
      /\ \A i \in 1 .. Len(messages) : messages'[i] = messages[i] /\ messages[i].turn \in Turn
      /\ \A i \in 1 .. Len(messages') : i \in 1 .. Len(messages) \/ i = Len(messages')
  BY <1>1, <1>3, OneMore, OnThread
<1>5. ChatInv'
  BY <1>1, <1>2, <1>4 DEF ChatInv, ChatTypeOK, server, Messages
<1>6. ASSUME ThreadInv, t \notin left PROVE ThreadInv'
  <2>1. t \in Present
    BY <1>1, <1>6 DEF Present, InFlight
  <2>2. target[t] = current /\ messages # <<>> /\ messages[Len(messages)] = Message(t, "user") /\ \A u \in Present : u = t
    BY <1>6, <2>1 DEF ThreadInv
  <2>3. Len(messages) \in 1 .. Len(messages)
    BY <2>2, OnThread
  <2>4. Present' = {}
    BY <1>1, <1>2, <2>2 DEF Present, InFlight
  <2>5. OfOne(messages', target', current')
    <3>1. ASSUME NEW i \in 1 .. Len(messages') PROVE target'[messages'[i].turn] \in {current', None}
      <4>1. CASE i \in 1 .. Len(messages)
        BY <1>1, <1>4, <1>6, <4>1 DEF ThreadInv, OfOne
      <4>2. CASE i = Len(messages')
        BY <1>1, <1>3, <1>4, <2>2, <4>2
      <4> QED
        BY <1>4, <4>1, <4>2
    <3> QED
      BY <3>1 DEF OfOne
  <2>6. Follows(messages')
    <3>1. ASSUME NEW i \in 1 .. Len(messages'), messages'[i].role = "assistant"
          PROVE  i > 1 /\ messages'[i - 1] = Message(messages'[i].turn, "user")
      <4>1. CASE i \in 1 .. Len(messages)
        <5>1. i > 1 /\ messages[i - 1] = Message(messages[i].turn, "user") /\ i - 1 \in 1 .. Len(messages)
          BY <1>4, <1>6, <3>1, <4>1 DEF ThreadInv, Follows
        <5> QED
          BY <1>4, <4>1, <5>1
      <4>2. CASE i = Len(messages')
        <5>1. i - 1 = Len(messages) /\ i > 1
          BY <1>4, <2>3, <4>2
        <5> QED
          BY <1>3, <1>4, <2>2, <2>3, <4>2, <5>1
      <4> QED
        BY <1>4, <4>1, <4>2
    <3> QED
      BY <3>1 DEF Follows
  <2> QED
    BY <1>1, <1>6, <2>4, <2>5, <2>6 DEF ThreadInv
<1> QED
  BY <1>1, <1>5, <1>6

\* A failure leaves the thread as it is.
LEMMA FailedKeeps ==
    ASSUME ChatInv, NEW t \in Turn, Failed(t)
    PROVE  ChatInv' /\ (~late' /\ (~late => ThreadInv) => ThreadInv')
<1>1. /\ TurnGoes(t, "ended") /\ late' = (late \/ t \in left) /\ streaming' = None /\ error' \in {"turn", "futile"}
      /\ UNCHANGED <<address, synced, loaded, current, messages, again, target, opening, erasing, erased, moves, left>>
      /\ saved' = saved \/ saved' = [saved EXCEPT ![t] = "none"]
  BY DEF Failed, Late
<1>2. turn' \in [Turn -> TurnPC] /\ turn'[t] = "ended" /\ \A u \in Turn : u # t => turn'[u] = turn[u]
  BY <1>1, TurnStep DEF TurnPC
<1>3. saved' \in [Turn -> {"none", "question", "both"}]
  BY <1>1 DEF ChatInv, ChatTypeOK
<1>4. ChatInv'
  BY <1>1, <1>2, <1>3 DEF ChatInv, ChatTypeOK
<1>5. Present' \subseteq Present
  BY <1>1, <1>2 DEF Present, InFlight
<1> QED
  BY <1>1, <1>4, <1>5 DEF ThreadInv, OfOne, Follows

\* Deleting changes the address at most, which the thread follows later.
LEMMA EraseKeeps ==
    ASSUME ChatInv, (\E c \in Conversation : Erase(c)) \/ Erased
    PROVE  ChatInv' /\ (~late /\ ThreadInv => ThreadInv') /\ late' = late
<1>1. UNCHANGED <<synced, loaded, thread, turn, target, opening, saved, left, late>>
  BY DEF Erase, Erased
<1>2. address' \in {address, None}
  BY DEF Erase, Erased
<1>3. erased' \subseteq Conversation
  <2>1. CASE \E c \in Conversation : Erase(c)
    BY <2>1 DEF Erase, ChatInv, ChatTypeOK
  <2>2. CASE Erased
    BY <2>2 DEF Erased, ChatInv, ChatTypeOK
  <2> QED
    BY <2>1, <2>2
<1>4. ChatInv'
  <2>1. erasing' # None => erasing'.id \in Conversation
    BY DEF Erase, Erased
  <2> QED
    BY <1>1, <1>2, <1>3, <2>1 DEF ChatInv, ChatTypeOK, thread, Conversation
<1>5. Present' = Present
  BY <1>1 DEF Present, InFlight
<1> QED
  BY <1>1, <1>4, <1>5, Undisturbed DEF thread

\* Every step of the page keeps it.
LEMMA ChatKeeps ==
    ASSUME ChatInv, ~late => ThreadInv, [ChatNext]_chat
    PROVE  ChatInv' /\ (~late' => ThreadInv')
<1>1. CASE UNCHANGED chat
  <2>1. UNCHANGED <<address, synced, loaded, current, messages, streaming, error, again, turn, target, opening,
                    saved, erasing, erased, moves, left, late>>
    BY <1>1 DEF chat, thread, server
  <2>2. ChatInv' /\ Present' = Present
    BY <2>1 DEF ChatInv, ChatTypeOK, Present, InFlight
  <2> QED
    BY <2>1, <2>2, Undisturbed
<1>2. ASSUME NEW c \in Stored \cup {None}, Navigate(c) PROVE ChatInv' /\ (~late' => ThreadInv')
  <2>1. late' = late
    BY <1>2 DEF Navigate
  <2> QED
    BY <1>2, <2>1, NavigateKeeps
<1>3. CASE SyncAddress
  <2>1. late' = late
    BY <1>3 DEF SyncAddress
  <2> QED
    BY <1>3, <2>1, SyncKeeps
<1>4. ASSUME NEW t \in Turn, Ask(t) PROVE ChatInv' /\ (~late' => ThreadInv')
  <2>1. late' = late
    BY <1>4 DEF Ask
  <2> QED
    BY <1>4, <2>1, AskKeeps
<1>5. ASSUME NEW t \in Turn, Token(t) \/ Streams(t) PROVE ChatInv' /\ (~late' => ThreadInv')
  <2>1. CASE StreamOpens(t) \/ AnswerStored(t)
    BY <2>1, StoredKeeps
  <2> QED
    BY <1>5, <2>1, TokenKeeps, CreatedKeeps, DoneKeeps, FailedKeeps DEF Streams
<1> QED
  BY <1>1, <1>2, <1>3, <1>4, <1>5, EraseKeeps, OpenedKeeps DEF ChatNext

\* Until something arrives after the user, or the page itself, has moved on, the
\* thread on the screen is that of one conversation, each answer right after its
\* question (ThreadIsOne), however many turns and requests are under way and
\* whatever is deleted meanwhile.
THEOREM ThreadStaysOne == Spec => []ThreadIsOne
<1>1. Init => ChatInv /\ (~late => ThreadInv)
  BY ChatStarts DEF Init
<1>2. ChatInv /\ (~late => ThreadInv) /\ [Next]_client => (ChatInv /\ (~late => ThreadInv))'
  <2>1. [Next]_client => [ChatNext]_chat
    BY DEF Next, client
  <2> QED
    BY <2>1, ChatKeeps
<1> QED
  BY <1>1, <1>2, ThreadIs, PTL DEF Spec

-----------------------------------------------------------------------------
\* The lists
\* What a row on the screen can say.
Statuses == Busy \cup {"ready", "failed"}

\* The rows of a list.
ListRows == [id : Item, status : Statuses]

\* The delete dialog.
Dialogs == [id : Item \cup {NoItem}, state : {"closed", "open", "deleting", "deleted"}]

\* A list with what is at the server, without what was confirmed to be deleted.
Added == {d \in Item : adding[d] = "shown" /\ held[d] \notin Absent}

\* It shows what was added, and not what is gone.
Knows(s, added, gone) ==
    /\ \A d \in added : \E i \in DOMAIN s : s[i].id = d
    /\ \A d \in gone : \A i \in DOMAIN s : s[i].id # d

\* Of two rows of one document one is an upload that was just answered.
Mended(s, kind) == kind = "documents" =>
    \A i, j \in DOMAIN s : s[i].id = s[j].id /\ i # j => s[i].status \in Busy \/ s[j].status \in Busy

\* The invariant: the list on the screen and those that have been read and not
\* been overtaken know the same, and what was confirmed to be deleted is gone.
ListInv ==
    /\ listKind \in {"documents", "conversations"}
    /\ held \in [Item -> Statuses \cup Absent]
    /\ adding \in [Item -> {"idle", "sent", "shown", "failed"}]
    /\ \A d \in Item : adding[d] = "shown" => held[d] # "none"
    /\ dropped \subseteq Item /\ \A d \in dropped : held[d] = "gone"
    /\ dialog \in Dialogs /\ (dialog.state # "closed" => dialog.id \in Item)
    /\ dialog.state = "deleted" => held[dialog.id] = "gone"
    /\ shown \in Seq(ListRows) /\ Mended(shown, listKind) /\ (~overtaken => Knows(shown, Added, dropped))
    /\ fetches \in [Fetch -> [state : {"idle", "asked", "read"}, rows : Seq(ListRows), overtaken : BOOLEAN]]
    /\ \A f \in Fetch : fetches[f].state = "read" =>
          Mended(fetches[f].rows, listKind) /\ (~fetches[f].overtaken => Knows(fetches[f].rows, Added, dropped))

\* It is what the property asks.
LEMMA ListIs == ListInv => ListTrue
<1> SUFFICES ASSUME ListInv, ~overtaken PROVE ListTrue
  BY DEF ListTrue
<1>1. Knows(shown, Added, dropped) /\ Mended(shown, listKind)
  BY DEF ListInv
<1>2. \A d : ById(d) = {i \in DOMAIN shown : shown[i].id = d}
  BY DEF ById
<1>3. \A d \in Item : adding[d] = "shown" /\ held[d] \notin Absent => ById(d) # {}
  BY <1>1, <1>2 DEF Knows, Added
<1>4. \A d \in Item : d \in dropped => ById(d) = {}
  BY <1>1, <1>2 DEF Knows
<1>5. listKind = "documents" => \A i, j \in DOMAIN shown : shown[i].id = shown[j].id /\ i # j => busy
  BY <1>1 DEF Mended, busy
<1> QED
  BY <1>3, <1>4, <1>5 DEF ListTrue

\* What the server lists: every document it has, once.
LEMMA RowsAre ==
    ASSUME ListInv
    PROVE  Rows \in Seq(ListRows) /\ Mended(Rows, listKind) /\ Knows(Rows, Added, dropped)
<1> DEFINE There == {e \in Item : held[e] \notin Absent}
<1> DEFINE S == {Row(d, held[d]) : d \in There}
<1>1. Rows = SetToSeq(S)
  BY DEF Rows
<1>2. IsFiniteSet(S)
  <2>1. IsFiniteSet(There)
    BY ItemsCounted, FS_Subset
  <2> DEFINE f == [d \in There |-> Row(d, held[d])]
  <2>2. S = {f[d] : d \in There}
    <3>1. \A d \in There : f[d] = Row(d, held[d])
      OBVIOUS
    <3> HIDE DEF f, There
    <3> QED
      BY <3>1
  <2> HIDE DEF There, S, f
  <2> QED
    BY <2>1, <2>2, ImageFinite
<1>3. \A r \in S : r \in ListRows /\ held[r.id] \notin Absent /\ r = Row(r.id, held[r.id])
  <2>1. ASSUME NEW d \in There PROVE /\ Row(d, held[d]) \in ListRows /\ Row(d, held[d]).id = d
    BY DEF ListInv, ListRows, Row
  <2> QED
    BY <2>1
<1>4. \A d \in There : \E r \in S : r.id = d
  <2>1. \A d \in There : Row(d, held[d]) \in S
    OBVIOUS
  <2>2. \A d \in There : Row(d, held[d]).id = d
    BY DEF Row
  <2> HIDE DEF S, There
  <2> QED
    BY <2>1, <2>2
<1> DEFINE s == SetToSeq(S)
<1>5. /\ s \in Seq(S) /\ \A i, j \in DOMAIN s : s[i] = s[j] => i = j
      /\ \A x \in S : \E i \in DOMAIN s : s[i] = x
  <2> HIDE DEF S
  <2> QED
    BY <1>2, ListsEach
<1> HIDE DEF S, s
<1>6. DOMAIN s = 1 .. Len(s) /\ \A i \in DOMAIN s : s[i] \in S
  BY <1>5
<1>7. s \in Seq(ListRows)
  BY <1>3, <1>5
<1>8. Mended(s, listKind)
  BY <1>3, <1>5, <1>6 DEF Mended
<1>9. Knows(s, Added, dropped)
  <2>1. \A d \in Item : held[d] \notin Absent => \E i \in DOMAIN s : s[i].id = d
    BY <1>4, <1>5
  <2>2. \A d \in dropped : \A i \in DOMAIN s : s[i].id # d
    BY <1>3, <1>6 DEF ListInv, Absent
  <2> QED
    BY <2>1, <2>2 DEF Knows, Added
<1> QED
  BY <1>1, <1>7, <1>8, <1>9 DEF s

\* What Filtered leaves.
Others(d) == FlattenSeq([i \in DOMAIN shown |-> IF shown[i].id # d THEN <<shown[i]>> ELSE <<>>])

\* A list of the rows of the others, as they were.
Without(s, d) ==
    /\ s \in Seq(ListRows) /\ Mended(s, listKind)
    /\ \A i \in DOMAIN s : s[i].id # d /\ \E j \in DOMAIN shown : s[i] = shown[j]
    /\ \A j \in DOMAIN shown : shown[j].id # d => \E i \in DOMAIN s : s[i] = shown[j]

\* That is what it leaves.
LEMMA FilteredIs ==
    ASSUME ListInv, NEW d
    PROVE  Without(Others(d), d)
<1> DEFINE s == Others(d)
<1> DEFINE K == {i \in DOMAIN shown : shown[i].id # d}
<1>1. shown \in Seq(ListRows) /\ DOMAIN shown = 1 .. Len(shown) /\ Range(shown) \subseteq ListRows
  BY DEF ListInv, Range
<1>2. s = FlattenSeq([i \in DOMAIN shown |-> IF i \in K THEN <<shown[i]>> ELSE <<>>])
  <2>1. [i \in DOMAIN shown |-> IF shown[i].id # d THEN <<shown[i]>> ELSE <<>>]
          = [i \in DOMAIN shown |-> IF i \in K THEN <<shown[i]>> ELSE <<>>]
    OBVIOUS
  <2> QED
    BY <2>1 DEF Others
<1> HIDE DEF s
<1>3. PICK at : Leaves(shown, K, Len(shown), s, at)
  <2>1. K \in SUBSET (DOMAIN shown)
    OBVIOUS
  <2> HIDE DEF K
  <2> QED
    BY <1>1, <1>2, <2>1, LeavesOthers
<1>4. K \cap (1 .. Len(shown)) = K /\ DOMAIN s = 1 .. Len(s)
  BY <1>1, <1>3 DEF Leaves
<1>5. /\ s \in Seq(Range(shown)) /\ \A i \in DOMAIN s : at[i] \in K /\ s[i] = shown[at[i]]
      /\ \A i, j \in DOMAIN s : at[i] = at[j] => i = j
      /\ \A j \in K : \E i \in DOMAIN s : at[i] = j
  <2> HIDE DEF K
  <2> QED
    BY <1>3, <1>4 DEF Leaves
<1>6. Mended(s, listKind)
  BY <1>5 DEF ListInv, Mended
<1>7. s \in Seq(ListRows)
  BY <1>1, <1>5
<1>9. \A i \in DOMAIN s : at[i] \in DOMAIN shown /\ shown[at[i]].id # d /\ s[i] = shown[at[i]]
  BY <1>5
<1>8. \A j \in DOMAIN shown : shown[j].id # d => \E i \in DOMAIN s : s[i] = shown[j]
  <2>1. ASSUME NEW j \in DOMAIN shown, shown[j].id # d PROVE \E i \in DOMAIN s : s[i] = shown[j]
    <3>1. j \in K
      BY <2>1
    <3>2. PICK i \in DOMAIN s : at[i] = j
      BY <1>5, <3>1
    <3> QED
      BY <1>9, <3>2
  <2> QED
    BY <2>1
<1> QED
  BY <1>6, <1>7, <1>8, <1>9 DEF s, Without

\* The lists that were read before this change are marked, and keep their rows.
LEMMA ListsOvertaken ==
    ASSUME ListInv, OvertakeLists
    PROVE  /\ fetches' \in [Fetch -> [state : {"idle", "asked", "read"}, rows : Seq(ListRows), overtaken : BOOLEAN]]
           /\ \A f \in Fetch : /\ fetches'[f].state = fetches[f].state /\ fetches'[f].rows = fetches[f].rows
                               /\ fetches[f].state = "read" => fetches'[f].overtaken
<1> DEFINE T == [state : {"idle", "asked", "read"}, rows : Seq(ListRows), overtaken : BOOLEAN]
<1>1. fetches \in [Fetch -> T]
  BY DEF ListInv
<1>2. \A r \in T, b \in BOOLEAN : [r EXCEPT !.overtaken = b] \in T /\ [r EXCEPT !.overtaken = b].state = r.state
                                  /\ [r EXCEPT !.overtaken = b].rows = r.rows /\ [r EXCEPT !.overtaken = b].overtaken = b
  OBVIOUS
<1> HIDE DEF T
<1>3. \A f \in Fetch : fetches'[f] = [fetches[f] EXCEPT !.overtaken = (fetches[f].state = "read")]
  BY DEF OvertakeLists
<1>4. fetches' = [f \in Fetch |-> fetches'[f]]
  BY DEF OvertakeLists
<1>5. \A f \in Fetch : fetches'[f] \in T /\ fetches'[f].state = fetches[f].state /\ fetches'[f].rows = fetches[f].rows
                       /\ fetches'[f].overtaken = (fetches[f].state = "read")
  <2>1. ASSUME NEW f \in Fetch
        PROVE  /\ fetches'[f] \in T /\ fetches'[f].state = fetches[f].state /\ fetches'[f].rows = fetches[f].rows
               /\ fetches'[f].overtaken = (fetches[f].state = "read")
    <3> DEFINE b == fetches[f].state = "read"
    <3>1. fetches[f] \in T /\ b \in BOOLEAN /\ fetches'[f] = [fetches[f] EXCEPT !.overtaken = b]
      BY <1>1, <1>3
    <3> HIDE DEF b
    <3>2. /\ fetches'[f] \in T /\ fetches'[f].state = fetches[f].state /\ fetches'[f].rows = fetches[f].rows
          /\ fetches'[f].overtaken = b
      BY <1>2, <3>1
    <3> QED
      BY <3>2 DEF b
  <2> QED
    BY <2>1
<1> QED
  BY <1>4, <1>5 DEF T


\* A list says the same as long as what it is about does: what is shown as added
\* and is there, and what was confirmed to be deleted.
LEMMA StillKnows ==
    ASSUME NEW s, NEW gone, NEW b, NEW c, Knows(s, b, gone), c \subseteq b
    PROVE  Knows(s, c, gone)
  BY DEF Knows

\* Steps that leave the lists alone.
LEMMA ListsStay ==
    ASSUME ListInv, UNCHANGED <<listKind, shown, fetches, overtaken, dropped>>,
           held' \in [Item -> Statuses \cup Absent],
           adding' \in [Item -> {"idle", "sent", "shown", "failed"}],
           \A d \in Item : adding'[d] = "shown" => held'[d] # "none",
           \A d \in Item : held[d] = "gone" => held'[d] = "gone",
           dialog' \in Dialogs, dialog'.state # "closed" => dialog'.id \in Item,
           dialog'.state = "deleted" => held'[dialog'.id] = "gone",
           Added' \subseteq Added
    PROVE  ListInv'
<1>1. \A s : Knows(s, Added, dropped) => Knows(s, Added', dropped)
  BY StillKnows
<1> QED
  BY <1>1 DEF ListInv

\* One list request changes; the others stay.
LEMMA OneList ==
    ASSUME ListInv, NEW f \in Fetch, NEW r \in [state : {"idle", "asked", "read"}, rows : Seq(ListRows), overtaken : BOOLEAN],
           fetches' = [fetches EXCEPT ![f] = r],
           r.state = "read" => Mended(r.rows, listKind) /\ (~r.overtaken => Knows(r.rows, Added, dropped)),
           UNCHANGED <<listKind, held, adding, dialog, dropped>>,
           shown' \in Seq(ListRows), Mended(shown', listKind), ~overtaken' => Knows(shown', Added, dropped)
    PROVE  ListInv'
<1> DEFINE T == [state : {"idle", "asked", "read"}, rows : Seq(ListRows), overtaken : BOOLEAN]
<1>1. fetches' \in [Fetch -> T] /\ fetches'[f] = r /\ \A g \in Fetch : g # f => fetches'[g] = fetches[g]
  <2>1. fetches \in [Fetch -> T] /\ r \in T
    BY DEF ListInv
  <2> HIDE DEF T
  <2> QED
    BY <2>1
<1>2. Added' = Added
  BY DEF Added
<1>3. \A g \in Fetch : fetches'[g].state = "read" =>
         Mended(fetches'[g].rows, listKind) /\ (~fetches'[g].overtaken => Knows(fetches'[g].rows, Added, dropped))
  BY <1>1 DEF ListInv
<1> QED
  BY <1>1, <1>2, <1>3 DEF ListInv

\* Every step of a list request keeps the invariant.
LEMMA RequestsKeep ==
    ASSUME ListInv, NEW f \in Fetch, Mount(f) \/ Poll(f) \/ TurnEnds(f) \/ ListRead(f) \/ ListArrives(f) \/ ListFails(f)
    PROVE  ListInv'
<1> DEFINE T == [state : {"idle", "asked", "read"}, rows : Seq(ListRows), overtaken : BOOLEAN]
<1>1. shown \in Seq(ListRows) /\ Mended(shown, listKind) /\ (~overtaken => Knows(shown, Added, dropped))
  BY DEF ListInv
<1>2. fetches[f] \in T /\ NoFetch \in T /\ NoFetch.state = "idle"
  BY DEF ListInv, NoFetch
<1>3. CASE Refresh(f)
  <2> DEFINE r == [fetches[f] EXCEPT !.state = "asked"]
  <2>1. UNCHANGED <<listKind, held, shown, adding, dialog, dropped, overtaken>> /\ fetches' = [fetches EXCEPT ![f] = r]
    BY <1>3 DEF Refresh
  <2>2. r \in T /\ r.state = "asked"
    BY <1>2
  <2> HIDE DEF r
  <2> QED
    BY <1>1, <2>1, <2>2, OneList
<1>4. CASE ListRead(f)
  <2> DEFINE r == [state |-> "read", rows |-> Rows, overtaken |-> FALSE]
  <2>1. UNCHANGED <<listKind, held, shown, adding, dialog, dropped, overtaken>> /\ fetches' = [fetches EXCEPT ![f] = r]
    BY <1>4 DEF ListRead
  <2>2. r \in T /\ r.rows = Rows
    BY RowsAre
  <2> HIDE DEF r
  <2> QED
    BY <1>1, <2>1, <2>2, OneList, RowsAre
<1>5. CASE ListArrives(f)
  <2>1. /\ UNCHANGED <<listKind, held, adding, dialog, dropped>> /\ fetches' = [fetches EXCEPT ![f] = NoFetch]
        /\ fetches[f].state = "read" /\ shown' = fetches[f].rows /\ overtaken' = (overtaken \/ fetches[f].overtaken)
    BY <1>5 DEF ListArrives
  <2>2. shown' \in Seq(ListRows) /\ Mended(shown', listKind) /\ (~overtaken' => Knows(shown', Added, dropped))
    BY <1>2, <2>1 DEF ListInv
  <2> QED
    BY <1>2, <2>1, <2>2, OneList
<1>6. CASE ListFails(f)
  <2>1. UNCHANGED <<listKind, held, shown, adding, dialog, dropped, overtaken>> /\ fetches' = [fetches EXCEPT ![f] = NoFetch]
    BY <1>6 DEF ListFails
  <2> QED
    BY <1>1, <1>2, <2>1, OneList
<1> QED
  BY <1>3, <1>4, <1>5, <1>6 DEF Mount, Poll, TurnEnds

\* The server's steps, the buttons and the composer do not reach the lists.
LEMMA QuietKeep ==
    ASSUME ListInv,
           \/ \E d \in Item : Add(d) \/ Accepted(d) \/ AddFails(d) \/ Read(d) \/ AskDelete(d)
           \/ Cancel \/ Confirm \/ DeletedThere \/ DeleteFails \/ DropScope
           \/ \E d \in Item \cup {NoItem} : Choose(d)
    PROVE  ListInv'
<1>1. /\ held \in [Item -> Statuses \cup Absent] /\ adding \in [Item -> {"idle", "sent", "shown", "failed"}]
      /\ \A d \in Item : adding[d] = "shown" => held[d] # "none"
      /\ dialog \in Dialogs /\ (dialog.state # "closed" => dialog.id \in Item)
      /\ dialog.state = "deleted" => held[dialog.id] = "gone"
  BY DEF ListInv
<1>2. ASSUME NEW d \in Item, Add(d) \/ AddFails(d) PROVE ListInv'
  <2>1. \E a \in {"sent", "failed"} : adding' = [adding EXCEPT ![d] = a]
    BY <1>2 DEF Add, AddFails
  <2>2. UNCHANGED <<listKind, held, shown, fetches, dialog, dropped, overtaken>>
    BY <1>2 DEF Add, AddFails
  <2>3. /\ adding' \in [Item -> {"idle", "sent", "shown", "failed"}]
        /\ \A e \in Item : adding'[e] = "shown" => adding[e] = "shown"
    BY <1>1, <2>1
  <2> QED
    BY <1>1, <2>2, <2>3, ListsStay DEF Added
<1>3. ASSUME NEW d \in Item, Accepted(d) \/ Read(d) PROVE ListInv'
  <2>1. \E s \in Statuses : held' = [held EXCEPT ![d] = s]
    BY <1>3 DEF Accepted, Read, Statuses, Busy
  <2>2. UNCHANGED <<listKind, adding, shown, fetches, dialog, dropped, overtaken>>
    BY <1>3 DEF Accepted, Read
  <2>3. held[d] # "gone" /\ (adding[d] = "shown" => held[d] \notin Absent)
    BY <1>1, <1>3 DEF Accepted, Read, Busy, Absent
  <2>4. /\ held' \in [Item -> Statuses \cup Absent] /\ held'[d] \in Statuses
        /\ \A e \in Item : e # d => held'[e] = held[e]
    BY <1>1, <2>1
  <2>5. "none" \notin Statuses
    BY DEF Statuses, Busy
  <2>6. Added' \subseteq Added
    BY <2>2, <2>3, <2>4 DEF Added
  <2>7. dialog'.state = "deleted" => held'[dialog'.id] = "gone"
    BY <1>1, <2>2, <2>3, <2>4
  <2> QED
    BY <1>1, <2>2, <2>3, <2>4, <2>5, <2>6, <2>7, ListsStay
<1>4. CASE DeletedThere
  <2> DEFINE d == dialog.id
  <2>1. /\ dialog.state = "deleting" /\ held' = [held EXCEPT ![d] = "gone"] /\ dialog' = [dialog EXCEPT !.state = "deleted"]
        /\ UNCHANGED <<listKind, adding, shown, fetches, dropped, overtaken>> /\ d \in Item
    BY <1>1, <1>4 DEF DeletedThere
  <2>2. dialog' \in Dialogs /\ dialog'.id = d
    BY <1>1, <2>1 DEF Dialogs
  <2> HIDE DEF d
  <2>3. /\ held' \in [Item -> Statuses \cup Absent] /\ held'[d] = "gone"
        /\ \A e \in Item : e # d => held'[e] = held[e]
    BY <1>1, <2>1 DEF Absent
  <2>4. Added' \subseteq Added
    BY <2>1, <2>3 DEF Added, Absent
  <2>5. \A e \in Item : adding'[e] = "shown" => held'[e] # "none"
    BY <1>1, <2>1, <2>3
  <2> QED
    BY <1>1, <2>1, <2>2, <2>3, <2>4, <2>5, ListsStay
<1>5. ASSUME \/ \E d \in Item : AskDelete(d)
             \/ Cancel \/ Confirm \/ DeleteFails \/ DropScope \/ \E d \in Item \cup {NoItem} : Choose(d)
      PROVE  ListInv'
  <2>1. UNCHANGED <<listKind, held, adding, shown, fetches, dropped, overtaken>>
    BY <1>5 DEF AskDelete, Cancel, Confirm, DeleteFails, DropScope, Choose
  <2>2. /\ dialog' \in Dialogs /\ (dialog'.state # "closed" => dialog'.id \in Item)
        /\ dialog'.state = "deleted" => held[dialog'.id] = "gone"
    <3>1. NoDialog \in Dialogs /\ NoDialog.state = "closed"
      BY DEF NoDialog, Dialogs
    <3>2. ASSUME NEW d \in Item, AskDelete(d) PROVE dialog' \in Dialogs /\ dialog'.state = "open" /\ dialog'.id = d
      BY <3>2 DEF AskDelete, Dialogs
    <3>3. CASE Cancel
      BY <3>1, <3>3 DEF Cancel
    <3>4. CASE Confirm \/ DeleteFails
      <4>1. PICK s \in {"open", "deleting"} : dialog' = [dialog EXCEPT !.state = s]
        BY <3>4 DEF Confirm, DeleteFails
      <4>2. dialog' \in Dialogs /\ dialog'.id = dialog.id /\ dialog'.state = s
        BY <1>1, <4>1 DEF Dialogs
      <4>3. dialog.state # "closed"
        BY <3>4 DEF Confirm, DeleteFails
      <4> QED
        BY <1>1, <4>2, <4>3
    <3>5. CASE DropScope \/ \E d \in Item \cup {NoItem} : Choose(d)
      <4>1. dialog' = dialog
        BY <3>5 DEF DropScope, Choose
      <4> QED
        BY <1>1, <4>1
    <3> QED
      BY <1>5, <3>2, <3>3, <3>4, <3>5
  <2>4. Added' = Added
    BY <2>1 DEF Added
  <2> QED
    BY <1>1, <2>1, <2>2, <2>4, ListsStay
<1> QED
  BY <1>2, <1>3, <1>4, <1>5

\* The row of an upload goes in front, and the lists under way are marked.
LEMMA InsertedKeeps ==
    ASSUME ListInv, NEW d \in Item, Inserted(d)
    PROVE  ListInv'
<1> DEFINE r == Row(d, IF listKind = "documents" THEN "pending" ELSE "ready")
<1>1. /\ held[d] # "none" /\ adding' = [adding EXCEPT ![d] = "shown"] /\ shown' = <<r>> \o shown
      /\ OvertakeLists /\ overtaken' = (overtaken \/ d \in dropped)
      /\ UNCHANGED <<listKind, held, dialog, dropped>>
  BY DEF Inserted
<1>2. r \in ListRows /\ r.id = d /\ (listKind = "documents" => r.status \in Busy)
  BY DEF Row, ListRows, Statuses, Busy
<1> HIDE DEF r
<1>3. shown \in Seq(ListRows) /\ Mended(shown, listKind) /\ (~overtaken => Knows(shown, Added, dropped))
  BY DEF ListInv
<1>4. /\ shown' \in Seq(ListRows) /\ DOMAIN shown' = 1 .. Len(shown) + 1 /\ DOMAIN shown = 1 .. Len(shown) /\ Len(shown) \in Nat
      /\ shown'[1] = r /\ \A i \in DOMAIN shown : shown'[i + 1] = shown[i]
  <2>1. <<r>> \in Seq(ListRows) /\ Len(<<r>>) = 1 /\ <<r>>[1] = r
    BY <1>2
  <2>2. /\ shown' \in Seq(ListRows) /\ Len(shown') = 1 + Len(shown)
        /\ \A i \in 1 .. 1 + Len(shown) : shown'[i] = IF i <= 1 THEN <<r>>[i] ELSE shown[i - 1]
    BY <1>1, <1>3, <2>1, ConcatProperties
  <2>3. Len(shown) \in Nat /\ DOMAIN shown = 1 .. Len(shown)
    BY <1>3
  <2>4. \A i \in 1 .. Len(shown) : i + 1 \in 1 .. 1 + Len(shown) /\ ~ (i + 1 <= 1) /\ (i + 1) - 1 = i
    BY <2>3
  <2> QED
    BY <2>1, <2>2, <2>3, <2>4
<1>5. \A i \in DOMAIN shown' : i = 1 \/ (i - 1 \in DOMAIN shown /\ shown'[i] = shown[i - 1])
  <2>1. \A i \in DOMAIN shown' : i = 1 \/ (i - 1 \in DOMAIN shown /\ (i - 1) + 1 = i)
    BY <1>4
  <2> QED
    BY <1>4, <2>1
<1>6. \A i \in DOMAIN shown : i + 1 \in DOMAIN shown' /\ shown'[i + 1] = shown[i]
  BY <1>4
<1>7. Mended(shown', listKind)
  <2> SUFFICES ASSUME listKind = "documents", NEW i \in DOMAIN shown', NEW j \in DOMAIN shown',
                      shown'[i].id = shown'[j].id, i # j
               PROVE  shown'[i].status \in Busy \/ shown'[j].status \in Busy
    BY DEF Mended
  <2>1. CASE i = 1 \/ j = 1
    BY <1>2, <1>4, <2>1
  <2>2. CASE i # 1 /\ j # 1
    <3>1. i - 1 \in DOMAIN shown /\ j - 1 \in DOMAIN shown /\ i - 1 # j - 1
      BY <1>4, <1>5, <2>2
    <3> QED
      BY <1>3, <1>5, <2>2, <3>1 DEF Mended
  <2> QED
    BY <2>1, <2>2
<1>8. adding' \in [Item -> {"idle", "sent", "shown", "failed"}] /\ \A e \in Item : e # d => adding'[e] = adding[e]
  BY <1>1 DEF ListInv
<1>9. Added' \subseteq Added \cup {d}
  BY <1>1, <1>8 DEF Added
<1>10. ~overtaken' => Knows(shown', Added', dropped)
  <2> SUFFICES ASSUME ~overtaken, d \notin dropped PROVE Knows(shown', Added', dropped)
    BY <1>1
  <2>1. \A e \in Added' : \E i \in DOMAIN shown' : shown'[i].id = e
    BY <1>2, <1>3, <1>4, <1>6, <1>9 DEF Knows
  <2>2. \A e \in dropped : \A i \in DOMAIN shown' : shown'[i].id # e
    BY <1>2, <1>3, <1>4, <1>5 DEF Knows
  <2> QED
    BY <2>1, <2>2 DEF Knows
<1>11. \A f \in Fetch : fetches'[f].state = "read" =>
         Mended(fetches'[f].rows, listKind) /\ fetches'[f].overtaken
  BY <1>1, ListsOvertaken DEF ListInv
<1>12. \A e \in Item : adding'[e] = "shown" => held'[e] # "none"
  BY <1>1, <1>8 DEF ListInv
<1>13. fetches' \in [Fetch -> [state : {"idle", "asked", "read"}, rows : Seq(ListRows), overtaken : BOOLEAN]]
  BY <1>1, ListsOvertaken
<1> QED
  BY <1>1, <1>4, <1>7, <1>8, <1>10, <1>11, <1>12, <1>13 DEF ListInv

\* The rows of the deleted one are taken out, and the lists under way are marked.
LEMMA FilteredKeeps ==
    ASSUME ListInv, Filtered
    PROVE  ListInv'
<1> DEFINE d == dialog.id
<1>1. /\ dialog.state = "deleted" /\ dropped' = dropped \cup {d} /\ dialog' = NoDialog /\ OvertakeLists
      /\ shown' = Others(d)
      /\ UNCHANGED <<listKind, held, adding, overtaken>>
  BY DEF Filtered, Others
<1>2. d \in Item /\ held[d] = "gone"
  BY <1>1 DEF ListInv
<1> HIDE DEF d
<1>3. /\ shown' \in Seq(ListRows) /\ Mended(shown', listKind)
      /\ \A i \in DOMAIN shown' : shown'[i].id # d /\ \E j \in DOMAIN shown : shown'[i] = shown[j]
      /\ \A j \in DOMAIN shown : shown[j].id # d => \E i \in DOMAIN shown' : shown'[i] = shown[j]
  BY <1>1, FilteredIs DEF Without
<1>4. Added' = Added /\ d \notin Added
  BY <1>1, <1>2 DEF Added, Absent
<1>5. ~overtaken' => Knows(shown', Added', dropped')
  <2> SUFFICES ASSUME Knows(shown, Added, dropped) PROVE Knows(shown', Added, dropped \cup {d})
    BY <1>1, <1>4 DEF ListInv
  <2> QED
    BY <1>3, <1>4 DEF Knows
<1>6. \A f \in Fetch : fetches'[f].state = "read" =>
         Mended(fetches'[f].rows, listKind) /\ fetches'[f].overtaken
  BY <1>1, ListsOvertaken DEF ListInv
<1>7. fetches' \in [Fetch -> [state : {"idle", "asked", "read"}, rows : Seq(ListRows), overtaken : BOOLEAN]]
  BY <1>1, ListsOvertaken
<1>8. dialog' \in Dialogs /\ dialog'.state = "closed"
  BY <1>1 DEF NoDialog, Dialogs
<1> QED
  BY <1>1, <1>2, <1>3, <1>5, <1>6, <1>7, <1>8 DEF ListInv

\* Nothing has been listed, added or deleted (ListInit).
LEMMA ListStarts == ListInit => ListInv
<1> SUFFICES ASSUME ListInit PROVE ListInv
  OBVIOUS
<1>1. /\ shown = <<>> /\ <<>> \in Seq(ListRows) /\ Mended(<<>>, listKind) /\ dropped = {} /\ Added = {}
      /\ listKind \in {"documents", "conversations"}
  BY DEF ListInit, Mended, Added
<1>2. held \in [Item -> Statuses \cup Absent] /\ adding = [d \in Item |-> "idle"] /\ dialog.state = "closed"
      /\ dialog \in Dialogs
  BY DEF ListInit, Statuses, Busy, Absent, NoDialog, Dialogs
<1>3. NoFetch \in [state : {"idle", "asked", "read"}, rows : Seq(ListRows), overtaken : BOOLEAN] /\ NoFetch.state = "idle"
  BY DEF NoFetch
<1>4. fetches = [f \in Fetch |-> NoFetch]
  BY DEF ListInit
<1> QED
  BY <1>1, <1>2, <1>3, <1>4 DEF ListInv, Knows

\* Every step of a list keeps the invariant.
LEMMA ListKeeps == ListInv /\ [ListNext]_list => ListInv'
<1>1. ASSUME ListInv, UNCHANGED list PROVE ListInv'
  BY <1>1 DEF list, ListInv, Added
<1> QED
  BY <1>1, RequestsKeep, QuietKeep, InsertedKeeps, FilteredKeeps DEF ListNext

\* Unless an answer older than a change arrives after it, the list shows what was
\* added and not what was deleted, and two rows of one document only while it
\* asks again (ListTrue): for any number of requests under way, answered in
\* whatever order.
THEOREM ListStaysTrue == Spec => []ListTrue
<1>1. Init => ListInv
  BY ListStarts DEF Init
<1>2. ListInv /\ [Next]_client => ListInv'
  <2>1. [Next]_client => [ListNext]_list
    BY DEF Next, client
  <2> QED
    BY <2>1, ListKeeps
<1> QED
  BY <1>1, <1>2, ListIs, PTL DEF Spec

-----------------------------------------------------------------------------
\* The text of a source
Texted(c) == [chunk : {c}, cancelled : BOOLEAN]

\* Of the texts under way only that of the footnote the dialog is open on is not
\* given up.
SourceInv ==
    /\ SourceTrue
    /\ \A f \in fetching : f \in Texted(f.chunk) /\ (f.cancelled \/ f.chunk = Active)

\* The effect's clean-up gives them all up.
LEMMA CancelledAre ==
    ASSUME SourceInv
    PROVE  \A f \in Cancelled : f \in Texted(f.chunk) /\ f.cancelled
<1>1. ASSUME NEW f \in fetching
      PROVE  [f EXCEPT !.cancelled = TRUE] \in Texted(f.chunk) /\ [f EXCEPT !.cancelled = TRUE].cancelled
             /\ [f EXCEPT !.cancelled = TRUE].chunk = f.chunk
  <2>1. f \in [chunk : {f.chunk}, cancelled : BOOLEAN]
    BY <1>1 DEF SourceInv, Texted
  <2> QED
    BY <2>1 DEF Texted
<1> QED
  BY <1>1 DEF Cancelled

\* Every step of the dialog keeps it.
LEMMA SourceKeeps == SourceInv /\ [ViewNext]_view => SourceInv'
<1> SUFFICES ASSUME SourceInv, [ViewNext]_view PROVE SourceInv'
  OBVIOUS
<1>1. CASE UNCHANGED modal
  BY <1>1 DEF modal, SourceInv, SourceTrue, Active, All
<1>2. ASSUME NEW n \in 1 .. Len(All), Select(n) PROVE SourceInv'
  <2>1. n # 0 /\ open' = n /\ All' = All
    BY <1>2 DEF Select, All
  <2>2. Active' = All[n]
    BY <2>1 DEF Active
  <2>3. CASE All[n] = Active
    BY <1>2, <2>2, <2>3 DEF Select, SourceInv, SourceTrue
  <2>4. CASE All[n] # Active
    <3>1. content' = NoChunk /\ fetching' = Cancelled \cup {[chunk |-> All[n], cancelled |-> FALSE]}
      BY <1>2, <2>4 DEF Select
    <3>2. \A f \in Cancelled : f.cancelled
      BY CancelledAre
    <3>3. \A f \in fetching' : f \in Texted(f.chunk) /\ (f.cancelled \/ f.chunk = All[n])
      <4> DEFINE f == [chunk |-> All[n], cancelled |-> FALSE]
      <4>1. f \in Texted(f.chunk) /\ f.chunk = All[n]
        BY DEF Texted
      <4> HIDE DEF f
      <4> QED
        BY <3>1, <4>1, CancelledAre DEF f
    <3>4. content' \in {NoChunk, Active'}
      BY <3>1
    <3> QED
      BY <2>2, <3>3, <3>4 DEF SourceInv, SourceTrue
  <2> QED
    BY <2>3, <2>4
<1>3. CASE Shut
  <2>1. content' = NoChunk /\ fetching' = Cancelled
    BY <1>3 DEF Shut
  <2> QED
    BY <2>1, CancelledAre DEF SourceInv, SourceTrue
<1>4. ASSUME NEW f \in fetching, Fetched(f) \/ FetchFails(f) PROVE SourceInv'
  <2>1. /\ fetching' = fetching \ {f} /\ Active' = Active
        /\ content' = content \/ (~f.cancelled /\ content' = f.chunk)
    BY <1>4 DEF Fetched, FetchFails, Active, All
  <2> QED
    BY <2>1 DEF SourceInv, SourceTrue
<1>5. Receive(1) \/ TakeFrame \/ Close => UNCHANGED modal
  BY DEF Receive, TakeFrame, Close
<1> QED
  BY <1>1, <1>2, <1>3, <1>4 DEF ViewNext, view, Receive, TakeFrame, Close

\* The dialog is closed at first.
LEMMA SourceStarts == ViewInit => SourceInv
  BY DEF ViewInit, SourceInv, SourceTrue

\* The text of a source stays under the footnote that names it (SourceTrue),
\* however many texts are under way and in whatever order they arrive.
THEOREM SourceStaysTrue == Spec => []SourceTrue
<1>1. Init => SourceInv
  BY SourceStarts DEF Init
<1>2. SourceInv /\ [Next]_client => SourceInv'
  <2>1. [Next]_client => [ViewNext]_view
    BY DEF Next, client
  <2> QED
    BY <2>1, SourceKeeps
<1>3. SourceInv => SourceTrue
  BY DEF SourceInv
<1> QED
  BY <1>1, <1>2, <1>3, PTL DEF Spec

-----------------------------------------------------------------------------
\* What is on the screen is one thing, and what the server holds (ShownTrue).
THEOREM ShownStaysTrue == Spec => []ShownTrue
<1>1. ThreadIsOne /\ ListTrue /\ SourceTrue => ShownTrue
  BY DEF ShownTrue
<1> QED
  BY <1>1, ThreadStaysOne, ListStaysTrue, SourceStaysTrue, PTL

-----------------------------------------------------------------------------
\* The page of an e-mailed link
Known == {"none", "taster", "verified"}

\* The GET /auth/me of a tab.
Asks == [state : {"idle", "asked", "read"}, answer : Known, for : {"none", "mount", "refresh"}, overtaken : BOOLEAN]

\* The tab asks at its mount and, once, after its link has verified; from then
\* on an answer that still calls the user unverified is known to be older.
SessionInv ==
    /\ asks \in [Probe -> Asks]
    /\ user \in Known /\ verified \in BOOLEAN /\ outdated \in BOOLEAN
    /\ verifying # "none" => started
    /\ verifying \in {"accepted", "refreshing", "done"} => verified
    /\ \A k \in Probe : asks[k].for = "refresh" =>
          /\ verifying \in {"refreshing", "done"}
          /\ asks[k].state = "read" => asks[k].answer # "taster"
    /\ verifying \in {"refreshing", "done"} =>
          \A k \in Probe : asks[k].state = "read" /\ asks[k].answer = "taster" => asks[k].overtaken
    /\ ConfirmedTold

\* One request of the tab changes; the others stay.
LEMMA OneAsk ==
    ASSUME asks \in [Probe -> Asks], NEW k \in Probe, NEW a \in Asks, asks' = [asks EXCEPT ![k] = a]
    PROVE  asks' \in [Probe -> Asks] /\ asks'[k] = a /\ \A q \in Probe : q # k => asks'[q] = asks[q]
  OBVIOUS

\* What has been read is older than what the tab has just learnt; nothing else
\* of a request changes.
LEMMA AnswersOvertaken ==
    ASSUME asks \in [Probe -> Asks], NEW later, later = OvertakeAnswers
    PROVE  /\ later \in [Probe -> Asks]
           /\ \A k \in Probe :
                 /\ later[k].state = asks[k].state /\ later[k].answer = asks[k].answer
                 /\ later[k].for = asks[k].for
                 /\ later[k].overtaken = (asks[k].state = "read")
<1>1. \A k \in Probe : asks[k] = [state |-> asks[k].state, answer |-> asks[k].answer,
                                  for |-> asks[k].for, overtaken |-> asks[k].overtaken]
  BY DEF Asks
<1>2. \A k \in Probe : [asks[k] EXCEPT !.overtaken = asks[k].state = "read"] =
          [state |-> asks[k].state, answer |-> asks[k].answer,
           for |-> asks[k].for, overtaken |-> asks[k].state = "read"]
  BY DEF Asks
<1>3. later = [k \in Probe |-> [state |-> asks[k].state, answer |-> asks[k].answer,
                                for |-> asks[k].for, overtaken |-> asks[k].state = "read"]]
  BY <1>2 DEF OvertakeAnswers
<1>4. \A k \in Probe : asks[k].state \in {"idle", "asked", "read"} /\ asks[k].answer \in Known
                       /\ asks[k].for \in {"none", "mount", "refresh"}
  BY DEF Asks
<1> QED
  BY <1>3, <1>4 DEF Asks

\* Nobody has asked or learnt anything but the mount's question (SessionInit).
LEMMA SessionStarts == SessionInit => SessionInv
<1> SUFFICES ASSUME SessionInit PROVE SessionInv
  OBVIOUS
<1> DEFINE first == CHOOSE k \in Probe : TRUE
<1> DEFINE mount == [NoAsk EXCEPT !.state = "asked", !.for = "mount"]
<1>1. NoAsk \in Asks /\ NoAsk.state = "idle" /\ NoAsk.for = "none"
  BY DEF NoAsk, Asks, Known
<1>2. mount \in Asks /\ mount.state = "asked" /\ mount.for = "mount"
  BY <1>1 DEF Asks
<1>3. \/ asks = [k \in Probe |-> NoAsk]
      \/ asks = [[k \in Probe |-> NoAsk] EXCEPT ![first] = mount]
  <2>1. asks = [k \in Probe |-> NoAsk]
        \/ asks = [[k \in Probe |-> NoAsk] EXCEPT ![first] = [@ EXCEPT !.state = "asked", !.for = "mount"]]
    BY DEF SessionInit
  <2>2. first \in Probe => [k \in Probe |-> NoAsk][first] = NoAsk
    OBVIOUS
  <2>3. first \notin Probe =>
          [[k \in Probe |-> NoAsk] EXCEPT ![first] = [@ EXCEPT !.state = "asked", !.for = "mount"]]
             = [k \in Probe |-> NoAsk]
    OBVIOUS
  <2>4. first \in Probe =>
          [[k \in Probe |-> NoAsk] EXCEPT ![first] = [@ EXCEPT !.state = "asked", !.for = "mount"]]
             = [[k \in Probe |-> NoAsk] EXCEPT ![first] = mount]
    BY <2>2
  <2> QED
    BY <2>1, <2>3, <2>4, Zenon
<1> HIDE DEF mount, first
<1>4. asks \in [Probe -> Asks] /\ \A k \in Probe : asks[k].state # "read" /\ asks[k].for # "refresh"
  BY <1>1, <1>2, <1>3
<1>5. /\ user = "none" /\ verified \in BOOLEAN /\ outdated = FALSE /\ verifying = "none"
  BY DEF SessionInit
<1> QED
  BY <1>4, <1>5 DEF SessionInv, ConfirmedTold, Known

\* Every step of the page's tab keeps it.
LEMMA SessionKeeps == SessionInv /\ SessionNext => SessionInv'
<1> SUFFICES ASSUME SessionInv, SessionNext PROVE SessionInv'
  OBVIOUS
<1>0. /\ asks \in [Probe -> Asks] /\ user \in Known /\ verified \in BOOLEAN /\ outdated \in BOOLEAN
      /\ ConfirmedTold
  BY DEF SessionInv
<1>1. ASSUME NEW k \in Probe, MeRead(k) PROVE SessionInv'
  <2> DEFINE read == [asks[k] EXCEPT !.state = "read", !.answer = Me]
  <2>1. UNCHANGED <<verified, user, started, verifying, outdated>> /\ asks' = [asks EXCEPT ![k] = read]
    BY <1>1 DEF MeRead
  <2>2. asks[k] \in Asks /\ Me \in Known
    BY <1>0 DEF Me, Known
  <2>3. read \in Asks /\ read.state = "read" /\ read.answer = Me /\ read.for = asks[k].for
    BY <2>2 DEF Asks
  <2> HIDE DEF read
  <2>4. asks' \in [Probe -> Asks] /\ asks'[k] = read /\ \A q \in Probe : q # k => asks'[q] = asks[q]
    BY <1>0, <2>1, <2>3
  <2>5. verified => Me # "taster"
    BY DEF Me
  <2> QED
    BY <1>0, <2>1, <2>3, <2>4, <2>5 DEF SessionInv, ConfirmedTold
<1>2. ASSUME NEW k \in Probe, MeArrives(k) PROVE SessionInv'
  <2>1. PICK lost \in BOOLEAN : /\ user' = IF lost THEN "none" ELSE asks[k].answer
                                /\ outdated' = (outdated \/ asks[k].overtaken \/ lost)
    BY <1>2 DEF MeArrives
  <2>2. /\ asks[k].state = "read" /\ UNCHANGED <<verified, started>>
        /\ verifying' = IF asks[k].for = "refresh" THEN "done" ELSE verifying
        /\ asks' = [asks EXCEPT ![k] = NoAsk]
    BY <1>2 DEF MeArrives
  <2>3. asks[k].answer \in Known /\ asks[k].overtaken \in BOOLEAN
    BY <1>0 DEF Asks
  <2>4. NoAsk \in Asks /\ NoAsk.state = "idle" /\ NoAsk.for = "none"
    BY DEF NoAsk, Asks, Known
  <2>5. asks' \in [Probe -> Asks] /\ asks'[k] = NoAsk /\ \A q \in Probe : q # k => asks'[q] = asks[q]
    BY <1>0, <2>2, <2>4
  <2>6. user' \in Known /\ outdated' \in BOOLEAN
    BY <1>0, <2>1, <2>3 DEF Known
  <2>7. asks[k].for = "refresh" => verifying \in {"refreshing", "done"} /\ asks[k].answer # "taster"
    BY <2>2 DEF SessionInv
  <2>8. verifying' \in {"refreshing", "done"} => verifying \in {"refreshing", "done"}
    BY <2>2, <2>7
  <2>9. /\ verifying' # "none" => started'
        /\ verifying' \in {"accepted", "refreshing", "done"} => verified'
    BY <2>2, <2>7 DEF SessionInv
  <2>10. \A q \in Probe : asks'[q].for = "refresh" =>
            /\ verifying' \in {"refreshing", "done"}
            /\ asks'[q].state = "read" => asks'[q].answer # "taster"
    BY <2>2, <2>4, <2>5 DEF SessionInv
  <2>11. verifying' \in {"refreshing", "done"} =>
            \A q \in Probe : asks'[q].state = "read" /\ asks'[q].answer = "taster" => asks'[q].overtaken
    BY <2>4, <2>5, <2>8 DEF SessionInv
  <2>12. ConfirmedTold'
    <3>1. SUFFICES ASSUME verifying' = "done", ~outdated' PROVE user' # "taster"
      BY <2>9 DEF ConfirmedTold
    <3>2. ~lost /\ ~asks[k].overtaken /\ user' = asks[k].answer
      BY <2>1, <2>3, <3>1, <1>0
    <3> QED
      BY <2>2, <2>8, <3>1, <3>2 DEF SessionInv
  <2> QED
    BY <1>0, <2>2, <2>5, <2>6, <2>9, <2>10, <2>11, <2>12 DEF SessionInv
<1>3. ASSUME NEW k \in Probe, RefreshAfter(k) PROVE SessionInv'
  <2> DEFINE later == OvertakeAnswers
  <2> DEFINE question == [NoAsk EXCEPT !.state = "asked", !.for = "refresh"]
  <2>1. /\ verifying = "accepted" /\ verifying' = "refreshing"
        /\ asks' = [later EXCEPT ![k] = question]
        /\ UNCHANGED <<verified, user, started, outdated>>
    BY <1>3 DEF RefreshAfter
  <2>2. NoAsk \in Asks
    BY DEF NoAsk, Asks, Known
  <2>3. question \in Asks /\ question.state = "asked"
    BY <2>2 DEF Asks
  <2>4. /\ later \in [Probe -> Asks]
        /\ \A q \in Probe : /\ later[q].state = asks[q].state /\ later[q].answer = asks[q].answer
                            /\ later[q].for = asks[q].for
                            /\ later[q].overtaken = (asks[q].state = "read")
    BY <1>0, AnswersOvertaken
  <2> HIDE DEF later, question
  <2>5. asks' \in [Probe -> Asks] /\ asks'[k] = question /\ \A q \in Probe : q # k => asks'[q] = later[q]
    BY <2>1, <2>2, <2>3, <2>4
  <2>6. \A q \in Probe : later[q].for # "refresh"
    BY <2>1, <2>4 DEF SessionInv
  <2>7. \A q \in Probe : asks'[q].state = "read" => asks'[q].overtaken /\ asks'[q].for # "refresh"
    <3>1. SUFFICES ASSUME NEW q \in Probe, asks'[q].state = "read"
                   PROVE  asks'[q].overtaken /\ asks'[q].for # "refresh"
      OBVIOUS
    <3>2. q # k /\ asks'[q] = later[q]
      BY <2>3, <2>5, <3>1
    <3>3. asks[q].state = "read" /\ later[q].for # "refresh"
      BY <2>4, <2>6, <3>1, <3>2
    <3>4. later[q].overtaken
      BY <2>4, <3>3
    <3> QED
      BY <3>2, <3>3, <3>4
  <2>8. started /\ verified
    BY <2>1 DEF SessionInv
  <2> QED
    BY <1>0, <2>1, <2>5, <2>7, <2>8 DEF SessionInv, ConfirmedTold
<1>4. ASSUME SignedOut PROVE SessionInv'
  <2>1. user' = "none" /\ asks' = OvertakeAnswers /\ UNCHANGED <<verified, started, verifying, outdated>>
    BY <1>4 DEF SignedOut
  <2>2. /\ asks' \in [Probe -> Asks]
        /\ \A q \in Probe : /\ asks'[q].state = asks[q].state /\ asks'[q].answer = asks[q].answer
                            /\ asks'[q].for = asks[q].for
                            /\ asks'[q].overtaken = (asks[q].state = "read")
    BY <1>0, <2>1, AnswersOvertaken
  <2> QED
    BY <1>0, <2>1, <2>2 DEF SessionInv, ConfirmedTold, Known
<1>5. ASSUME SignedIn PROVE SessionInv'
  <2>1. /\ user' = IF verified THEN "verified" ELSE "taster"
        /\ asks' = OvertakeAnswers /\ UNCHANGED <<verified, started, verifying, outdated>>
    BY <1>5 DEF SignedIn
  <2>2. /\ asks' \in [Probe -> Asks]
        /\ \A q \in Probe : /\ asks'[q].state = asks[q].state /\ asks'[q].answer = asks[q].answer
                            /\ asks'[q].for = asks[q].for
                            /\ asks'[q].overtaken = (asks[q].state = "read")
    BY <1>0, <2>1, AnswersOvertaken
  <2> QED
    BY <1>0, <2>1, <2>2 DEF SessionInv, ConfirmedTold, Known
<1>6. ASSUME Verify PROVE SessionInv'
  BY <1>6 DEF Verify, SessionInv, ConfirmedTold
<1>7. ASSUME VerifiedThere PROVE SessionInv'
  <2>1. /\ verifying = "asked" /\ verifying' = IF link = "good" THEN "accepted" ELSE "refused"
        /\ verified' = (verified \/ link = "good")
        /\ UNCHANGED <<user, asks, started, outdated>>
    BY <1>7 DEF VerifiedThere
  <2>2. verified' \in BOOLEAN /\ (verifying' = "accepted" => verified')
    BY <1>0, <2>1
  <2>3. verifying' \in {"accepted", "refused"}
    BY <2>1
  <2> QED
    BY <2>1, <2>2, <2>3 DEF SessionInv, ConfirmedTold
<1>8. ASSUME VerifyFails PROVE SessionInv'
  BY <1>8 DEF VerifyFails, SessionInv, ConfirmedTold
<1>9. ASSUME \/ SignOut \/ Submit \/ Refused \/ Redirect \/ ReadAddress \/ Scrub \/ OpenAnother
             \/ Leave \/ Resend \/ Resent \/ Expire
      PROVE  SessionInv'
  <2>1. UNCHANGED <<asks, user, verified, outdated, verifying, started>>
    BY <1>9 DEF SignOut, Submit, Refused, Redirect, ReadAddress, Scrub, OpenAnother,
                Leave, Resend, Resent, Expire
  <2> QED
    BY <2>1 DEF SessionInv, ConfirmedTold
<1> QED
  BY <1>1, <1>2, <1>3, <1>4, <1>5, <1>6, <1>7, <1>8, <1>9 DEF SessionNext

\* What the page has said it goes on saying: the token stays in the address
\* (ReadAddress, Scrub, OpenAnother), and an answered link is not asked about again.
LEMMA DoneStays == SessionInv /\ SessionNext /\ Shows = "done" => Shows' = "done"
<1> SUFFICES ASSUME SessionInv, SessionNext, Shows = "done" PROVE Shows' = "done"
  OBVIOUS
<1>1. hydrated /\ ReadVerifyToken(url) # NoToken /\ verifying = "done"
  BY DEF Shows, token
<1>2. started /\ \A k \in Probe : asks[k].for = "refresh" => verifying = "done"
  BY <1>1 DEF SessionInv
<1>3. verifying' = "done"
  <2>1. ASSUME NEW k \in Probe, MeRead(k) \/ MeArrives(k) \/ RefreshAfter(k) PROVE verifying' = "done"
    BY <1>1, <2>1 DEF MeRead, MeArrives, RefreshAfter
  <2>2. ASSUME \/ SignOut \/ SignedOut \/ Submit \/ SignedIn \/ Refused \/ Redirect \/ ReadAddress \/ Scrub
               \/ OpenAnother \/ Leave \/ Resend \/ Resent \/ Expire
        PROVE  verifying' = "done"
    BY <1>1, <2>2 DEF SignOut, SignedOut, Submit, SignedIn, Refused, Redirect, ReadAddress, Scrub,
                      OpenAnother, Leave, Resend, Resent, Expire
  <2>3. ~Verify /\ ~VerifiedThere /\ ~VerifyFails
    BY <1>1, <1>2 DEF Verify, VerifiedThere, VerifyFails
  <2> QED
    BY <2>1, <2>2, <2>3 DEF SessionNext
<1>4. hydrated' = TRUE /\ ReadVerifyToken(url)' # NoToken
  <2>1. CASE Scrub
    <3>1. url' = [fragment |-> ReadVerifyToken(url), query |-> NoToken] /\ UNCHANGED hydrated
      BY <2>1 DEF Scrub
    <3>2. hydrated' = TRUE
      BY <1>1, <2>1, <3>1 DEF Scrub
    <3> QED
      BY <1>1, <3>1, <3>2 DEF ReadVerifyToken
  <2>6. CASE OpenAnother
    <3>1. url' = [fragment |-> "c", query |-> url.query] /\ UNCHANGED hydrated
      BY <2>6 DEF OpenAnother
    <3>2. hydrated' = TRUE
      BY <1>1, <2>6, <3>1 DEF OpenAnother
    <3> QED
      BY <1>1, <3>1, <3>2 DEF ReadVerifyToken, NoToken
  <2>2. CASE ReadAddress
    BY <1>1, <2>2 DEF ReadAddress
  <2>3. ASSUME NEW k \in Probe, MeRead(k) \/ MeArrives(k) \/ RefreshAfter(k) PROVE UNCHANGED <<hydrated, url>>
    BY <2>3 DEF MeRead, MeArrives, RefreshAfter
  <2>4. ASSUME \/ SignOut \/ SignedOut \/ Submit \/ SignedIn \/ Refused \/ Redirect \/ Verify \/ VerifiedThere
               \/ VerifyFails \/ Leave \/ Resend \/ Resent \/ Expire
        PROVE  UNCHANGED <<hydrated, url>>
    BY <2>4 DEF SignOut, SignedOut, Submit, SignedIn, Refused, Redirect, Verify, VerifiedThere,
                VerifyFails, Leave, Resend, Resent, Expire
  <2>5. UNCHANGED <<hydrated, url>> => hydrated' /\ ReadVerifyToken(url)' # NoToken
    BY <1>1 DEF ReadVerifyToken
  <2> QED
    BY <2>1, <2>2, <2>3, <2>4, <2>5, <2>6 DEF SessionNext
<1> QED
  BY <1>3, <1>4 DEF Shows, token

\* One step of the client, whichever of its parts takes it.
LEMMA ClientKeeps ==
    /\ Init => SessionInv
    /\ SessionInv /\ [Next]_client => SessionInv' /\ [ConfirmedTold' /\ (Shows = "done" => Shows' = "done")]_session
<1>1. Init => SessionInv
  BY SessionStarts DEF Init
<1>2. ASSUME SessionInv, UNCHANGED session PROVE SessionInv'
  BY <1>2 DEF session, SessionInv, ConfirmedTold
<1>3. ASSUME SessionInv, SessionNext
      PROVE  SessionInv' /\ ConfirmedTold' /\ (Shows = "done" => Shows' = "done")
  <2>1. SessionInv'
    BY <1>3, SessionKeeps
  <2>2. ConfirmedTold'
    BY <2>1 DEF SessionInv
  <2> QED
    BY <1>3, <2>1, <2>2, DoneStays
<1>4. [Next]_client => SessionNext \/ UNCHANGED session
  BY DEF Next, client
<1> QED
  BY <1>1, <1>2, <1>3, <1>4

\* VerifyInner says "confirmed" only of a confirmed address, to a tab whose
\* session knows it unless an answer came late, and does not take it back.
THEOREM LinkStaysAnswered == Spec => LinkAnswered
<1>1. SessionInv /\ [Next]_client => [ConfirmedTold' /\ (Shows = "done" => Shows' = "done")]_session
  BY ClientKeeps
<1>2. Init => SessionInv
  BY ClientKeeps
<1>3. SessionInv /\ [Next]_client => SessionInv'
  BY ClientKeeps
<1> QED
  BY <1>1, <1>2, <1>3, PTL DEF Spec, LinkAnswered
=============================================================================
