----------------------------- MODULE AnswerView -----------------------------
(***************************************************************************)
(* How an answer reaches the screen: the event stream cut into frames      *)
(* (web/lib/sse.ts), the page marks of the text matched with the citations *)
(* (web/lib/footnotes.ts), and the dialog that shows a cited chunk         *)
(* (web/components/chat/CitationModal.tsx).                                *)
(*                                                                         *)
(* A character of the stream is a letter that stands for a line's text,    *)
(* ":" for the text of a comment, "r" or "n" for the ends of a line.       *)
(***************************************************************************)
EXTENDS Naturals, Sequences, SequencesExt

CONSTANTS
    Bodies,     \* the lists of frames a server sends, each frame a list of lines
    Texts,      \* answers, each the sequence of the pages its marks name
    Cited,      \* citation lists, each entry [chunk, from, to]
    NoChunk     \* null

VARIABLES
    sent,       \* the frames the server sends
    wire,       \* characters not yet received
    buffer,     \* buffer
    frames,     \* what readSse has yielded
    closed,     \* the loop has seen the end of the stream
    text, citations,   \* the answer on the screen
    open,       \* number of the footnote the dialog shows, 0 when it is closed
    content,    \* the chunk whose text the dialog shows, or null
    fetching    \* getChunk requests under way: [chunk, cancelled]

stream == <<sent, wire, buffer, frames, closed>>
modal == <<text, citations, open, content, fetching>>
view == <<stream, modal>>

-----------------------------------------------------------------------------
\* The frames as the server writes them; the last blank line may be missing.
Lines(lines, end) == FoldLeft(LAMBDA s, l : s \o <<l>> \o end, <<>>, lines)
Written(body, end, whole) ==
    LET all == FoldLeft(LAMBDA s, f : s \o Lines(f, end) \o end, <<>>, body)
    IN  IF whole THEN all ELSE SubSeq(all, 1, Len(all) - Len(end))

\* The text of the lines of a frame, comments and blank lines left out.
ParseFrame(raw) == SelectSeq(raw, LAMBDA c : c \notin {"r", "n", ":"})

At(s, i, mark) == i + Len(mark) - 1 <= Len(s) /\ SubSeq(s, i, i + Len(mark) - 1) = mark
Blank == {<<"n", "n">>, <<"r", "n", "r", "n">>}

\* The first blank line, whichever way it is written.
FindBoundary(s) == {b \in (DOMAIN s) \X Blank :
                      At(s, b[1], b[2]) /\ \A j \in 1..(b[1] - 1) : \A m \in Blank : ~At(s, j, m)}

Yield(raw) == frames' = IF ParseFrame(raw) = <<>> THEN frames ELSE Append(frames, ParseFrame(raw))

\* reader.read() may cut the stream anywhere.
Receive(k) ==
    /\ ~closed /\ wire # <<>> /\ FindBoundary(buffer) = {}
    /\ buffer' = buffer \o SubSeq(wire, 1, k)
    /\ wire' = SubSeq(wire, k + 1, Len(wire))
    /\ UNCHANGED <<sent, frames, closed, modal>>

TakeFrame ==
    /\ \E b \in FindBoundary(buffer) :
          /\ Yield(SubSeq(buffer, 1, b[1] - 1))
          /\ buffer' = SubSeq(buffer, b[1] + Len(b[2]), Len(buffer))
    /\ UNCHANGED <<sent, wire, closed, modal>>

\* Faulty: what is left when the stream ends is dropped.
CloseAtOnce ==
    /\ ~closed /\ wire = <<>> /\ FindBoundary(buffer) = {}
    /\ closed' = TRUE /\ buffer' = <<>>
    /\ UNCHANGED <<sent, wire, frames, modal>>

\* The end: what is left is the last frame.
Close ==
    /\ ~closed /\ wire = <<>> /\ FindBoundary(buffer) = {}
    /\ Yield(buffer)
    /\ closed' = TRUE /\ buffer' = <<>>
    /\ UNCHANGED <<sent, wire, modal>>

-----------------------------------------------------------------------------
\* covers; a citation without pages covers none.
Covers(c, page) == c.from # 0 /\ page >= c.from /\ page <= c.to
Matching(page, cited) == {i \in DOMAIN cited : Covers(cited[i], page) /\ \A j \in 1..(i - 1) : ~Covers(cited[j], page)}

\* annotate: footnotes by number, in the order the text first names a chunk.
Footnotes(pages, cited) ==
    FoldLeft(LAMBDA notes, page :
                IF Matching(page, cited) = {} THEN notes
                ELSE LET chunk == cited[CHOOSE i \in Matching(page, cited) : TRUE].chunk
                     IN  IF chunk \in ToSet(notes) THEN notes ELSE Append(notes, chunk),
             <<>>, pages)

Orphans(pages, cited) ==
    SelectSeq([i \in DOMAIN cited |-> cited[i].chunk], LAMBDA c : c \notin ToSet(Footnotes(pages, cited)))

\* Turn: all the footnotes the dialog may go through.
All == Footnotes(text, citations) \o Orphans(text, citations)
Active == IF open = 0 THEN NoChunk ELSE All[open]

Cancelled == {[f EXCEPT !.cancelled = TRUE] : f \in fetching}

\* A footnote is pressed, or chosen in the dialog; the effect hangs on the chunk.
Select(n) ==
    /\ n \in 1..Len(All) /\ open # n
    /\ open' = n
    /\ IF All[n] = Active THEN UNCHANGED <<content, fetching>>
       ELSE /\ content' = NoChunk
            /\ fetching' = Cancelled \cup {[chunk |-> All[n], cancelled |-> FALSE]}
    /\ UNCHANGED <<stream, text, citations>>

Shut ==
    /\ open # 0
    /\ open' = 0 /\ content' = NoChunk /\ fetching' = Cancelled
    /\ UNCHANGED <<stream, text, citations>>

\* The chunk, or an error that is shown in its place.
Fetched(f) ==
    /\ f \in fetching
    /\ fetching' = fetching \ {f}
    /\ content' = IF f.cancelled THEN content ELSE f.chunk
    /\ UNCHANGED <<stream, text, citations, open>>

FetchFails(f) ==
    /\ f \in fetching
    /\ fetching' = fetching \ {f}
    /\ UNCHANGED <<stream, text, citations, open, content>>

-----------------------------------------------------------------------------
ViewInit ==
    /\ sent \in Bodies
    /\ \E end \in {<<"n">>, <<"r", "n">>}, whole \in BOOLEAN : wire = Written(sent, end, whole)
    /\ buffer = <<>> /\ frames = <<>> /\ closed = FALSE
    /\ text \in Texts /\ citations \in Cited
    /\ open = 0 /\ content = NoChunk /\ fetching = {}

\* The dialog opens on an answer that has arrived.
ViewNext ==
    \/ \E k \in DOMAIN wire : Receive(k)
    \/ TakeFrame \/ Close
    \/ closed /\ (Shut \/ \E n \in 1..Len(All) : Select(n))
    \/ \E f \in fetching : Fetched(f) \/ FetchFails(f)

\* The text in the dialog is that of the footnote it is open on, or none yet,
\* in whatever order the footnotes are pressed and their texts arrive
\* (components/chat/CitationModal.tsx).
SourceTrue == content \in {NoChunk, Active}

\* However the stream is cut and its lines are ended, the frames are those the
\* server sent, none lost, torn or doubled (lib/sse.ts); and each footnote has
\* one number and each citation is reached (lib/footnotes.ts).
AnswerFaithful ==
    /\ LET meant == SelectSeq([i \in DOMAIN sent |-> ParseFrame(sent[i])], LAMBDA f : f # <<>>)
       IN  IsPrefix(frames, meant) /\ (closed => frames = meant)
    /\ \A i, j \in DOMAIN Footnotes(text, citations) :
          Footnotes(text, citations)[i] = Footnotes(text, citations)[j] => i = j
    /\ ToSet(All) = {citations[i].chunk : i \in DOMAIN citations}
=============================================================================
