------------------------------ MODULE Chunking ------------------------------
(***************************************************************************)
(* Cutting a document into chunks (app/services/chunking.py), one page a   *)
(* step, with the heading path that the pages carry on from one another.   *)
(*                                                                         *)
(* A page is the sequence of its tokens: 0 is a word, n > 0 a heading of   *)
(* level n, which counts as one token.  A heading's title is its place.    *)
(***************************************************************************)
EXTENDS Naturals, Sequences, FiniteSets, SequencesExt

CONSTANTS
    Books,     \* the documents to cut: sequences of pages
    Cuts       \* how: [size, overlap, strategy, prefix]

\* config.py: chunk_size is 700; what eval passes instead is a size as well.
ASSUME ChunkingInputs ==
    /\ Books \subseteq Seq(Seq(Nat))
    /\ Cuts \subseteq [size : Nat \ {0}, overlap : Nat, strategy : {"section", "fixed"}, prefix : BOOLEAN]

VARIABLES
    book, cut,   \* what is cut, and how
    page,        \* the pages cut so far
    carried,     \* the heading path the last of them ended on
    pieces      \* the chunks: [page, lo, hi, path], lo and hi counting tokens

cutting == <<book, cut, page, carried, pieces>>

\* budget and step of chunk_pages
Budget == cut.size
Overlap == IF Budget > 1 THEN IF cut.overlap < Budget THEN cut.overlap ELSE Budget - 1 ELSE 0
Step == IF Budget - Overlap > 1 THEN Budget - Overlap ELSE 1

ChunkingInit ==
    /\ book \in Books /\ cut \in Cuts
    /\ page = 0 /\ carried = <<>> /\ pieces = {}

-----------------------------------------------------------------------------
\* A heading of a level closes its equals and all below; a level that was
\* skipped repeats the heading above it, or the title itself.
Push(stack, level, title) ==
    [k \in 1 .. level |-> IF k = level \/ stack = <<>> THEN title
                          ELSE IF k <= Len(stack) THEN stack[k] ELSE Last(stack)]

\* The heading path at each token of page n, and before the first.
Paths(n, base) ==
    LET p == book[n]
        path[i \in 0 .. Len(p)] ==
            IF i = 0 THEN base
            ELSE IF p[i] = 0 THEN path[i - 1] ELSE Push(path[i - 1], p[i], <<n, i>>)
    IN  path

Headings(p) == {i \in DOMAIN p : p[i] > 0}
FirstOf(S, otherwise) == IF S = {} THEN otherwise ELSE CHOOSE i \in S : \A j \in S : i <= j

\* One section per heading that has a body; headings without one join the next.
Sections(n, base) ==
    LET p == book[n]
        heads == Headings(p)
        next(i) == FirstOf({j \in heads : j > i}, Len(p) + 1)
        runStart(i) == FirstOf({j \in heads : j <= i /\ j .. i \subseteq heads}, i)
        intro == FirstOf(heads, Len(p) + 1) - 1
    IN  (IF intro = 0 THEN {} ELSE {[lo |-> 1, hi |-> intro, path |-> base]})
        \cup {[lo |-> runStart(i), hi |-> next(i) - 1, path |-> Paths(n, base)[i]] :
                i \in {h \in heads : next(h) > h + 1}}

\* How far two paths agree.
Agreed(s, t) == {k \in 0 .. Len(s) : k <= Len(t) /\ \A i \in 1 .. k : s[i] = t[i]}
CommonPrefix(s, t) == SubSeq(s, 1, CHOOSE k \in Agreed(s, t) : \A m \in Agreed(s, t) : m <= k)

\* A section joins the one that ends before it as long as both stay within the
\* budget; what they are put under then is the path they share.
Merge(packed, s) ==
    LET joined == {q \in packed : q.hi + 1 = s.lo /\ s.hi - q.lo < Budget}
    IN  (packed \ joined) \cup
            IF joined = {} THEN {s}
            ELSE {[lo |-> q.lo, hi |-> s.hi, path |-> CommonPrefix(q.path, s.path)] : q \in joined}

\* The sections of a page, each merged where it ends.
Pack(sections, length) ==
    LET packed[i \in 0 .. length] ==
            IF i = 0 THEN {}
            ELSE LET ended == {s \in sections : s.hi = i}
                 IN  IF ended = {} THEN packed[i - 1] ELSE Merge(packed[i - 1], CHOOSE s \in ended : TRUE)
    IN  packed[length]

\* The windows over tokens lo .. hi: one every so many tokens, up to the first
\* that reaches the end.
WindowsEvery(step, lo, hi) ==
    LET n == hi - lo + 1
        starts == {t \in 0 .. n - 1 : (\E k \in 0 .. n - 1 : t = k * step) /\ (t = 0 \/ t + Budget < n + step)}
    IN  {[lo |-> lo + t, hi |-> IF t + Budget < n THEN lo + t + Budget - 1 ELSE hi] : t \in starts}
WindowsApart(lo, hi) == WindowsEvery(Step + 1, lo, hi)
Windows(lo, hi) == WindowsEvery(Step, lo, hi)

\* One turn of chunk_pages' loop; an empty page is skipped.
ChunkPage ==
    /\ page < Len(book) /\ page' = page + 1
    /\ LET n == page + 1
           path == Paths(n, carried)
           spans == IF cut.strategy = "section" THEN Pack(Sections(n, carried), Len(book[n]))
                    ELSE {[lo |-> 1, hi |-> Len(book[n]), path |-> carried]}
           attached(s, w) == IF ~cut.prefix THEN <<>>
                             ELSE IF cut.strategy = "section" THEN s.path ELSE path[w.lo]
       IN  IF book[n] = <<>> THEN UNCHANGED <<carried, pieces>>
           ELSE /\ pieces' = pieces \cup
                      UNION {{[page |-> n, lo |-> w.lo, hi |-> w.hi, path |-> attached(s, w)] :
                                w \in Windows(s.lo, s.hi)} : s \in spans}
                /\ carried' = IF cut.prefix \/ cut.strategy = "section" THEN path[Len(book[n])] ELSE carried
    /\ UNCHANGED <<book, cut>>

ChunkingNext == ChunkPage

-----------------------------------------------------------------------------
(***************************************************************************)
(* Properties                                                              *)
(***************************************************************************)
\* The words under one heading, with the headings that only lead to it.
Units(p) ==
    {u \in [lo : DOMAIN p, hi : DOMAIN p] :
        /\ \E w \in u.lo .. u.hi : /\ \A i \in u.lo .. w - 1 : p[i] > 0
                                  /\ \A i \in w .. u.hi : p[i] = 0
        /\ u.hi = Len(p) \/ p[u.hi + 1] > 0
        /\ u.lo = 1 \/ (p[u.lo] > 0 /\ p[u.lo - 1] = 0)}

\* Nothing that is written is lost to retrieval, no chunk is larger than asked
\* for, and cutting at headings never divides what fits into one chunk
\* (chunk_pages; _pack: "never across one").
ChunksCover ==
    \A n \in 1 .. page :
        LET here == {c \in pieces : c.page = n}
        IN  /\ \A i \in DOMAIN book[n] : book[n][i] = 0 => \E c \in here : i \in c.lo .. c.hi
            /\ \A c \in here : c.lo <= c.hi /\ c.hi - c.lo < Budget
            /\ cut.strategy = "section" =>
                  \A u \in Units(book[n]) :
                     u.hi - u.lo < Budget => \E c \in here : c.lo <= u.lo /\ u.hi <= c.hi

\* The headings that enclose token i of page n: no equal or higher one between.
Before(h, k) == h[1] < k[1] \/ (h[1] = k[1] /\ h[2] < k[2])
Places == UNION {{<<n, i>> : i \in Headings(book[n])} : n \in 1 .. Len(book)}
Level(h) == book[h[1]][h[2]]
Enclosing(n, i) ==
    LET sofar == {h \in Places : Before(h, <<n, i>>) \/ h = <<n, i>>}
    IN  {h \in sofar : \A k \in sofar : Before(h, k) => Level(k) > Level(h)}
OutlineOpensAtTop == Places # {} => \E h \in Places : Level(h) = 1 /\ \A k \in Places : ~Before(k, h)

\* "Attach the enclosing heading path" (chunking.py).  It is not so when an
\* outline opens with ### and goes on with ##: the first stays in the path.
PathsEnclose ==
    \A c \in pieces : cut.prefix =>
        /\ cut.strategy = "section" =>
              LET words == {i \in c.lo .. c.hi : book[c.page][i] = 0}
              IN  words # {} => Range(c.path) = {h \in Places : \A i \in words : h \in Enclosing(c.page, i)}
        /\ cut.strategy = "fixed" => Range(c.path) = Enclosing(c.page, c.lo)

\* The heading path put before a chunk names exactly the headings that enclose
\* all of its words, on whichever page they stand; a fixed window gets those in
\* effect where it starts.  That holds where the outline opens at level 1
\* (_page_paths, _sections, _path_at: two readings of the same headings).
PathsTrue == OutlineOpensAtTop => PathsEnclose

\* "joins the next section, so that the text stays contiguous" (_sections): a
\* page that ends in a heading has no next section, and the line is in no chunk.
HeadingsKept ==
    \A n \in 1 .. page : \A i \in Headings(book[n]) :
        \E c \in pieces : c.page = n /\ i \in c.lo .. c.hi
=============================================================================
