---------------------------- MODULE MCWebClient ----------------------------
(* Small instances of the four parts of the web client. *)
EXTENDS WebClient

CONSTANTS A, d1, k1, k2

MCStored == {A}
MCItem == {d1}
MCFetch == {1, 2}
MCAsk == {1, 2}

\* One-line and two-line frames, and a comment, which is not a frame.
MCBodies == {<<<<"a">>>>, <<<<"a", "b">>, <<":">>>>, <<<<"a">>, <<":">>, <<"b", "c">>>>}

Citation(chunk, from, to) == [chunk |-> chunk, from |-> from, to |-> to]
MCCited == {<<>>,
            <<Citation(k1, 1, 2), Citation(k2, 2, 3)>>,
            <<Citation(k1, 0, 0), Citation(k2, 1, 1)>>,
            <<Citation(k1, 1, 1), Citation(k1, 2, 2), Citation(k2, 3, 3)>>}
MCTexts == {<<>>, <<2, 3, 1>>, <<4, 2, 2>>}
=============================================================================
