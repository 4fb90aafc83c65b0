---------------------------- MODULE MCEvaluation ----------------------------
(* Small instances of the four parts of the evaluation. *)
EXTENDS Evaluation, TLC

CONSTANTS q1

MCSplit == q1 :> "tune"
MCDocs == [spec |-> <<"spec-1", "spec-2">>, eval |-> <<"eval-1">>]
MCSweepDocs == <<"sweep-1">>
Cutting(s, p) == [strategy |-> s, prefix |-> p]
MCCut == {Cutting("section", FALSE), Cutting("section", TRUE)}
Rung(c) == [cut |-> c, config |-> "dense"]
MCLadder == <<Rung(Cutting("section", FALSE)), Rung(Cutting("section", TRUE)), Rung(Cutting("section", TRUE))>>
MCConfigLists == {<<"dense">>}

MCModes == <<"server", "client">>
MCItems == <<[id |-> "i1", type |-> 2], [id |-> "i2", type |-> 2], [id |-> "i3", type |-> 1]>>

MCAnswers == <<[id |-> "i1", type |-> "fact"], [id |-> "i2", type |-> "none"]>>
MCDims == "fact" :> {"grounded", "correct"} @@ "none" :> {"grounded"}

\* Pages of up to four letters and of up to two, cut into windows.
Texts(k) == UNION {[1 .. n -> 1 .. 2] : n \in 1 .. k}
WindowsOf(text, page, size, step) ==
    [n \in 1 .. (Len(text) + step - 1) \div step |->
        [page |-> page, at |-> 1 + (n - 1) * step, size |-> Min({size, Len(text) - (n - 1) * step})]]
MCGoldSheets ==
    {[pages |-> <<p, q>>, snippet |-> s,
      chunks |-> WindowsOf(p, 1, w[1], w[2]) \o WindowsOf(q, 2, w[1], w[2])] :
        p \in Texts(4), q \in Texts(2), w \in {<<2, 1>>, <<3, 2>>, <<2, 2>>},
        s \in Texts(2) \cup {<<1, 0, 2>>, <<1, 0, 1>>}}
MCPage == {"d", "e"} \X {1, 2}
=============================================================================
