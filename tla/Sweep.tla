------------------------------- MODULE Sweep -------------------------------
(***************************************************************************)
(* The paid sweeps (eval/w6_run.py, eval/l3_run.py, eval/l3.py): every     *)
(* question is asked of an agent in every mode, and a row is appended to   *)
(* the file as soon as its episode ends, so that a sweep that dies can be  *)
(* resumed without paying twice.  What w6_run calls a mode is in l3_run a  *)
(* condition of an experiment and its replicate; l3_run does not stop at   *)
(* three failures.                                                         *)
(*                                                                         *)
(* Time is counted in work and in sleep: a call of the model or of a       *)
(* server takes one unit of work, and the throttle that both share         *)
(* (throttle.py, _install_throttled_generation) may sleep one first.       *)
(* Which questions a limit takes is graded in Scoring.                     *)
(***************************************************************************)
EXTENDS Scoring

CONSTANTS
    Modes,              \* the sequence of modes; the first one answers on the server
    Items,              \* the questions of the dataset: a sequence of [id, type]
    Take,               \* what --limit may be: 0 is all
    Conditions,         \* what an experiment is run under (model, prompt, commit)
    MaxTurns, CallCap,  \* of an episode
    Tries,              \* of a call that is rate limited
    MaxProcesses        \* bound: processes that run

ASSUME SweepBounds == /\ {MaxTurns, CallCap, Tries, MaxProcesses} \subseteq Nat \ {0}
                      /\ Take \subseteq Nat

\* The file of questions gives every question an id of its own, the list of
\* modes every mode one place.
ASSUME SweepKeys == /\ Modes \in Seq(ToSet(Modes)) /\ Items \in Seq(ToSet(Items))
                    /\ \A i, j \in DOMAIN Modes : Modes[i] = Modes[j] => i = j
                    /\ \A i, j \in DOMAIN Items : Items[i].id = Items[j].id => i = j

VARIABLES
    file,       \* the rows: [mode, item, failed, under, cost]
    torn,       \* the last line of the file is half a line
    sweep,      \* the process
    episode,    \* the episode it is in
    answered,   \* the account's mcp_answer traces: the generations the server paid for
    processes   \* how many have been started

sweeping == <<file, torn, sweep, episode, answered, processes>>

NoSweep == [phase |-> "none"]
NoEpisode == [phase |-> "none"]

SweepInit ==
    /\ file = <<>> /\ torn = FALSE /\ processes = 0 /\ answered = 0
    /\ sweep = NoSweep /\ episode = NoEpisode

-----------------------------------------------------------------------------
Key(row) == <<row.mode, row.item>>

\* The keys a resumed sweep skips (a version that looks at the question only).
DoneItems(rows) == {<<m, rows[n].item>> : m \in ToSet(Modes), n \in DOMAIN rows}
Done(rows) == {Key(rows[n]) : n \in DOMAIN rows}

\* --limit deals the types out in turn.
Taken(limit) == Stratified([n \in DOMAIN Items |-> Items[n].type], limit)

\* The places of the two loops, mode by mode, and what of them is left.
KeyAt(p) == <<Modes[p[1]], Items[p[2]].id>>
Before(p, q) == p[1] < q[1] \/ (p[1] = q[1] /\ p[2] < q[2])
Left(limit, done) == {p \in (DOMAIN Modes) \X Taken(limit) : KeyAt(p) \notin done}
Current == CHOOSE p \in sweep.left : \A q \in sweep.left \ {p} : Before(p, q)

Process(limit, under, done) ==
    [phase |-> "next", limit |-> limit, under |-> under, left |-> Left(limit, done), failures |-> 0]

\* A file that exists is only taken with --resume, and read to its last line.
StartSweep ==
    /\ sweep.phase \in {"none", "over"} /\ processes < MaxProcesses
    /\ \E limit \in Take, under \in Conditions, resume \in BOOLEAN :
         /\ (file # <<>> \/ torn) => resume /\ ~torn
         /\ sweep' = Process(limit, under, Done(file))
    /\ processes' = processes + 1
    /\ UNCHANGED <<file, torn, episode, answered>>

\* An episode: the agent's turns, the calls it makes, what they cost.
Begin ==
    /\ sweep.phase = "next" /\ sweep.left # {}
    /\ sweep' = [sweep EXCEPT !.phase = "asking"]
    /\ episode' = [phase |-> "model", turns |-> 0, calls |-> 0, errors |-> 0, todo |-> 0, tries |-> 0,
                   wall |-> 0, slept |-> 0, served |-> 0, server |-> 0,
                   since |-> answered]
    /\ UNCHANGED <<file, torn, answered, processes>>

\* A call of a model waits for its turn first; the throttle counts the wait.
Pace == {0, 1}
Wait(e, pace) == [e EXCEPT !.wall = @ + pace, !.slept = @ + pace]

\* The model answers (the end), or asks for calls of tools.
Think ==
    /\ sweep.phase = "asking" /\ episode.phase = "model"
    /\ \E pace \in Pace, asks \in 0 .. 2 :
         episode' = [Wait(episode, pace) EXCEPT !.turns = @ + 1, !.tries = 0, !.todo = asks, !.wall = @ + 1,
                                                !.phase = IF asks = 0 THEN "over" ELSE "tool"]
    /\ UNCHANGED <<file, torn, sweep, answered, processes>>

\* A call of the model that is rate limited sleeps and is tried again; the
\* sleep is the retry's, not the throttle's.  Any other failure, and the last
\* of the tries, ends the process.
Limited ==
    /\ sweep.phase = "asking" /\ episode.phase = "model" /\ episode.tries + 1 < Tries
    /\ episode' = [episode EXCEPT !.tries = @ + 1, !.wall = @ + 1]
    /\ UNCHANGED <<file, torn, sweep, answered, processes>>

\* In the first mode the server generates inside the call of the tool, at the
\* pace of the same throttle,
InServer == Current[1] = 1
ServerPace == IF InServer THEN Pace ELSE {0}

\* and the call, an error too, is timed and kept where it is made.
Recorded(e, error, pace) ==
    [Wait(e, pace) EXCEPT !.calls = @ + 1, !.errors = @ + (IF error THEN 1 ELSE 0),
                          !.wall = @ + 1, !.served = @ + pace + 1, !.server = @ + 1]

\* A tool is called; past the cap the episode is cut short.  What the server
\* generates leaves a trace, unless the call failed before or the trace did.
Call ==
    /\ sweep.phase = "asking" /\ episode.phase = "tool"
    /\ IF episode.calls >= CallCap THEN episode' = [episode EXCEPT !.phase = "over"] /\ UNCHANGED answered
       ELSE \E pace \in ServerPace, error \in BOOLEAN :
              /\ answered' \in {answered} \cup (IF InServer THEN {answered + 1} ELSE {})
              /\ episode' = [Recorded(episode, error, pace) EXCEPT !.todo = @ - 1,
                               !.phase = IF episode.todo > 1 THEN "tool"
                                         ELSE IF episode.turns = MaxTurns THEN "over" ELSE "model"]
    /\ UNCHANGED <<file, torn, sweep, processes>>

\* What the server generated is counted in the account's traces, by their time.
ServerTokensOfAll(e) == IF InServer THEN answered ELSE 0
ServerTokens(e) == IF InServer THEN answered - e.since ELSE 0

\* The time of the server, that of the agent, and both without the pacing.
Latency(e) == [server |-> e.served, agent |-> Max({e.wall - e.slept - e.served, 0}), total |-> e.wall - e.slept]

Row(e) ==
    [mode |-> KeyAt(Current)[1], item |-> KeyAt(Current)[2], under |-> sweep.under,
     failed |-> e.calls > 0 /\ e.errors = e.calls, cost |-> ServerTokens(e)]

\* The episode's row is appended; three failures in a row, in one mode, end
\* the process.
Write ==
    /\ sweep.phase = "asking" /\ episode.phase = "over"
    /\ LET row == Row(episode)
           failures == IF row.failed THEN sweep.failures + 1 ELSE 0
           rest == sweep.left \ {Current}
       IN  /\ file' = Append(file, row)
           /\ sweep' = IF failures >= 3 THEN [phase |-> "over"]
                       ELSE [sweep EXCEPT !.phase = "next", !.left = rest,
                            !.failures = IF \E p \in rest : p[1] = Current[1] THEN failures ELSE 0]
    /\ episode' = NoEpisode
    /\ UNCHANGED <<torn, answered, processes>>

\* The last row is there: the tables are printed.
Report ==
    /\ sweep.phase = "next" /\ sweep.left = {}
    /\ sweep' = [sweep EXCEPT !.phase = "over"]
    /\ UNCHANGED <<file, torn, episode, answered, processes>>

\* The process dies: of a refusal of the provider, a signal, the machine -
\* and a row it was writing may be there in part.
Crash ==
    /\ sweep.phase \in {"next", "asking"} /\ sweep' = [phase |-> "over"] /\ episode' = NoEpisode
    /\ torn' \in IF episode.phase = "over" THEN BOOLEAN ELSE {FALSE}
    /\ UNCHANGED <<file, answered, processes>>

SweepNext == StartSweep \/ Begin \/ Think \/ Limited \/ Call \/ Write \/ Report \/ Crash

-----------------------------------------------------------------------------
Costs == [n \in DOMAIN file |-> file[n].cost]

\* What is paid is paid once: whatever dies and is resumed, under whatever
\* --limit, no question has two rows in a mode, and no episode is begun for a
\* question that has its row; and when the tables are printed every mode has
\* a row of exactly the same questions, those that were asked.  What the
\* server generated is in the costs of one row at most - also what an episode
\* generated that died before its row - and never in those of the other mode.
SweepExact ==
    /\ \A i, j \in DOMAIN file : Key(file[i]) = Key(file[j]) => i = j
    /\ sweep.phase = "asking" => KeyAt(Current) \notin Done(file)
    /\ sweep.phase = "over" /\ "limit" \in DOMAIN sweep =>
         \A m \in ToSet(Modes), n \in Taken(sweep.limit) : <<m, Items[n].id>> \in Done(file)
    /\ MapThenSumSet(LAMBDA n : Costs[n], DOMAIN file) <= answered
    /\ \A n \in DOMAIN file : file[n].mode # Modes[1] => file[n].cost = 0

\* What the code does not keep.  w6_run.py:548-562: three failures in a row
\* are of the environment, repair it and resume, or the rest goes into the
\* tables as questions without an answer.  But the three have their rows.
FailuresAreAskedAgain ==
    sweep.phase = "over" /\ "limit" \in DOMAIN sweep =>
        ~\E n \in DOMAIN file : n + 2 \in DOMAIN file
            /\ \A k \in n .. n + 2 : file[k].failed /\ file[k].mode = file[n].mode

\* l3_run.py:114-116 (and _check_budget of W6): half a sweep under other
\* conditions is another experiment.  But a row's conditions are no part of
\* its key, and the tables carry those of the first row.
OneExperiment == \A i, j \in DOMAIN file : file[i].under = file[j].under

\* w6.py:502-506: the pacing is taken out of the latencies.  But the time of
\* a tool holds the wait of the generation inside it, and that wait is taken
\* from the agent's time instead; and the sleeps of a retry stay in it.
PacingIsTakenOut ==
    episode.phase = "over" => Latency(episode) = [server |-> episode.server, agent |-> episode.turns,
                                                  total |-> episode.server + episode.turns]
=============================================================================
