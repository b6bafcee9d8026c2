----------------------------- MODULE Evaluation -----------------------------
(***************************************************************************)
(* The mutation runner (tools/mutate.py) over the harness: it checks that  *)
(* every anchor of the catalogue applies, runs the harness on an unmutated *)
(* copy and then on one copy per selected mutation, one after another in a *)
(* work directory it keeps, and reads a verdict from each report.          *)
(*                                                                         *)
(* What a mutated package passes is open: any package of Packages.         *)
(***************************************************************************)
EXTENDS Harness, MutationCatalogue

CONSTANTS Invocations,    \* the argument sets the runner is started with
          MaxInvocations, \* bound: how often it is started
          MaxByHand       \* bound: runs of run.py by hand

VARIABLES tool,   \* the runner; todo holds places in MUTATIONS, mutation is the
                  \* place of the one that is run, 0 that of the control
          saved   \* the JSON files it wrote: a sequence of their rows

vars == <<harnessVars, tool, saved>>

Control == "_control"
ByHand == "score"

InvocationType ==
    [reference : BOOLEAN, drifted : SUBSET STRING,
     only : SUBSET STRING, oracle : BOOLEAN, freshSeed : BOOLEAN,
     skipSlow : BOOLEAN, baseline : BOOLEAN]

\* The control's row is told from a mutation's by its name.
ASSUME ControlAssumption == Control \notin Catalogued

ASSUME InvocationsAssumption == Invocations \subseteq InvocationType

\* The runner is not running: how it ended, and how often it was started.
Idle(exit, started) ==
    [pc |-> "idle", todo |-> {}, mutation |-> 0, rows |-> <<>>, exit |-> exit,
     started |-> started]

-----------------------------------------------------------------------------
\* The verdict.

NoCase(counts) == Passed(counts) = 0
Broke(counts) == {c \in Channels : counts[c] < CHANNELS[c]}

\* Mutant: a row with no case passed is judged before one that timed out.
verdictLossFirst(counts, mutation, row) ==
    IF row.sansio THEN [word |-> "sans-io gate", missed |-> {}]
    ELSE IF NoCase(counts) THEN [word |-> "total loss", missed |-> {}]
    ELSE IF row.timed_out THEN [word |-> "timed out", missed |-> {}]
    ELSE IF Broke(counts) = {} THEN [word |-> "no effect", missed |-> {}]
    ELSE [word |-> "broken", missed |-> mutation.aims \ Broke(counts)]

\* verdict: a word for the row, and the channels it was aimed at in vain.
verdict(counts, mutation, row) ==
    IF row.sansio THEN [word |-> "sans-io gate", missed |-> {}]
    ELSE IF row.timed_out THEN [word |-> "timed out", missed |-> {}]
    ELSE IF Passed(counts) = TOTAL_CASES
         THEN [word |-> "no effect", missed |-> {}]
    ELSE IF NoCase(counts) THEN [word |-> "total loss", missed |-> {}]
    ELSE [word |-> "broken", missed |-> mutation.aims \ Broke(counts)]

\* run_harness: what a row is made from.  With no report the counts are zero,
\* and after a timeout the report is not read.
NoReport(i) ==
    [timed_out |-> FALSE, aborted |-> FALSE, sansio |-> FALSE, counts |-> None,
     of |-> 0, run |-> i]
ReadReport(i) ==
    LET p == report[runs[i].target]
    IN  IF p.by = 0 THEN NoReport(i)
        ELSE [timed_out |-> FALSE, aborted |-> p.kind = "aborted",
              sansio |-> p.kind = "sansio", counts |-> p.counts,
              of |-> p.of, run |-> i]
\* Mutant: the report is read after a timeout too.
TimedOutReading(i) == [ReadReport(i) EXCEPT !.timed_out = TRUE]
TimedOut(i) == [NoReport(i) EXCEPT !.timed_out = TRUE]

\* The row keeps what the verdict was read from, for --rerender.
RowOf(mutation, payload) ==
    LET v == verdict(payload.counts, mutation, payload)
    IN  [name |-> mutation.name, counts |-> payload.counts, verdict |-> v.word,
         missed |-> v.missed, timed_out |-> payload.timed_out,
         aborted |-> payload.aborted, sansio |-> payload.sansio,
         of |-> payload.of, run |-> payload.run]

-----------------------------------------------------------------------------
\* The runner's steps.

\* check_anchors looks at the whole catalogue, not at the selection.
check_anchors(drifted) ==
    {i \in DOMAIN MUTATIONS : MUTATIONS[i].files \cap drifted # {}}

Mutation(m) ==
    IF m = 0 THEN [name |-> Control, aims |-> {}, files |-> {}, slow |-> FALSE]
    ELSE MUTATIONS[m]

Selected(args) ==
    {m \in DOMAIN MUTATIONS : /\ args.only # {} => MUTATIONS[m].name \in args.only
                              /\ args.skipSlow => ~MUTATIONS[m].slow}

Refused(args) ==
    \/ ~args.reference
    \/ check_anchors(args.drifted) # {}
    \/ ~(args.only \subseteq Catalogued)
    \/ ~args.oracle
    \/ ~args.freshSeed
RefusedWith(args) ==
    IF args.reference /\ check_anchors(args.drifted) # {} THEN 1 ELSE 2

\* Every run the runner may start has its report and its JUnit file.
ASSUME TargetsAssumption ==
    /\ {Control, ByHand} \subseteq Targets
    /\ \A args \in Invocations :
          Refused(args) \/ \A m \in Selected(args) : MUTATIONS[m].name \in Targets

Begin ==
    /\ tool.pc = "idle"
    /\ tool.started < MaxInvocations
    /\ \A i \in DOMAIN runs : runs[i].target # ByHand
    /\ \E args \in Invocations :
          tool' =
            IF Refused(args)
            THEN Idle(RefusedWith(args), tool.started + 1)
            ELSE LET todo == (IF args.baseline THEN {0} ELSE {}) \cup Selected(args)
                 IN  IF Len(runs) + Cardinality(todo) > MaxRuns THEN tool
                     ELSE [pc |-> "next", todo |-> todo, mutation |-> 0, rows |-> <<>>,
                           exit |-> 0, started |-> tool.started + 1]
    /\ UNCHANGED <<harnessVars, saved>>

\* A fresh copy of the next in order, the edits, and run.py on it.  An unmutated copy passes
\* everything unless the machine is at fault; a copy is always there, and the
\* seed was checked.
StartNext ==
    /\ tool.pc = "next"
    /\ \E m \in tool.todo :
          /\ \A n \in tool.todo : m <= n
          /\ tool' = [tool EXCEPT !.pc = "waiting", !.todo = @ \ {m}, !.mutation = m]
          /\ \E p \in Packages :
                p.there /\ p.freshSeed /\ StartRun(Mutation(m).name, p)
    /\ UNCHANGED <<junit, report, saved>>

Current == Len(runs)

TakeRow(payload) ==
    LET mutation == Mutation(tool.mutation)
        rest == [tool EXCEPT !.pc = "next", !.mutation = 0]
    IN  tool' =
          IF mutation.name # Control
          THEN [rest EXCEPT !.rows = Append(@, RowOf(mutation, payload))]
          ELSE IF Passed(payload.counts) = TOTAL_CASES
          THEN [rest EXCEPT !.rows =
                  Append(@, [RowOf(mutation, payload) EXCEPT !.verdict = "-"])]
          ELSE Idle(1, tool.started)

RunOver ==
    /\ tool.pc = "waiting"
    /\ runs[Current].at = "left"
    /\ TakeRow(ReadReport(Current))
    /\ UNCHANGED <<harnessVars, saved>>

\* Mutant: a slow mutation runs without a timeout.
TimeOutUnlessSlow ==
    /\ tool.pc = "waiting"
    /\ runs[Current].at # "left"
    /\ ~Mutation(tool.mutation).slow
    /\ KillRun(Current)
    /\ TakeRow(TimedOut(Current))
    /\ UNCHANGED <<junit, report, saved>>
\* DEFAULT_TIMEOUT, or SLOW_TIMEOUT for a slow mutation: it may pass at any
\* time before run.py is over.
TimeOut ==
    /\ tool.pc = "waiting"
    /\ runs[Current].at # "left"
    /\ KillRun(Current)
    /\ TakeRow(TimedOut(Current))
    /\ UNCHANGED <<junit, report, saved>>

Finish ==
    /\ tool.pc = "next"
    /\ tool.todo = {}
    /\ saved' = Append(saved, tool.rows)
    /\ tool' = Idle(0, tool.started)
    /\ UNCHANGED harnessVars

\* --rerender: the rows of saved files, a later file's row replacing an
\* earlier one's, judged again with the counts they carry.
rerender(files) ==
    LET all == UNION {{<<k, j>> : j \in DOMAIN files[k]} : k \in DOMAIN files}
        later(x, y) ==
            /\ files[x[1]][x[2]].name = files[y[1]][y[2]].name
            /\ x[1] > y[1] \/ (x[1] = y[1] /\ x[2] > y[2])
        kept == {x \in all : \A y \in all : ~later(y, x)}
        again(row) ==
            IF row.name = Control THEN row
            ELSE LET v == verdict(row.counts, by_name(row.name), row)
                 IN  [row EXCEPT !.verdict = v.word, !.missed = v.missed]
    IN  {again(files[x[1]][x[2]]) : x \in kept}

\* Someone runs run.py by hand, on any package, again and again on the same
\* report (bound: instead of the runner, whose files are others).
RunByHand ==
    /\ tool.pc = "idle"
    /\ tool.started = 0
    /\ Len(runs) < MaxByHand
    /\ \A i \in DOMAIN runs : runs[i].at = "left"
    /\ \E p \in Packages : StartRun(ByHand, p)
    /\ UNCHANGED <<junit, report, tool, saved>>

Harness == \E i \in DOMAIN runs : RunStep(i) /\ UNCHANGED <<tool, saved>>
Session == \E i \in DOMAIN runs : SessionStep(i) /\ UNCHANGED <<tool, saved>>
Tool == StartNext \/ RunOver \/ TimeOut \/ Finish

EvalInit == Init /\ tool = Idle(0, 0) /\ saved = <<>>
EvalNext == Begin \/ Tool \/ RunByHand \/ Harness \/ Session

\* run.py and the runner make progress; a session may hang for ever (without
\* the pytest-timeout plugin the bound per case is inert, harness/pytest.ini).
Spec == EvalInit /\ [][EvalNext]_vars /\ WF_vars(Harness) /\ WF_vars(Tool)

-----------------------------------------------------------------------------
\* Properties.

Rows == {tool.rows[k] : k \in DOMAIN tool.rows}
            \cup UNION {{saved[f][k] : k \in DOMAIN saved[f]} : f \in DOMAIN saved}

TypeOK ==
    /\ \A i \in DOMAIN runs :
          /\ runs[i].target \in Targets
          /\ runs[i].at \in {"gates", "starting", "cases", "over", "left"}
          /\ runs[i].at = "over" => runs[i].waited
    /\ \A t \in Targets :
          /\ junit[t].by \in 0 .. Len(runs)
          /\ report[t].by \in 0 .. Len(runs)
    /\ tool.pc \in {"idle", "next", "waiting"}
    /\ tool.todo \cup {tool.mutation} \subseteq {0} \cup DOMAIN MUTATIONS
    /\ tool.pc = "waiting" => runs[Current].target = Mutation(tool.mutation).name

\* The cases a row counts are those of the run started for it, unless that
\* run's session died without writing its file, or a run of the same name had
\* timed out before and its session was still going (tools/mutate.py removes
\* the old package, not the old report or JUnit file).
RowsAreOwn ==
    \A row \in Rows :
        \/ row.of \in {0, row.run}
        \/ runs[row.run].died
        \/ \E j \in 1 .. row.run - 1 :
              runs[j].target = runs[row.run].target /\ ~runs[j].waited

\* A row that counts its own run's cases is judged by what the package does:
\* "no effect" when it passes every case, "sans-io gate" when its parser is
\* not sans-io, and "total loss" only when it passes none of them or nothing
\* was measured.  A timed-out run is never judged by counts.
JudgedTruly(row) ==
    LET run == runs[row.run]
    IN  /\ row.timed_out <=> ~run.waited
        /\ row.timed_out => row.verdict = "timed out"
        /\ row.of = row.run /\ row.verdict # "-" =>
              /\ row.verdict = "no effect" => run.package.passes = CHANNELS
              /\ row.verdict = "sans-io gate" <=> ~run.package.sansio
              /\ row.verdict = "total loss" =>
                    \/ Passed(run.package.passes) = 0
                    \/ run.gate # "open" \/ run.code = 2

\* Judging saved rows again under the same catalogue changes none of them
\* ("--rerender ... The counts are whatever the saved run measured").
RerenderAgrees ==
    \A f \in DOMAIN saved :
        rerender(<<saved[f]>>) = {saved[f][k] : k \in DOMAIN saved[f]}

\* Verdicts are true of what was run, when they are given and when they are
\* read off a saved file again.
VerdictsTrue == (\A row \in Rows : JudgedTruly(row)) /\ RerenderAgrees

\* However its sessions hang, the runner comes to an end.
ToolEnds == tool.pc # "idle" ~> tool.pc = "idle"

\* run.py: an aborting gate "must not read as a score"; a row whose run was
\* aborted is not a verdict on the cases.
AbortsAreNotScores ==
    \A row \in Rows : row.aborted => row.verdict # "total loss"

\* run.py: "a process exit code that is zero only when every case passed".
ZeroOnlyWhenAllPassed ==
    \A i \in DOMAIN runs :
        runs[i].at = "left" /\ runs[i].waited /\ runs[i].exit = 0
            => ~runs[i].died /\ runs[i].package.passes = CHANNELS

\* What holds of that promise: a run exits with zero only when every case passed,
\* or its session died and left an earlier file to be read, or a session of the
\* same name had outlived its run.py.
ZeroIsEarned ==
    \A i \in DOMAIN runs :
        runs[i].at = "left" /\ runs[i].waited /\ runs[i].exit = 0 =>
            \/ runs[i].package.passes = CHANNELS
            \/ runs[i].died
            \/ \E j \in 1 .. i - 1 :
                  runs[j].target = runs[i].target /\ ~runs[j].waited
=============================================================================
