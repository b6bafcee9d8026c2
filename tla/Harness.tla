------------------------------- MODULE Harness -------------------------------
(***************************************************************************)
(* The harness orchestrator (harness/run.py) and the pytest session it     *)
(* starts (harness/conftest.py).  The two are processes: the session runs  *)
(* the cases and writes a JUnit file, run.py waits for it, reads the file  *)
(* and writes a JSON report.  Both files keep their name from one run to   *)
(* the next and neither is removed before a run, and a session goes on     *)
(* when the run.py that started it is killed.                              *)
(*                                                                         *)
(* A case is not modelled: what the package under test passes per channel  *)
(* is a property of the package.                                           *)
(***************************************************************************)
EXTENDS Sequences, Integers, FiniteSets

CONSTANTS Targets,   \* report names: one report and one JUnit file for each
          Packages,  \* the packages under test, see PackageType
          MaxRuns,   \* bound: run.py processes
          MaxDeaths  \* bound: sessions that die without writing their file

VARIABLES runs,      \* the run.py processes started so far, with their session
          junit,     \* target -> the JUnit file on disk
          report     \* target -> the JSON report on disk

harnessVars == <<runs, junit, report>>

CHANNELS == [oracle |-> 55, chunking |-> 22, pool |-> 22, caching |-> 20,
             resource |-> 11]
Channels == DOMAIN CHANNELS
Passed(counts) == counts.oracle + counts.chunking + counts.pool + counts.caching
                      + counts.resource
TOTAL_CASES == Passed(CHANNELS)
None == [c \in Channels |-> 0]

Tallies == {counts \in [Channels -> 0 .. TOTAL_CASES] :
               \A c \in Channels : counts[c] <= CHANNELS[c]}

\* A package, and how it was asked for: is it there, is its parser sans-io,
\* does it import from where --client says, is the seed fresh, is redis-py out
\* of reach and as recorded, and what its cases pass.
PackageType == [there : BOOLEAN, sansio : BOOLEAN, imports : BOOLEAN,
                freshSeed : BOOLEAN, passes : Tallies]
ASSUME PackagesAssumption == Packages \subseteq PackageType

EXIT_ISOLATION == 3
EXIT_PROBE_MISMATCH == 4
EXIT_WRONG_CLIENT == 5
\* pytest's own codes for an internal error, a usage error (the seed checks of
\* pytest_sessionstart raise one) and no collected case are 3, 4 and 5 too.
INTERNAL_ERROR == 3
USAGE_ERROR == 4
Killed == -9

NoFile == [by |-> 0]

Init ==
    /\ runs = <<>>
    /\ junit = [t \in Targets |-> NoFile]
    /\ report = [t \in Targets |-> NoFile]

-----------------------------------------------------------------------------
\* run.py.

StartRun(t, package) ==
    runs' = Append(runs, [target |-> t, package |-> package, at |-> "gates",
                          waited |-> TRUE, code |-> 0, exit |-> 0,
                          gate |-> "open", died |-> FALSE])

\* emit: the report of run i, whatever the file held before.
Emit(i, payload) ==
    report' = [report EXCEPT ![runs[i].target] = payload]

Payload(i, kind, score, counts) ==
    [by |-> i, kind |-> kind, score |-> score,
     counts |-> counts, of |-> i]

\* A gate's own exit aborts: no score, and no channels in the payload.
Aborted(i) == Payload(i, "aborted", -1, None)
Scored(i, file) ==
    [Payload(i, "scored", Passed(file.counts), file.counts)
        EXCEPT !.of = file.by]

Leave(i, exit) == runs' = [runs EXCEPT ![i].at = "left", ![i].exit = exit]

NoPackage(i) ==
    /\ runs[i].at = "gates"
    /\ ~runs[i].package.there
    /\ Emit(i, [Aborted(i) EXCEPT !.score = 0])
    /\ Leave(i, 2)
    /\ UNCHANGED junit

SansioGate(i) ==
    /\ runs[i].at = "gates"
    /\ runs[i].package.there
    /\ ~runs[i].package.sansio
    /\ Emit(i, Payload(i, "sansio", 0, None))
    /\ Leave(i, 1)
    /\ UNCHANGED junit

Spawn(i) ==
    /\ runs[i].at = "gates"
    /\ runs[i].package.there
    /\ runs[i].package.sansio
    /\ runs' = [runs EXCEPT ![i].at = "starting"]
    /\ UNCHANGED <<junit, report>>

\* Mutant: the wrong client is not among the codes that abort.
GateExitsWithoutClient == {EXIT_ISOLATION, EXIT_PROBE_MISMATCH}
GateExits == {EXIT_ISOLATION, EXIT_PROBE_MISMATCH, EXIT_WRONG_CLIENT}

\* The session is over and run.py is still waiting for it.
Abort(i) ==
    /\ runs[i].at = "over"
    /\ runs[i].waited
    /\ runs[i].code \in GateExits
    /\ Emit(i, Aborted(i))
    /\ Leave(i, runs[i].code)
    /\ UNCHANGED junit

\* parse_junit: no file is an empty tally, and whatever file is there is read.
parse_junit(t) ==
    IF junit[t].by = 0 THEN [by |-> 0, torn |-> FALSE, counts |-> None]
    ELSE junit[t]

Score(i) ==
    LET file == parse_junit(runs[i].target)
        all == Passed(file.counts) = TOTAL_CASES
    IN  /\ runs[i].at = "over"
        /\ runs[i].waited
        /\ runs[i].code \notin GateExits
        /\ ~file.torn
        /\ Emit(i, Scored(i, file))
        /\ Leave(i, IF all THEN 0 ELSE 1)
        /\ UNCHANGED junit

\* A torn JUnit file does not parse: run.py ends in a traceback, unreported.
Unparsed(i) ==
    /\ runs[i].at = "over"
    /\ runs[i].waited
    /\ runs[i].code \notin GateExits
    /\ parse_junit(runs[i].target).torn
    /\ Leave(i, 1)
    /\ UNCHANGED <<junit, report>>

\* Mutant: a run that was still at its gates, or had only to read its
\* session's file, is not stopped by the kill.
KillRunLate(i) == runs' = [runs EXCEPT ![i].waited = FALSE]
\* Whoever started run.py kills it; a session it had started goes on.
KillRun(i) ==
    runs' = [runs EXCEPT ![i].waited = FALSE,
                         ![i].at = IF @ \in {"gates", "over"} THEN "left" ELSE @]

RunStep(i) ==
    NoPackage(i) \/ SansioGate(i) \/ Spawn(i) \/ Abort(i) \/ Score(i)
        \/ Unparsed(i)

-----------------------------------------------------------------------------
\* The pytest session of run i.

End(i, code, gate) ==
    runs' = [runs EXCEPT ![i].at = IF runs[i].waited THEN "over" ELSE "left",
                         ![i].code = code, ![i].gate = gate]

Writes(i, counts) ==
    junit' = [junit EXCEPT ![runs[i].target] =
                 [by |-> i, torn |-> FALSE, counts |-> counts]]

\* pytest_sessionstart: the seed, then the origin of the package.  A session
\* that does not start writes no file.
SessionStart(i) ==
    /\ runs[i].at = "starting"
    /\ IF ~runs[i].package.freshSeed THEN End(i, USAGE_ERROR, "seed")
       ELSE IF ~runs[i].package.imports
            THEN End(i, EXIT_WRONG_CLIENT, "client")
            ELSE runs' = [runs EXCEPT ![i].at = "cases"]
    /\ UNCHANGED <<junit, report>>

\* Every case ran: 0 when all passed, 1 otherwise.
CasesOver(i) ==
    /\ runs[i].at = "cases"
    /\ Writes(i, runs[i].package.passes)
    /\ End(i, IF runs[i].package.passes = CHANNELS THEN 0 ELSE 1, "open")
    /\ UNCHANGED report

\* A channel module does not import from the package: nothing runs.
CollectionFails(i) ==
    /\ runs[i].at = "cases"
    /\ Writes(i, None)
    /\ End(i, 2, "open")
    /\ UNCHANGED report

\* isolation_checked, or the check after each case; the probe, at the first
\* case that asks for the oracle; an error in a hook.  The file holds what had
\* passed by then: nothing, or everything but the last channel.
Interrupted(i) ==
    /\ runs[i].at = "cases"
    /\ \E counts \in {None, [runs[i].package.passes EXCEPT !.resource = 0]} :
          Writes(i, counts)
    /\ \/ End(i, EXIT_ISOLATION, "isolation")
       \/ End(i, EXIT_PROBE_MISMATCH, "probe")
       \/ End(i, INTERNAL_ERROR, "internal")
    /\ UNCHANGED report

\* The session dies (a signal, no memory, no pytest): before its file is
\* written, or halfway through it.
Die(i) ==
    /\ runs[i].at \in {"starting", "cases"}
    /\ Cardinality({j \in DOMAIN runs : runs[j].died}) < MaxDeaths
    /\ runs' = [runs EXCEPT ![i].at = IF @ # "left" /\ runs[i].waited
                                      THEN "over" ELSE "left",
                            ![i].code = Killed, ![i].died = TRUE]
    /\ \/ UNCHANGED junit
       \/ /\ runs[i].at = "cases"
          /\ junit' = [junit EXCEPT ![runs[i].target] =
                          [by |-> i, torn |-> TRUE, counts |-> None]]
    /\ UNCHANGED report

SessionStep(i) ==
    SessionStart(i) \/ CasesOver(i) \/ CollectionFails(i) \/ Interrupted(i)
        \/ Die(i)

-----------------------------------------------------------------------------
\* A session that a gate, a usage error or an internal error ended is never
\* reported as a score, and every run without one that is reported as aborted
\* had no package to run (run.py: "must not read as a score").
GatesAbort ==
    \A t \in Targets :
        LET p == report[t]
        IN  p.by # 0 =>
              /\ runs[p.by].gate # "open" => p.kind = "aborted" /\ p.score = -1
              /\ p.kind = "aborted" =>
                    runs[p.by].gate # "open" \/ ~runs[p.by].package.there
=============================================================================
