-------------------------- MODULE EvaluationProofs --------------------------
(***************************************************************************)
(* Theorems about Evaluation and the Harness it starts, for every set of   *)
(* packages and of argument sets, any number of runs and of sessions that  *)
(* die.                                                                    *)
(***************************************************************************)
EXTENDS Evaluation, SequenceTheorems, TLAPS

Stages == {"gates", "starting", "cases", "over", "left"}

RunType ==
    [target : Targets, package : Packages, at : Stages, waited : BOOLEAN, code : Int,
     exit : Int, gate : {"open", "seed", "client", "isolation", "probe", "internal"},
     died : BOOLEAN]

\* A run, but for the exit code of run.py.
Fields(run, target, package, at, waited, code, gate, died) ==
    /\ run.target = target /\ run.package = package /\ run.at = at
    /\ run.waited = waited /\ run.code = code /\ run.gate = gate /\ run.died = died

\* s with another i-th run.
Updated(z, s, i) ==
    /\ z \in Seq(RunType) /\ Len(z) = Len(s)
    /\ \A j \in 1..Len(s) : j # i => z[j] = s[j]

-----------------------------------------------------------------------------
\* Runs, one attribute at a time.

LEMMA RunIn ==
  ASSUME NEW s \in Seq(RunType), NEW i \in 1..Len(s)
  PROVE  s[i] \in RunType
  OBVIOUS

LEMMA SetRun ==
  ASSUME NEW s \in Seq(RunType), NEW i \in 1..Len(s), NEW r \in RunType
  PROVE  Updated([s EXCEPT ![i] = r], s, i) /\ [s EXCEPT ![i] = r][i] = r
  BY DEF Updated

LEMMA SetAt ==
  ASSUME NEW s \in Seq(RunType), NEW i \in 1..Len(s), NEW x \in Stages
  PROVE  /\ Updated([s EXCEPT ![i].at = x], s, i)
         /\ Fields([s EXCEPT ![i].at = x][i], s[i].target, s[i].package, x, s[i].waited,
                   s[i].code, s[i].gate, s[i].died)
  <1> DEFINE r == [s[i] EXCEPT !.at = x]
  <1>1. s[i] \in RunType
    OBVIOUS
  <1>2. r \in RunType /\ Fields(r, s[i].target, s[i].package, x, s[i].waited,
                                s[i].code, s[i].gate, s[i].died)
    BY <1>1 DEF RunType, Fields
  <1> QED
    BY <1>2, SetRun

LEMMA SetExit ==
  ASSUME NEW s \in Seq(RunType), NEW i \in 1..Len(s), NEW x \in Int
  PROVE  /\ Updated([s EXCEPT ![i].exit = x], s, i) /\ [s EXCEPT ![i].exit = x][i].exit = x
         /\ Fields([s EXCEPT ![i].exit = x][i], s[i].target, s[i].package, s[i].at,
                   s[i].waited, s[i].code, s[i].gate, s[i].died)
  <1> DEFINE r == [s[i] EXCEPT !.exit = x]
  <1>1. s[i] \in RunType
    OBVIOUS
  <1>2. r \in RunType /\ r.exit = x /\ Fields(r, s[i].target, s[i].package, s[i].at, s[i].waited,
                                s[i].code, s[i].gate, s[i].died)
    BY <1>1 DEF RunType, Fields
  <1> QED
    BY <1>2, SetRun

LEMMA SetWaited ==
  ASSUME NEW s \in Seq(RunType), NEW i \in 1..Len(s), NEW x \in BOOLEAN
  PROVE  /\ Updated([s EXCEPT ![i].waited = x], s, i)
         /\ Fields([s EXCEPT ![i].waited = x][i], s[i].target, s[i].package, s[i].at, x,
                   s[i].code, s[i].gate, s[i].died)
  <1> DEFINE r == [s[i] EXCEPT !.waited = x]
  <1>1. s[i] \in RunType
    OBVIOUS
  <1>2. r \in RunType /\ Fields(r, s[i].target, s[i].package, s[i].at, x,
                                s[i].code, s[i].gate, s[i].died)
    BY <1>1 DEF RunType, Fields
  <1> QED
    BY <1>2, SetRun

LEMMA SetCode ==
  ASSUME NEW s \in Seq(RunType), NEW i \in 1..Len(s), NEW x \in Int
  PROVE  /\ Updated([s EXCEPT ![i].code = x], s, i)
         /\ Fields([s EXCEPT ![i].code = x][i], s[i].target, s[i].package, s[i].at,
                   s[i].waited, x, s[i].gate, s[i].died)
  <1> DEFINE r == [s[i] EXCEPT !.code = x]
  <1>1. s[i] \in RunType
    OBVIOUS
  <1>2. r \in RunType /\ Fields(r, s[i].target, s[i].package, s[i].at, s[i].waited,
                                x, s[i].gate, s[i].died)
    BY <1>1 DEF RunType, Fields
  <1> QED
    BY <1>2, SetRun

LEMMA SetGate ==
  ASSUME NEW s \in Seq(RunType), NEW i \in 1..Len(s),
         NEW x \in {"open", "seed", "client", "isolation", "probe", "internal"}
  PROVE  /\ Updated([s EXCEPT ![i].gate = x], s, i)
         /\ Fields([s EXCEPT ![i].gate = x][i], s[i].target, s[i].package, s[i].at,
                   s[i].waited, s[i].code, x, s[i].died)
  <1> DEFINE r == [s[i] EXCEPT !.gate = x]
  <1>1. s[i] \in RunType
    OBVIOUS
  <1>2. r \in RunType /\ Fields(r, s[i].target, s[i].package, s[i].at, s[i].waited,
                                s[i].code, x, s[i].died)
    BY <1>1 DEF RunType, Fields
  <1> QED
    BY <1>2, SetRun

LEMMA SetDied ==
  ASSUME NEW s \in Seq(RunType), NEW i \in 1..Len(s), NEW x \in BOOLEAN
  PROVE  /\ Updated([s EXCEPT ![i].died = x], s, i)
         /\ Fields([s EXCEPT ![i].died = x][i], s[i].target, s[i].package, s[i].at,
                   s[i].waited, s[i].code, s[i].gate, x)
  <1> DEFINE r == [s[i] EXCEPT !.died = x]
  <1>1. s[i] \in RunType
    OBVIOUS
  <1>2. r \in RunType /\ Fields(r, s[i].target, s[i].package, s[i].at, s[i].waited,
                                s[i].code, s[i].gate, x)
    BY <1>1 DEF RunType, Fields
  <1> QED
    BY <1>2, SetRun

-----------------------------------------------------------------------------
\* The steps, as what they do to one run.

Changed(i, at, waited, code, gate, died) ==
    /\ Updated(runs', runs, i)
    /\ Fields(runs'[i], runs[i].target, runs[i].package, at, waited, code, gate, died)

LEMMA LeaveChanges ==
  ASSUME runs \in Seq(RunType), NEW i \in 1..Len(runs), NEW x \in Int, Leave(i, x)
  PROVE  /\ Changed(i, "left", runs[i].waited, runs[i].code, runs[i].gate, runs[i].died)
         /\ runs'[i].exit = x
  <1> DEFINE a == [runs EXCEPT ![i].at = "left"]
             b == [a EXCEPT ![i].exit = x]
  <1>1. /\ Updated(a, runs, i)
        /\ Fields(a[i], runs[i].target, runs[i].package, "left", runs[i].waited,
                  runs[i].code, runs[i].gate, runs[i].died)
    BY SetAt DEF Stages
  <1>2. a \in Seq(RunType) /\ i \in 1..Len(a)
    BY <1>1 DEF Updated
  <1>3. /\ Updated(b, a, i)
        /\ Fields(b[i], a[i].target, a[i].package, a[i].at, a[i].waited, a[i].code,
                  a[i].gate, a[i].died)
    BY <1>2, SetExit
  <1>4. runs' = b
    BY DEF Leave
  <1>5. b[i].exit = x
    BY <1>2, SetExit
  <1> HIDE DEF a, b
  <1> QED
    BY <1>1, <1>3, <1>4, <1>5 DEF Changed, Updated, Fields

LEMMA KillChanges ==
  ASSUME runs \in Seq(RunType), NEW i \in 1..Len(runs), KillRun(i)
  PROVE  Changed(i, IF runs[i].at \in {"gates", "over"} THEN "left" ELSE runs[i].at,
                 FALSE, runs[i].code, runs[i].gate, runs[i].died)
  <1> DEFINE a == [runs EXCEPT ![i].waited = FALSE]
             x == IF a[i].at \in {"gates", "over"} THEN "left" ELSE a[i].at
             b == [a EXCEPT ![i].at = x]
  <1>1. /\ Updated(a, runs, i)
        /\ Fields(a[i], runs[i].target, runs[i].package, runs[i].at, FALSE,
                  runs[i].code, runs[i].gate, runs[i].died)
    BY SetWaited
  <1>2. a \in Seq(RunType) /\ i \in 1..Len(a)
    BY <1>1 DEF Updated
  <1>3. x \in Stages
    BY <1>2 DEF RunType, Stages
  <1>4. /\ Updated(b, a, i)
        /\ Fields(b[i], a[i].target, a[i].package, x, a[i].waited, a[i].code,
                  a[i].gate, a[i].died)
    BY <1>2, <1>3, SetAt
  <1>5. runs' = b
    BY DEF KillRun
  <1>6. x = IF runs[i].at \in {"gates", "over"} THEN "left" ELSE runs[i].at
    BY <1>1 DEF Fields
  <1> HIDE DEF a, b, x
  <1> QED
    BY <1>1, <1>4, <1>5, <1>6 DEF Changed, Updated, Fields

LEMMA EndChanges ==
  ASSUME runs \in Seq(RunType), NEW i \in 1..Len(runs), NEW c \in Int,
         NEW g \in {"open", "seed", "client", "isolation", "probe", "internal"}, End(i, c, g)
  PROVE  Changed(i, IF runs[i].waited THEN "over" ELSE "left", runs[i].waited, c, g,
                 runs[i].died)
  <1> DEFINE x == IF runs[i].waited THEN "over" ELSE "left"
             a == [runs EXCEPT ![i].at = x]
             b == [a EXCEPT ![i].code = c]
             d == [b EXCEPT ![i].gate = g]
  <1>1. /\ Updated(a, runs, i)
        /\ Fields(a[i], runs[i].target, runs[i].package, x, runs[i].waited,
                  runs[i].code, runs[i].gate, runs[i].died)
    BY SetAt DEF Stages
  <1>2. a \in Seq(RunType) /\ i \in 1..Len(a)
    BY <1>1 DEF Updated
  <1>3. /\ Updated(b, a, i)
        /\ Fields(b[i], a[i].target, a[i].package, a[i].at, a[i].waited, c,
                  a[i].gate, a[i].died)
    BY <1>2, SetCode
  <1>4. b \in Seq(RunType) /\ i \in 1..Len(b)
    BY <1>2, <1>3 DEF Updated
  <1>5. /\ Updated(d, b, i)
        /\ Fields(d[i], b[i].target, b[i].package, b[i].at, b[i].waited, b[i].code,
                  g, b[i].died)
    BY <1>4, SetGate
  <1>6. runs' = d
    BY DEF End
  <1> HIDE DEF a, b, d
  <1> QED
    BY <1>1, <1>3, <1>5, <1>6 DEF Changed, Updated, Fields

LEMMA DieChanges ==
  ASSUME runs \in Seq(RunType), NEW i \in 1..Len(runs), Die(i)
  PROVE  Changed(i, IF runs[i].waited THEN "over" ELSE "left", runs[i].waited, Killed,
                 runs[i].gate, TRUE)
  <1> DEFINE x == IF runs[i].at # "left" /\ runs[i].waited THEN "over" ELSE "left"
             a == [runs EXCEPT ![i].at = x]
             b == [a EXCEPT ![i].code = Killed]
             d == [b EXCEPT ![i].died = TRUE]
  <1>0. Killed \in Int
    BY DEF Killed
  <1>1. /\ Updated(a, runs, i)
        /\ Fields(a[i], runs[i].target, runs[i].package, x, runs[i].waited,
                  runs[i].code, runs[i].gate, runs[i].died)
    BY SetAt DEF Stages
  <1>2. a \in Seq(RunType) /\ i \in 1..Len(a)
    BY <1>1 DEF Updated
  <1>3. /\ Updated(b, a, i)
        /\ Fields(b[i], a[i].target, a[i].package, a[i].at, a[i].waited, Killed,
                  a[i].gate, a[i].died)
    BY <1>0, <1>2, SetCode
  <1>4. b \in Seq(RunType) /\ i \in 1..Len(b)
    BY <1>2, <1>3 DEF Updated
  <1>5. /\ Updated(d, b, i)
        /\ Fields(d[i], b[i].target, b[i].package, b[i].at, b[i].waited, b[i].code,
                  b[i].gate, TRUE)
    BY <1>4, SetDied
  <1>6. runs' = d
    BY DEF Die
  <1>7. x = IF runs[i].waited THEN "over" ELSE "left"
    BY DEF Die
  <1> HIDE DEF a, b, d, x
  <1> QED
    BY <1>1, <1>3, <1>5, <1>6, <1>7 DEF Changed, Updated, Fields

\* A run that starts is put behind the others.
Started(t, p) ==
    /\ runs' \in Seq(RunType) /\ Len(runs') = Len(runs) + 1
    /\ \A j \in 1..Len(runs) : runs'[j] = runs[j]
    /\ Fields(runs'[Len(runs) + 1], t, p, "gates", TRUE, 0, "open", FALSE)

LEMMA StartStarts ==
  ASSUME runs \in Seq(RunType), NEW t \in Targets, NEW p \in Packages, StartRun(t, p)
  PROVE  Started(t, p)
  <1> DEFINE r == [target |-> t, package |-> p, at |-> "gates", waited |-> TRUE,
                   code |-> 0, exit |-> 0, gate |-> "open", died |-> FALSE]
  <1>1. r \in RunType
    BY DEF RunType, Stages
  <1>2. runs' = Append(runs, r)
    BY DEF StartRun
  <1> HIDE DEF r
  <1>3. /\ runs' \in Seq(RunType) /\ Len(runs') = Len(runs) + 1
        /\ \A j \in 1..Len(runs) : runs'[j] = runs[j]
        /\ runs'[Len(runs) + 1] = r
    BY <1>1, <1>2
  <1>4. Fields(r, t, p, "gates", TRUE, 0, "open", FALSE)
    BY DEF r, Fields
  <1> QED
    BY <1>3, <1>4 DEF Started

-----------------------------------------------------------------------------
\* The runs.

\* Nobody waits for a session of run i that could still end.
Quiet(i) == runs[i].at = "left" \/ ~runs[i].waited

\* The exceptions that RowsAreOwn names.
Excused(i) ==
    \/ runs[i].died
    \/ \E j \in 1..(i - 1) : runs[j].target = runs[i].target /\ ~runs[j].waited

\* run.py is at its gates or reads the file only while it is alive; a session has no
\* gate against it before it ends; and the exit codes of a session that run.py aborts
\* on are those a gate gave it.
Staged(at, waited, code, gate) ==
    /\ at \in {"gates", "over"} => waited
    /\ at \in {"gates", "starting", "cases"} => gate = "open"
    /\ at = "over" => (code \in GateExits <=> gate # "open")

\* A session is started only for a package whose parser is sans-io.
Checked(at, package) == at \in {"starting", "cases", "over"} => package.sansio

\* Every run but the newest is over, or was killed.
RunsInv ==
    /\ runs \in Seq(RunType)
    /\ \A i \in 1..Len(runs) :
          Staged(runs[i].at, runs[i].waited, runs[i].code, runs[i].gate)
    /\ \A i \in 1..Len(runs) : Checked(runs[i].at, runs[i].package)
    /\ \A i \in 1..Len(runs) : i < Len(runs) => Quiet(i)

AllQuiet == \A i \in 1..Len(runs) : Quiet(i)

\* The run's session is over, or never started.
Ended == {"over", "left"}

\* What no step undoes.
Grows ==
    /\ Len(runs') >= Len(runs)
    /\ \A i \in 1..Len(runs) :
          /\ runs'[i].target = runs[i].target /\ runs'[i].package = runs[i].package
          /\ runs[i].died => runs'[i].died
          /\ ~runs[i].waited => ~runs'[i].waited
          /\ runs[i].at = "left" => runs'[i].at = "left" /\ runs'[i].waited = runs[i].waited
          /\ runs[i].at \in Ended =>
                /\ runs'[i].at \in Ended
                /\ runs'[i].code = runs[i].code /\ runs'[i].gate = runs[i].gate

\* The steps of a run that is there: it stays as quiet as it was.
Advances(i, at, waited, code, gate, died) ==
    /\ Changed(i, at, waited, code, gate, died)
    /\ Staged(at, waited, code, gate) /\ Checked(at, runs[i].package)
    /\ Quiet(i) => at = "left" \/ ~waited
    /\ runs[i].died => died
    /\ ~runs[i].waited => ~waited
    /\ runs[i].at = "left" => at = "left" /\ waited = runs[i].waited
    /\ runs[i].at \in Ended => at \in Ended /\ code = runs[i].code /\ gate = runs[i].gate

LEMMA AdvanceRuns ==
  ASSUME RunsInv, NEW i \in 1..Len(runs), NEW at, NEW waited, NEW code, NEW gate, NEW died,
         Advances(i, at, waited, code, gate, died)
  PROVE  /\ RunsInv' /\ Grows /\ Len(runs') = Len(runs)
         /\ \A j \in 1..Len(runs) : j # i => runs'[j] = runs[j]
  <1>1. /\ runs' \in Seq(RunType) /\ Len(runs') = Len(runs)
        /\ \A j \in 1..Len(runs) : j # i => runs'[j] = runs[j]
    BY DEF Advances, Changed, Updated
  <1>2. Fields(runs'[i], runs[i].target, runs[i].package, at, waited, code, gate, died)
    BY DEF Advances, Changed
  <1>3. \A j \in 1..Len(runs') :
           /\ Staged(runs'[j].at, runs'[j].waited, runs'[j].code, runs'[j].gate)
           /\ Checked(runs'[j].at, runs'[j].package)
    <2> SUFFICES ASSUME NEW j \in 1..Len(runs)
                 PROVE  /\ Staged(runs'[j].at, runs'[j].waited, runs'[j].code, runs'[j].gate)
                        /\ Checked(runs'[j].at, runs'[j].package)
      BY <1>1
    <2>1. CASE j = i
      BY <1>2, <2>1 DEF Fields, Advances
    <2>2. CASE j # i
      BY <1>1, <2>2 DEF RunsInv
    <2> QED
      BY <2>1, <2>2
  <1>4. \A j \in 1..Len(runs') : j < Len(runs') => Quiet(j)'
    <2> SUFFICES ASSUME NEW j \in 1..Len(runs), j < Len(runs)
                 PROVE  runs'[j].at = "left" \/ ~runs'[j].waited
      BY <1>1 DEF Quiet
    <2>1. Quiet(j)
      BY DEF RunsInv
    <2>2. CASE j = i
      BY <1>2, <2>1, <2>2 DEF Fields, Advances
    <2>3. CASE j # i
      BY <1>1, <2>1, <2>3 DEF Quiet
    <2> QED
      BY <2>2, <2>3
  <1>5. Grows
    <2> SUFFICES ASSUME NEW j \in 1..Len(runs)
                 PROVE  /\ runs'[j].target = runs[j].target
                        /\ runs'[j].package = runs[j].package
                        /\ runs[j].died => runs'[j].died
                        /\ ~runs[j].waited => ~runs'[j].waited
                        /\ runs[j].at = "left" =>
                              runs'[j].at = "left" /\ runs'[j].waited = runs[j].waited
                        /\ runs[j].at \in Ended =>
                              /\ runs'[j].at \in Ended
                              /\ runs'[j].code = runs[j].code
                              /\ runs'[j].gate = runs[j].gate
      BY <1>1 DEF Grows, RunsInv
    <2>1. CASE j = i
      BY <1>2, <2>1 DEF Fields, Advances
    <2>2. CASE j # i
      BY <1>1, <2>2
    <2> QED
      BY <2>1, <2>2
  <1> QED
    BY <1>1, <1>3, <1>4, <1>5 DEF RunsInv

LEMMA StartRuns ==
  ASSUME RunsInv, AllQuiet, NEW t, NEW p, Started(t, p)
  PROVE  RunsInv' /\ Grows
  <1>0. Len(runs) \in Nat
    BY DEF RunsInv
  <1>1. /\ runs' \in Seq(RunType) /\ Len(runs') = Len(runs) + 1
        /\ \A j \in 1..Len(runs) : runs'[j] = runs[j]
    BY DEF Started
  <1>2. Staged("gates", TRUE, 0, "open") /\ Checked("gates", p)
    BY DEF Staged, Checked
  <1>3. \A j \in 1..Len(runs') :
           /\ Staged(runs'[j].at, runs'[j].waited, runs'[j].code, runs'[j].gate)
           /\ Checked(runs'[j].at, runs'[j].package)
    <2> SUFFICES ASSUME NEW j \in 1..(Len(runs) + 1)
                 PROVE  /\ Staged(runs'[j].at, runs'[j].waited, runs'[j].code, runs'[j].gate)
                        /\ Checked(runs'[j].at, runs'[j].package)
      BY <1>1
    <2>1. CASE j = Len(runs) + 1
      BY <1>2, <2>1 DEF Started, Fields
    <2>2. CASE j # Len(runs) + 1
      BY <1>0, <1>1, <2>2 DEF RunsInv
    <2> QED
      BY <2>1, <2>2
  <1>4. \A j \in 1..Len(runs') : j < Len(runs') => Quiet(j)'
    BY <1>0, <1>1 DEF AllQuiet, Quiet
  <1>5. Grows
    BY <1>0, <1>1 DEF Grows
  <1> QED
    BY <1>1, <1>3, <1>4, <1>5 DEF RunsInv

\* run.py leaves from its gates, or when its session is over; either way it is alive.
LEMMA LeaveAdvances ==
  ASSUME RunsInv, NEW i \in 1..Len(runs), NEW x \in Int, Leave(i, x),
         runs[i].at \in {"gates", "over"}
  PROVE  Advances(i, "left", runs[i].waited, runs[i].code, runs[i].gate, runs[i].died)
  BY LeaveChanges DEF RunsInv, Advances, Staged, Checked, Ended

LEMMA SpawnAdvances ==
  ASSUME RunsInv, NEW i \in 1..Len(runs), Spawn(i)
  PROVE  Advances(i, "starting", runs[i].waited, runs[i].code, runs[i].gate, runs[i].died)
  <1>1. runs' = [runs EXCEPT ![i].at = "starting"] /\ runs[i].at = "gates"
    BY DEF Spawn
  <1>2. Changed(i, "starting", runs[i].waited, runs[i].code, runs[i].gate, runs[i].died)
    BY <1>1, SetAt DEF RunsInv, Stages, Changed
  <1>3. runs[i].waited /\ runs[i].gate = "open" /\ runs[i].package.sansio
    BY <1>1 DEF RunsInv, Staged, Spawn
  <1> QED
    BY <1>1, <1>2, <1>3 DEF Advances, Staged, Quiet, Checked, Ended

LEMMA KillAdvances ==
  ASSUME RunsInv, NEW i \in 1..Len(runs), KillRun(i), runs[i].at # "left"
  PROVE  Advances(i, IF runs[i].at \in {"gates", "over"} THEN "left" ELSE runs[i].at,
                  FALSE, runs[i].code, runs[i].gate, runs[i].died)
  <1>1. /\ Staged(runs[i].at, runs[i].waited, runs[i].code, runs[i].gate)
        /\ Checked(runs[i].at, runs[i].package)
    BY DEF RunsInv
  <1> QED
    BY <1>1, KillChanges DEF RunsInv, Advances, Staged, Checked, Ended

\* A session that ends with a code of a gate is one that a gate ended.
LEMMA EndAdvances ==
  ASSUME RunsInv, NEW i \in 1..Len(runs), NEW c \in Int,
         NEW g \in {"open", "seed", "client", "isolation", "probe", "internal"}, End(i, c, g),
         runs[i].at \in {"starting", "cases"}, c \in GateExits <=> g # "open"
  PROVE  Advances(i, IF runs[i].waited THEN "over" ELSE "left", runs[i].waited, c, g,
                  runs[i].died)
  BY EndChanges DEF RunsInv, Advances, Staged, Quiet, Checked, Ended

LEMMA DieAdvances ==
  ASSUME RunsInv, NEW i \in 1..Len(runs), Die(i)
  PROVE  Advances(i, IF runs[i].waited THEN "over" ELSE "left", runs[i].waited, Killed,
                  runs[i].gate, TRUE)
  <1>1. runs[i].at \in {"starting", "cases"} /\ runs[i].gate = "open"
    BY DEF Die, RunsInv, Staged
  <1>2. Killed \notin GateExits
    BY DEF Killed, GateExits, EXIT_ISOLATION, EXIT_PROBE_MISMATCH, EXIT_WRONG_CLIENT
  <1> QED
    BY <1>1, <1>2, DieChanges DEF RunsInv, Advances, Staged, Quiet, Checked, Ended

LEMMA ExcusedStays ==
  ASSUME RunsInv, Grows
  PROVE  \A i \in 1..Len(runs) : Excused(i) => Excused(i)'
  <1> SUFFICES ASSUME NEW i \in 1..Len(runs), Excused(i)
               PROVE  Excused(i)'
    OBVIOUS
  <1>1. CASE runs[i].died
    BY <1>1 DEF Grows, Excused
  <1>2. CASE \E j \in 1..(i - 1) : runs[j].target = runs[i].target /\ ~runs[j].waited
    <2>1. PICK j \in 1..(i - 1) : runs[j].target = runs[i].target /\ ~runs[j].waited
      BY <1>2
    <2>2. j \in 1..Len(runs)
      BY DEF RunsInv
    <2> QED
      BY <2>1, <2>2 DEF Grows, Excused
  <1> QED
    BY <1>1, <1>2 DEF Excused

-----------------------------------------------------------------------------
\* The files.

\* A session that ended by itself left its file, and a run that was not killed its
\* report, but for the exceptions.
SessionLeftFile(i) ==
    runs[i].at = "over" /\ runs[i].code \notin GateExits /\ ~Excused(i)
        => junit[runs[i].target].by = i /\ ~junit[runs[i].target].torn
RunLeftReport(i) ==
    i = Len(runs) /\ runs[i].at = "left" /\ runs[i].waited /\ ~Excused(i)
        => report[runs[i].target].by = i /\ report[runs[i].target].of \in {0, i}

\* It left with zero because its package passes every case, but for the exceptions.
ZeroEarned(i) ==
    runs[i].at = "left" /\ runs[i].waited /\ runs[i].exit = 0 /\ ~Excused(i)
        => runs[i].package.passes = CHANNELS

\* Counts that tell what the package does: all cases only when it passes all, and none
\* only when it passes none, or the session did not run them.
Measured(counts, package, code, gate) ==
    /\ Passed(counts) = TOTAL_CASES => package.passes = CHANNELS
    /\ Passed(counts) = 0 => Passed(package.passes) = 0 \/ gate # "open" \/ code = 2

\* What a file says, once the session that wrote it is over.
JunitTrue(t) ==
    LET file == junit[t]
        run == runs[file.by]
    IN  file.by # 0 /\ ~file.torn =>
          run.at \in Ended /\ Measured(file.counts, run.package, run.code, run.gate)

PackageTold(p, package, code, gate) ==
    package.there =>
        /\ p.kind = "sansio" <=> ~package.sansio
        /\ p.kind # "sansio" => Measured(p.counts, package, code, gate)

\* What a report says of the gates, and of the package when it has its own run's counts,
\* once the run that wrote it is over.
ReportTrue(t) ==
    LET p == report[t]
        run == runs[p.by]
    IN  p.by # 0 =>
          /\ run.at = "left"
          /\ run.gate # "open" => p.kind = "aborted" /\ p.score = -1
          /\ p.kind = "aborted" => run.gate # "open" \/ ~run.package.there
          /\ p.of \in 0..p.by
          /\ p.of = p.by => PackageTold(p, run.package, run.code, run.gate)

FilesInv ==
    /\ DOMAIN junit = Targets /\ DOMAIN report = Targets
    /\ \A t \in Targets : junit[t].by \in 0..Len(runs) /\ report[t].by \in 0..Len(runs)
    /\ \A i \in 1..Len(runs) : SessionLeftFile(i) /\ RunLeftReport(i) /\ ZeroEarned(i)
    /\ \A t \in Targets : JunitTrue(t) /\ ReportTrue(t)

\* A report, or a file, whose run is over stays true.
LEMMA ReportStays ==
  ASSUME RunsInv, FilesInv, Grows, NEW t \in Targets, report'[t] = report[t]
  PROVE  ReportTrue(t)'
  <1> DEFINE p == report[t]
             run == runs[p.by]
  <1>1. CASE p.by = 0
    BY <1>1 DEF ReportTrue
  <1>2. CASE p.by # 0
    <2>1. p.by \in 1..Len(runs)
      BY <1>2 DEF FilesInv, RunsInv
    <2>2. ReportTrue(t)
      BY DEF FilesInv
    <2>3. run.at = "left" /\ run.at \in Ended
      BY <1>2, <2>2 DEF ReportTrue, Ended
    <2>4. /\ runs'[p.by].at = "left" /\ runs'[p.by].package = run.package
          /\ runs'[p.by].code = run.code /\ runs'[p.by].gate = run.gate
      BY <2>1, <2>3 DEF Grows
    <2> QED
      BY <2>2, <2>4 DEF ReportTrue
  <1> QED
    BY <1>1, <1>2

LEMMA FileStays ==
  ASSUME RunsInv, FilesInv, Grows, NEW t \in Targets, junit'[t] = junit[t]
  PROVE  JunitTrue(t)'
  <1> DEFINE file == junit[t]
             run == runs[file.by]
  <1>1. CASE file.by = 0 \/ file.torn
    BY <1>1 DEF JunitTrue
  <1>2. CASE file.by # 0 /\ ~file.torn
    <2>1. file.by \in 1..Len(runs)
      BY <1>2 DEF FilesInv, RunsInv
    <2>2. JunitTrue(t)
      BY DEF FilesInv
    <2>3. run.at \in Ended
      BY <1>2, <2>2 DEF JunitTrue
    <2>4. /\ runs'[file.by].at \in Ended /\ runs'[file.by].package = run.package
          /\ runs'[file.by].code = run.code /\ runs'[file.by].gate = run.gate
      BY <2>1, <2>3 DEF Grows
    <2> QED
      BY <2>2, <2>4 DEF JunitTrue
  <1> QED
    BY <1>1, <1>2

\* A new report of run i, and no other change to the files.
LEMMA EmitFiles ==
  ASSUME RunsInv, FilesInv, NEW i \in 1..Len(runs), NEW x \in Int, Leave(i, x),
         runs[i].at \in {"gates", "over"}, NEW p, Emit(i, p), junit' = junit,
         p.by = i, p.of \in {0, i} \/ Excused(i),
         runs[i].gate # "open" => p.kind = "aborted" /\ p.score = -1,
         p.kind = "aborted" => runs[i].gate # "open" \/ ~runs[i].package.there,
         p.of \in 0..i,
         p.of = i => PackageTold(p, runs[i].package, runs[i].code, runs[i].gate),
         x = 0 => runs[i].package.passes = CHANNELS \/ Excused(i)
  PROVE  FilesInv'
  <1> DEFINE t == runs[i].target
  <1>1. Advances(i, "left", runs[i].waited, runs[i].code, runs[i].gate, runs[i].died)
    BY LeaveAdvances
  <1>2. /\ RunsInv' /\ Grows /\ Len(runs') = Len(runs)
        /\ \A j \in 1..Len(runs) : j # i => runs'[j] = runs[j]
    BY <1>1, AdvanceRuns
  <1>3. Fields(runs'[i], t, runs[i].package, "left", runs[i].waited, runs[i].code,
               runs[i].gate, runs[i].died)
    BY <1>1 DEF Advances, Changed
  <1>4. t \in Targets
    BY RunIn DEF RunsInv, RunType
  <1>5. /\ DOMAIN report' = Targets /\ report'[t] = p
        /\ \A u \in Targets : u # t => report'[u] = report[u]
    BY <1>4 DEF Emit, FilesInv
  <1>6. \A u \in Targets : junit'[u].by \in 0..Len(runs') /\ report'[u].by \in 0..Len(runs')
    BY <1>2, <1>5 DEF FilesInv, RunsInv
  <1>7. \A j \in 1..Len(runs) : Excused(j) => Excused(j)'
    BY <1>2, ExcusedStays
  <1>8. i = Len(runs)
    <2>1. runs[i].waited /\ runs[i].at # "left"
      BY DEF RunsInv, Staged
    <2> QED
      BY <2>1 DEF RunsInv, Quiet
  <1>9. runs'[i].exit = x
    BY LeaveChanges DEF RunsInv
  <1>10. ASSUME NEW j \in 1..Len(runs)
        PROVE  SessionLeftFile(j)' /\ RunLeftReport(j)' /\ ZeroEarned(j)'
    <2>1. CASE j = i
      <3>1. SessionLeftFile(i)' /\ RunLeftReport(i)'
        BY <1>3, <1>5, <1>7 DEF SessionLeftFile, RunLeftReport, Fields
      <3>2. ZeroEarned(i)'
        BY <1>3, <1>7, <1>9 DEF ZeroEarned, Fields
      <3> QED
        BY <2>1, <3>1, <3>2
    <2>2. CASE j # i
      <3>1. runs'[j] = runs[j] /\ j # Len(runs')
        BY <1>2, <1>8, <2>2
      <3>2. SessionLeftFile(j) /\ ZeroEarned(j)
        BY DEF FilesInv
      <3> QED
        BY <1>7, <3>1, <3>2 DEF SessionLeftFile, RunLeftReport, ZeroEarned
    <2> QED
      BY <2>1, <2>2
  <1>11. ASSUME NEW u \in Targets PROVE JunitTrue(u)' /\ ReportTrue(u)'
    <2>1. JunitTrue(u)'
      BY <1>2, FileStays
    <2>2. CASE u = t
      BY <1>3, <1>5, <2>1, <2>2 DEF ReportTrue, Fields
    <2>3. CASE u # t
      BY <1>2, <1>5, <2>1, <2>3, ReportStays
    <2> QED
      BY <2>2, <2>3
  <1> QED
    BY <1>2, <1>5, <1>6, <1>10, <1>11 DEF FilesInv

\* The session of run i ends and writes its file, whole or not.
FileWritten(i, at, code, gate) ==
    \E torn, counts :
        /\ junit' = [junit EXCEPT ![runs[i].target] =
                       [by |-> i, torn |-> torn, counts |-> counts]]
        /\ ~torn => at \in Ended /\ Measured(counts, runs[i].package, code, gate)

\* A step of run i that touches at most its JUnit file, and after which the run is not
\* over, or the file is its own, or its session died.
Accounted(i, at, waited, code, gate, died) ==
    /\ report' = report /\ runs[i].at # "left"
    /\ junit' = junit \/ (runs[i].at = "cases" /\ FileWritten(i, at, code, gate))
    /\ at = "over" =>
          \/ code \in GateExits \/ died
          \/ junit'[runs[i].target].by = i /\ ~junit'[runs[i].target].torn
    /\ at = "left" => ~waited

LEMMA SessionFiles ==
  ASSUME RunsInv, FilesInv, NEW i \in 1..Len(runs),
         NEW at, NEW waited, NEW code, NEW gate, NEW died,
         Advances(i, at, waited, code, gate, died),
         Accounted(i, at, waited, code, gate, died)
  PROVE  FilesInv'
  <1> DEFINE t == runs[i].target
  <1>0. /\ report' = report /\ runs[i].at # "left"
        /\ junit' = junit \/ (runs[i].at = "cases" /\ FileWritten(i, at, code, gate))
        /\ at = "over" =>
              \/ code \in GateExits \/ died
              \/ junit'[t].by = i /\ ~junit'[t].torn
        /\ at = "left" => ~waited
    BY DEF Accounted
  <1>1. /\ RunsInv' /\ Grows /\ Len(runs') = Len(runs)
        /\ \A j \in 1..Len(runs) : j # i => runs'[j] = runs[j]
    BY AdvanceRuns
  <1>2. Fields(runs'[i], t, runs[i].package, at, waited, code, gate, died)
    BY DEF Advances, Changed
  <1>3. t \in Targets
    BY RunIn DEF RunsInv, RunType
  <1>4. /\ DOMAIN junit' = Targets
        /\ \A u \in Targets : junit'[u].by \in {i, junit[u].by}
        /\ \A u \in Targets : u # t => junit'[u] = junit[u]
        /\ \A u \in Targets : u = t => JunitTrue(u)'
    <2>1. CASE junit' = junit
      <3>1. \A u \in Targets : JunitTrue(u)'
        BY <1>1, <2>1, FileStays
      <3> QED
        BY <2>1, <3>1 DEF FilesInv
    <2>2. ASSUME NEW torn, NEW counts,
                 junit' = [junit EXCEPT ![t] = [by |-> i, torn |-> torn, counts |-> counts]],
                 ~torn => at \in Ended /\ Measured(counts, runs[i].package, code, gate)
          PROVE  /\ DOMAIN junit' = Targets
                 /\ \A u \in Targets : junit'[u].by \in {i, junit[u].by}
                 /\ \A u \in Targets : u # t => junit'[u] = junit[u]
                 /\ \A u \in Targets : u = t => JunitTrue(u)'
      <3> DEFINE file == [by |-> i, torn |-> torn, counts |-> counts]
      <3>1. file.by = i /\ file.torn = torn /\ file.counts = counts
        OBVIOUS
      <3> HIDE DEF file
      <3>2. /\ DOMAIN junit' = Targets /\ junit'[t] = file
            /\ \A u \in Targets : u # t => junit'[u] = junit[u]
        BY <1>3, <2>2 DEF FilesInv, file
      <3>3. \A u \in Targets : u = t => JunitTrue(u)'
        BY <1>2, <2>2, <3>1, <3>2 DEF JunitTrue, Fields
      <3> QED
        BY <3>1, <3>2, <3>3
    <2> QED
      BY <1>0, <2>1, <2>2 DEF FileWritten
  <1>5. \A u \in Targets : junit'[u].by \in 0..Len(runs') /\ report'[u].by \in 0..Len(runs')
    BY <1>0, <1>1, <1>4 DEF FilesInv, RunsInv
  <1>6. \A j \in 1..Len(runs) : Excused(j) => Excused(j)'
    BY <1>1, ExcusedStays
  <1>7. ASSUME NEW j \in 1..Len(runs)
        PROVE  SessionLeftFile(j)' /\ RunLeftReport(j)' /\ ZeroEarned(j)'
    <2>1. CASE j = i
      <3>1. RunLeftReport(i)' /\ ZeroEarned(i)'
        BY <1>0, <1>2 DEF RunLeftReport, ZeroEarned, Fields
      <3>2. died => Excused(i)'
        BY <1>2 DEF Fields, Excused
      <3>3. SessionLeftFile(i)'
        BY <1>0, <1>2, <3>2 DEF SessionLeftFile, Fields
      <3> QED
        BY <2>1, <3>1, <3>3
    <2>2. CASE j # i
      <3>1. runs'[j] = runs[j]
        BY <1>1, <2>2
      <3>2. SessionLeftFile(j) /\ RunLeftReport(j) /\ ZeroEarned(j)
        BY DEF FilesInv
      <3>3. RunLeftReport(j)' /\ ZeroEarned(j)'
        BY <1>0, <1>1, <1>6, <3>1, <3>2 DEF RunLeftReport, ZeroEarned
      <3>4. CASE junit'[runs[j].target] = junit[runs[j].target]
        BY <1>6, <3>1, <3>2, <3>3, <3>4 DEF SessionLeftFile
      <3>5. CASE junit'[runs[j].target] # junit[runs[j].target]
        <4>1. runs[j].target \in Targets
          BY RunIn DEF RunsInv, RunType
        <4>2. runs[j].target = t /\ runs[i].at = "cases"
          BY <1>0, <1>4, <3>5, <4>1
        <4>3. CASE runs[j].at # "over"
          BY <3>1, <3>3, <4>3 DEF SessionLeftFile
        <4>4. CASE runs[j].at = "over"
          <5>1. j = Len(runs)
            BY <4>4 DEF RunsInv, Staged, Quiet
          <5>2. i \in 1..(j - 1) /\ ~runs[i].waited
            BY <1>0, <2>2, <4>2, <5>1 DEF RunsInv, Quiet
          <5>3. Excused(j)
            BY <4>2, <5>2 DEF Excused
          <5> QED
            BY <1>6, <3>3, <5>3 DEF SessionLeftFile
        <4> QED
          BY <4>3, <4>4
      <3> QED
        BY <3>4, <3>5
    <2> QED
      BY <2>1, <2>2
  <1>8. ASSUME NEW u \in Targets PROVE JunitTrue(u)' /\ ReportTrue(u)'
    <2>1. ReportTrue(u)'
      BY <1>0, <1>1, ReportStays
    <2>2. JunitTrue(u)'
      <3>1. CASE u = t
        BY <1>4, <3>1
      <3>2. CASE u # t
        BY <1>1, <1>4, <3>2, FileStays
      <3> QED
        BY <3>1, <3>2
    <2> QED
      BY <2>1, <2>2
  <1> QED
    BY <1>0, <1>1, <1>4, <1>5, <1>7, <1>8 DEF FilesInv

LEMMA StartFiles ==
  ASSUME RunsInv, FilesInv, AllQuiet, NEW t, NEW p, Started(t, p), UNCHANGED <<junit, report>>
  PROVE  FilesInv'
  <1>0. Len(runs) \in Nat
    BY DEF RunsInv
  <1>1. /\ Len(runs') = Len(runs) + 1
        /\ \A j \in 1..Len(runs) : runs'[j] = runs[j]
        /\ runs'[Len(runs) + 1].at = "gates"
    BY DEF Started, Fields
  <1>2. RunsInv' /\ Grows
    BY StartRuns
  <1>3. \A j \in 1..Len(runs) : Excused(j) => Excused(j)'
    BY <1>2, ExcusedStays
  <1>4. \A u \in Targets : junit'[u].by \in 0..Len(runs') /\ report'[u].by \in 0..Len(runs')
    BY <1>0, <1>1 DEF FilesInv
  <1>5. ASSUME NEW j \in 1..Len(runs')
        PROVE  SessionLeftFile(j)' /\ RunLeftReport(j)' /\ ZeroEarned(j)'
    <2>1. CASE j = Len(runs) + 1
      BY <1>1, <2>1 DEF SessionLeftFile, RunLeftReport, ZeroEarned
    <2>2. CASE j # Len(runs) + 1
      <3>1. j \in 1..Len(runs) /\ runs'[j] = runs[j] /\ j # Len(runs')
        BY <1>0, <1>1, <2>2
      <3>2. SessionLeftFile(j) /\ ZeroEarned(j)
        BY <3>1 DEF FilesInv
      <3> QED
        BY <1>3, <3>1, <3>2 DEF SessionLeftFile, RunLeftReport, ZeroEarned
    <2> QED
      BY <2>1, <2>2
  <1>6. \A u \in Targets : JunitTrue(u)' /\ ReportTrue(u)'
    BY <1>2, FileStays, ReportStays
  <1> QED
    BY <1>4, <1>5, <1>6 DEF FilesInv

-----------------------------------------------------------------------------
\* Counts.

LEMMA NoneMeasured ==
  ASSUME NEW package, NEW code, NEW gate, gate # "open" \/ code = 2
  PROVE  Measured(None, package, code, gate)
  BY DEF Measured, Passed, TOTAL_CASES, None, CHANNELS, Channels

\* Only a package that passes every case has as many counts.
LEMMA AllPassed ==
  ASSUME NEW counts \in Tallies
  PROVE  /\ Passed(counts) = TOTAL_CASES => counts = CHANNELS
         /\ counts.resource <= 11
         /\ Passed(counts) \in Nat
  BY DEF Passed, TOTAL_CASES, Tallies, Channels, CHANNELS

LEMMA WithoutResource ==
  ASSUME NEW counts \in Tallies
  PROVE  Passed([counts EXCEPT !.resource = 0]) # TOTAL_CASES
  BY DEF Passed, TOTAL_CASES, Tallies, Channels, CHANNELS

LEMMA OwnMeasured ==
  ASSUME NEW package \in Packages, NEW code, NEW gate
  PROVE  Measured(package.passes, package, code, gate)
  <1>1. package.passes \in Tallies
    BY PackagesAssumption DEF PackageType
  <1> QED
    BY <1>1, AllPassed DEF Measured

LEMMA PartMeasured ==
  ASSUME NEW package \in Packages, NEW code, NEW gate, gate # "open"
  PROVE  Measured([package.passes EXCEPT !.resource = 0], package, code, gate)
  <1>1. package.passes \in Tallies
    BY PackagesAssumption DEF PackageType
  <1> QED
    BY <1>1, WithoutResource DEF Measured

-----------------------------------------------------------------------------
\* The steps of run.py.

LEMMA RunFiles ==
  ASSUME RunsInv, FilesInv, NEW i \in 1..Len(runs), RunStep(i)
  PROVE  FilesInv' /\ \E at \in Stages :
            Advances(i, at, runs[i].waited, runs[i].code, runs[i].gate, runs[i].died)
  <1>0. Staged(runs[i].at, runs[i].waited, runs[i].code, runs[i].gate)
    BY DEF RunsInv
  <1>1. ASSUME NEW x \in Int, Leave(i, x), runs[i].at \in {"gates", "over"}
        PROVE  \E at \in Stages :
                  Advances(i, at, runs[i].waited, runs[i].code, runs[i].gate, runs[i].died)
    BY <1>1, LeaveAdvances DEF Stages
  <1>2. CASE NoPackage(i)
    <2> DEFINE p == [Aborted(i) EXCEPT !.score = 0]
    <2>1. p.by = i /\ p.of = i /\ p.kind = "aborted"
      BY DEF Aborted, Payload
    <2>2. /\ Leave(i, 2) /\ Emit(i, p) /\ junit' = junit
          /\ runs[i].at = "gates" /\ ~runs[i].package.there
      BY <1>2 DEF NoPackage
    <2>3. runs[i].gate = "open" /\ i \in 0..i
      BY <1>0, <2>2 DEF Staged, RunsInv
    <2>4. PackageTold(p, runs[i].package, runs[i].code, runs[i].gate)
      BY <2>2 DEF PackageTold
    <2> HIDE DEF p
    <2> QED
      BY <1>1, <2>1, <2>2, <2>3, <2>4, EmitFiles
  <1>3. CASE SansioGate(i)
    <2> DEFINE p == Payload(i, "sansio", 0, None)
    <2>1. p.by = i /\ p.of = i /\ p.kind = "sansio"
      BY DEF Payload
    <2>2. /\ Leave(i, 1) /\ Emit(i, p) /\ junit' = junit
          /\ runs[i].at = "gates" /\ ~runs[i].package.sansio
      BY <1>3 DEF SansioGate
    <2>3. runs[i].gate = "open" /\ i \in 0..i
      BY <1>0, <2>2 DEF Staged, RunsInv
    <2> HIDE DEF p
    <2>4. PackageTold(p, runs[i].package, runs[i].code, runs[i].gate)
      BY <2>1, <2>2 DEF PackageTold
    <2> QED
      BY <1>1, <2>1, <2>2, <2>3, <2>4, EmitFiles
  <1>4. CASE Spawn(i)
    <2>1. /\ Advances(i, "starting", runs[i].waited, runs[i].code, runs[i].gate, runs[i].died)
          /\ Accounted(i, "starting", runs[i].waited, runs[i].code, runs[i].gate, runs[i].died)
      BY <1>4, SpawnAdvances DEF Spawn, Accounted
    <2> QED
      BY <2>1, SessionFiles DEF Stages
  <1>5. CASE Abort(i)
    <2>1. /\ Leave(i, runs[i].code) /\ Emit(i, Aborted(i)) /\ junit' = junit
          /\ runs[i].at = "over" /\ runs[i].code \in GateExits
      BY <1>5 DEF Abort
    <2>2. /\ Aborted(i).by = i /\ Aborted(i).of = i /\ Aborted(i).kind = "aborted"
          /\ Aborted(i).score = -1 /\ Aborted(i).counts = None
      BY DEF Aborted, Payload
    <2>3. runs[i].gate # "open" /\ runs[i].package.sansio /\ i \in 0..i /\ runs[i].code # 0
      BY <1>0, <2>1 DEF Staged, Checked, RunsInv, GateExits, EXIT_ISOLATION,
                        EXIT_PROBE_MISMATCH, EXIT_WRONG_CLIENT
    <2>4. runs[i].code \in Int
      BY RunIn DEF RunsInv, RunType
    <2> DEFINE p == Aborted(i)
    <2> HIDE DEF p
    <2>5. PackageTold(p, runs[i].package, runs[i].code, runs[i].gate)
      BY <2>2, <2>3, NoneMeasured DEF PackageTold, p
    <2> QED
      BY <1>1, <2>1, <2>2, <2>3, <2>4, <2>5, EmitFiles DEF p
  <1>6. CASE Score(i)
    <2> DEFINE file == parse_junit(runs[i].target)
               all == Passed(file.counts) = TOTAL_CASES
               p == Scored(i, file)
    <2>1. /\ runs[i].at = "over" /\ runs[i].code \notin GateExits /\ ~file.torn
          /\ Emit(i, p) /\ Leave(i, IF all THEN 0 ELSE 1) /\ junit' = junit
      BY <1>6 DEF Score
    <2>2. p.by = i /\ p.of = file.by /\ p.kind = "scored" /\ p.counts = file.counts
      BY DEF Scored, Payload
    <2>3. runs[i].gate = "open" /\ runs[i].package.sansio
      BY <1>0, <2>1 DEF Staged, Checked, RunsInv
    <2>4. file.by = i \/ Excused(i)
      <3>1. SessionLeftFile(i) /\ i # 0
        BY DEF FilesInv
      <3> QED
        BY <2>1, <3>1 DEF SessionLeftFile, parse_junit
    <2>5. (IF all THEN 0 ELSE 1) \in Int /\ ((IF all THEN 0 ELSE 1) = 0 => all)
      OBVIOUS
    <2>6. runs[i].target \in Targets
      BY RunIn DEF RunsInv, RunType
    <2>7. file.by \in 0..i
      <3>1. i = Len(runs)
        BY <1>0, <2>1 DEF RunsInv, Staged, Quiet
      <3> QED
        BY <2>6, <3>1 DEF parse_junit, FilesInv, RunsInv
    <2>8. ASSUME file.by = i
          PROVE  /\ Measured(file.counts, runs[i].package, runs[i].code, runs[i].gate)
                 /\ all => runs[i].package.passes = CHANNELS
      <3>1. file = junit[runs[i].target]
        BY <2>8 DEF parse_junit
      <3>2. JunitTrue(runs[i].target)
        BY <2>6 DEF FilesInv
      <3> HIDE DEF file
      <3>3. Measured(file.counts, runs[i].package, runs[i].code, runs[i].gate)
        BY <2>1, <2>8, <3>1, <3>2 DEF JunitTrue
      <3> QED
        BY <3>3 DEF Measured
    <2> HIDE DEF p, all, file
    <2>9. p.of = i => PackageTold(p, runs[i].package, runs[i].code, runs[i].gate)
      BY <2>2, <2>3, <2>8 DEF PackageTold
    <2>10. (IF all THEN 0 ELSE 1) = 0 => runs[i].package.passes = CHANNELS \/ Excused(i)
      BY <2>4, <2>5, <2>8
    <2> QED
      BY <1>1, <2>1, <2>2, <2>3, <2>4, <2>5, <2>7, <2>9, <2>10, EmitFiles
  <1>7. CASE Unparsed(i)
    <2>1. /\ runs[i].at = "over" /\ runs[i].code \notin GateExits
          /\ parse_junit(runs[i].target).torn
          /\ Leave(i, 1) /\ UNCHANGED <<junit, report>>
      BY <1>7 DEF Unparsed
    <2>2. Excused(i)
      <3>1. SessionLeftFile(i) /\ i # 0
        BY DEF FilesInv
      <3> QED
        BY <2>1, <3>1 DEF SessionLeftFile, parse_junit
    <2>3. /\ Advances(i, "left", runs[i].waited, runs[i].code, runs[i].gate, runs[i].died)
      BY <2>1, LeaveAdvances
    <2>4. FilesInv'
      <3>1. /\ RunsInv' /\ Grows /\ Len(runs') = Len(runs)
            /\ \A j \in 1..Len(runs) : j # i => runs'[j] = runs[j]
        BY <2>3, AdvanceRuns
      <3>2. runs'[i].at = "left" /\ runs'[i].target = runs[i].target
        BY <2>3 DEF Advances, Changed, Fields
      <3>3. \A j \in 1..Len(runs) : Excused(j) => Excused(j)'
        BY <3>1, ExcusedStays
      <3>4. \A j \in 1..Len(runs) : SessionLeftFile(j)' /\ RunLeftReport(j)' /\ ZeroEarned(j)'
        BY <2>1, <2>2, <3>1, <3>2, <3>3
           DEF FilesInv, SessionLeftFile, RunLeftReport, ZeroEarned
      <3>5. \A u \in Targets : JunitTrue(u)' /\ ReportTrue(u)'
        BY <2>1, <3>1, FileStays, ReportStays
      <3> QED
        BY <2>1, <3>1, <3>4, <3>5 DEF FilesInv
    <2> QED
      BY <2>3, <2>4 DEF Stages
  <1> QED
    BY <1>2, <1>3, <1>4, <1>5, <1>6, <1>7 DEF RunStep

-----------------------------------------------------------------------------
\* The steps of a session.

LEMMA EndFiles ==
  ASSUME RunsInv, FilesInv, NEW i \in 1..Len(runs), NEW c \in Int,
         NEW g \in {"open", "seed", "client", "isolation", "probe", "internal"}, End(i, c, g),
         c \in GateExits <=> g # "open", report' = report,
         \/ runs[i].at = "starting" /\ junit' = junit /\ g # "open"
         \/ /\ runs[i].at = "cases"
            /\ \E counts : Writes(i, counts) /\ Measured(counts, runs[i].package, c, g)
  PROVE  /\ FilesInv'
         /\ \E at \in Stages : Advances(i, at, runs[i].waited, c, g, runs[i].died)
  <1> DEFINE at == IF runs[i].waited THEN "over" ELSE "left"
             t == runs[i].target
  <1>1. Advances(i, at, runs[i].waited, c, g, runs[i].died)
    BY EndAdvances
  <1>2. at \in Stages /\ at \in Ended /\ (at = "left" => ~runs[i].waited)
    BY DEF Stages, Ended
  <1>3. t \in Targets
    BY RunIn DEF RunsInv, RunType
  <1>4. CASE junit' = junit /\ g # "open" /\ runs[i].at = "starting"
    <2>1. Accounted(i, at, runs[i].waited, c, g, runs[i].died)
      BY <1>2, <1>4 DEF Accounted
    <2> QED
      BY <1>1, <1>2, <2>1, SessionFiles
  <1>5. CASE /\ runs[i].at = "cases"
             /\ \E counts : Writes(i, counts) /\ Measured(counts, runs[i].package, c, g)
    <2>1. PICK counts : /\ junit' = [junit EXCEPT ![t] = [by |-> i, torn |-> FALSE,
                                                          counts |-> counts]]
                        /\ Measured(counts, runs[i].package, c, g)
      BY <1>5 DEF Writes
    <2>2. junit'[t].by = i /\ ~junit'[t].torn
      BY <1>3, <2>1 DEF FilesInv
    <2> HIDE DEF at
    <2>3. FileWritten(i, at, c, g) /\ runs[i].at = "cases" /\ runs[i].at # "left"
      BY <1>2, <1>5, <2>1 DEF FileWritten
    <2>4. Accounted(i, at, runs[i].waited, c, g, runs[i].died)
      BY <1>2, <2>2, <2>3 DEF Accounted
    <2> QED
      BY <1>1, <1>2, <2>4, SessionFiles
  <1> QED
    BY <1>4, <1>5

LEMMA SessionFilesStep ==
  ASSUME RunsInv, FilesInv, NEW i \in 1..Len(runs), SessionStep(i)
  PROVE  /\ FilesInv'
         /\ \E at, code, gate, died : Advances(i, at, runs[i].waited, code, gate, died)
  <1> USE DEF EXIT_ISOLATION, EXIT_PROBE_MISMATCH, EXIT_WRONG_CLIENT, INTERNAL_ERROR,
              USAGE_ERROR
  <1>0. Staged(runs[i].at, runs[i].waited, runs[i].code, runs[i].gate) /\ runs[i].code \in Int
    BY RunIn DEF RunsInv, RunType
  <1>1. Checked(runs[i].at, runs[i].package) /\ runs[i].package \in Packages
    BY RunIn DEF RunsInv, RunType
  <1>2. CASE SessionStart(i)
    <2>1. runs[i].at = "starting" /\ UNCHANGED <<junit, report>>
      BY <1>2 DEF SessionStart
    <2>2. CASE End(i, USAGE_ERROR, "seed") \/ End(i, EXIT_WRONG_CLIENT, "client")
      BY <2>1, <2>2, EndFiles DEF GateExits
    <2>3. CASE runs' = [runs EXCEPT ![i].at = "cases"]
      <3>1. Changed(i, "cases", runs[i].waited, runs[i].code, runs[i].gate, runs[i].died)
        BY <2>3, SetAt DEF RunsInv, Stages, Changed
      <3>2. Advances(i, "cases", runs[i].waited, runs[i].code, runs[i].gate, runs[i].died)
        BY <1>0, <1>1, <2>1, <3>1 DEF Advances, Staged, Quiet, Checked, Ended
      <3>3. Accounted(i, "cases", runs[i].waited, runs[i].code, runs[i].gate, runs[i].died)
        BY <2>1 DEF Accounted
      <3> QED
        BY <3>2, <3>3, SessionFiles
    <2> QED
      BY <1>2, <2>2, <2>3 DEF SessionStart
  <1>3. CASE CasesOver(i)
    <2> DEFINE c == IF runs[i].package.passes = CHANNELS THEN 0 ELSE 1
    <2>1. c \in Int /\ c \notin GateExits
      BY DEF GateExits
    <2>2. End(i, c, "open") /\ report' = report /\ runs[i].at = "cases"
          /\ Writes(i, runs[i].package.passes)
      BY <1>3 DEF CasesOver
    <2> HIDE DEF c
    <2>3. Measured(runs[i].package.passes, runs[i].package, c, "open")
      BY <1>1, OwnMeasured
    <2> QED
      BY <2>1, <2>2, <2>3, EndFiles
  <1>4. CASE CollectionFails(i)
    <2>1. End(i, 2, "open") /\ report' = report /\ runs[i].at = "cases" /\ Writes(i, None)
      BY <1>4 DEF CollectionFails
    <2>2. Measured(None, runs[i].package, 2, "open")
      BY NoneMeasured
    <2> QED
      BY <2>1, <2>2, EndFiles DEF GateExits
  <1>5. CASE Interrupted(i)
    <2>1. PICK counts \in {None, [runs[i].package.passes EXCEPT !.resource = 0]} :
            Writes(i, counts)
      BY <1>5 DEF Interrupted
    <2>2. runs[i].at = "cases" /\ report' = report
      BY <1>5 DEF Interrupted
    <2>3. ASSUME NEW code, NEW gate, gate # "open"
          PROVE  Measured(counts, runs[i].package, code, gate)
      BY <1>1, <2>3, NoneMeasured, PartMeasured
    <2>4. CASE End(i, EXIT_ISOLATION, "isolation")
      BY <2>1, <2>2, <2>3, <2>4, EndFiles DEF GateExits
    <2>5. CASE End(i, EXIT_PROBE_MISMATCH, "probe")
      BY <2>1, <2>2, <2>3, <2>5, EndFiles DEF GateExits
    <2>6. CASE End(i, INTERNAL_ERROR, "internal")
      BY <2>1, <2>2, <2>3, <2>6, EndFiles DEF GateExits
    <2> QED
      BY <1>5, <2>4, <2>5, <2>6 DEF Interrupted
  <1>6. CASE Die(i)
    <2> DEFINE at == IF runs[i].waited THEN "over" ELSE "left"
    <2>1. Advances(i, at, runs[i].waited, Killed, runs[i].gate, TRUE)
      BY <1>6, DieAdvances
    <2>2. /\ report' = report /\ runs[i].at # "left"
          /\ \/ junit' = junit
             \/ runs[i].at = "cases" /\ FileWritten(i, at, Killed, runs[i].gate)
      BY <1>6 DEF Die, FileWritten
    <2>3. Accounted(i, at, runs[i].waited, Killed, runs[i].gate, TRUE)
      BY <2>2 DEF Accounted
    <2> HIDE DEF at
    <2> QED
      BY <2>1, <2>3, SessionFiles
  <1> QED
    BY <1>2, <1>3, <1>4, <1>5, <1>6 DEF SessionStep

-----------------------------------------------------------------------------
\* The rows.

\* A row is its own run's, or one of the exceptions.  It stays so while runs go on.
Own(rs, row) ==
    /\ row.run \in 1..Len(rs)
    /\ \/ row.of \in {0, row.run}
       \/ rs[row.run].died
       \/ \E j \in 1..(row.run - 1) :
             rs[j].target = rs[row.run].target /\ ~rs[j].waited

\* What JudgedTruly says of a row, and why it stays so: the run is over, or was given
\* up, and then the row counts no case of it.
Judged(rs, row) ==
    LET run == rs[row.run]
    IN  /\ row.timed_out <=> ~run.waited
        /\ run.waited => run.at = "left"
        /\ row.timed_out => row.of # row.run /\ row.verdict = "timed out"
        /\ row.of = row.run /\ row.verdict # "-" =>
              /\ row.verdict = "no effect" => run.package.passes = CHANNELS
              /\ row.verdict = "sans-io gate" <=> ~run.package.sansio
              /\ row.verdict = "total loss" =>
                    \/ Passed(run.package.passes) = 0
                    \/ run.gate # "open" \/ run.code = 2

\* A row of a mutation carries the verdict of what it was read from.
Formed(row) ==
    /\ row = [name |-> row.name, counts |-> row.counts, verdict |-> row.verdict,
              missed |-> row.missed, timed_out |-> row.timed_out,
              aborted |-> row.aborted, sansio |-> row.sansio,
              of |-> row.of, run |-> row.run]
    /\ row.name # Control =>
          LET v == verdict(row.counts, by_name(row.name), row)
          IN  row.verdict = v.word /\ row.missed = v.missed

Sound(rs, row) == Own(rs, row) /\ Judged(rs, row) /\ Formed(row)

\* No two rows of one name.
Distinct(s) == \A j, k \in 1..Len(s) : s[j].name = s[k].name => j = k

SoundRows(rs, s) == (\E S : s \in Seq(S) /\ \A row \in S : Sound(rs, row)) /\ Distinct(s)
SoundFiles(rs, f) == \E S : f \in Seq(S) /\ \A s \in S : SoundRows(rs, s)

RowsInv == SoundRows(runs, tool.rows) /\ SoundFiles(runs, saved)

LEMMA OwnStays ==
  ASSUME RunsInv, Grows, NEW row, Own(runs, row)
  PROVE  Own(runs', row)
  <1> DEFINE i == row.run
  <1>1. i \in 1..Len(runs) /\ Len(runs) \in Nat
    BY DEF Own, RunsInv
  <1>2. i \in 1..Len(runs') /\ (runs[i].died => runs'[i].died)
    BY <1>1 DEF Grows
  <1>3. ASSUME NEW j \in 1..(i - 1), runs[j].target = runs[i].target, ~runs[j].waited
        PROVE  runs'[j].target = runs'[i].target /\ ~runs'[j].waited
    BY <1>1, <1>3 DEF Grows
  <1> QED
    BY <1>2, <1>3 DEF Own

LEMMA JudgedStays ==
  ASSUME RunsInv, Grows, NEW row, row.run \in 1..Len(runs), Judged(runs, row)
  PROVE  Judged(runs', row)
  <1> DEFINE i == row.run
  <1>1. /\ runs'[i].package = runs[i].package
        /\ ~runs[i].waited => ~runs'[i].waited
        /\ runs[i].at = "left" => runs'[i].at = "left" /\ runs'[i].waited = runs[i].waited
        /\ runs[i].at \in Ended => runs'[i].code = runs[i].code /\ runs'[i].gate = runs[i].gate
    BY DEF Grows
  <1>2. CASE runs[i].waited
    BY <1>1, <1>2 DEF Judged, Ended
  <1>3. CASE ~runs[i].waited
    BY <1>1, <1>3 DEF Judged
  <1> QED
    BY <1>2, <1>3

LEMMA RowsStay ==
  ASSUME RunsInv, Grows
  PROVE  /\ \A s : SoundRows(runs, s) => SoundRows(runs', s)
         /\ \A f : SoundFiles(runs, f) => SoundFiles(runs', f)
  <1>1. ASSUME NEW row, Sound(runs, row) PROVE Sound(runs', row)
    <2>1. row.run \in 1..Len(runs)
      BY <1>1 DEF Sound, Own
    <2> QED
      BY <1>1, <2>1, OwnStays, JudgedStays DEF Sound
  <1>2. ASSUME NEW s, SoundRows(runs, s) PROVE SoundRows(runs', s)
    BY <1>1, <1>2 DEF SoundRows
  <1> QED
    BY <1>2 DEF SoundFiles

LEMMA NoRows ==
  ASSUME NEW rs
  PROVE  SoundRows(rs, <<>>) /\ SoundFiles(rs, <<>>)
  <1> DEFINE none == {}
  <1>1. << >> \in Seq(none) /\ \A x : x \notin none
    OBVIOUS
  <1>2. Distinct(<<>>)
    BY DEF Distinct
  <1> HIDE DEF none
  <1>3. SoundRows(rs, <<>>)
    BY <1>1, <1>2 DEF SoundRows
  <1>4. SoundFiles(rs, <<>>)
    BY <1>1 DEF SoundFiles
  <1> QED
    BY <1>3, <1>4

LEMMA AppendSound ==
  ASSUME NEW rs, NEW s, SoundRows(rs, s), NEW row, Sound(rs, row),
         \A k \in 1..Len(s) : s[k].name # row.name
  PROVE  /\ SoundRows(rs, Append(s, row)) /\ Len(s) \in Nat
         /\ Len(Append(s, row)) = Len(s) + 1
         /\ \A k \in 1..Len(s) : Append(s, row)[k] = s[k]
         /\ Append(s, row)[Len(s) + 1] = row
  <1> DEFINE z == Append(s, row)
  <1>1. PICK S : s \in Seq(S) /\ \A x \in S : Sound(rs, x)
    BY DEF SoundRows
  <1>2. s \in Seq(S \cup {row})
    BY <1>1
  <1>3. /\ z \in Seq(S \cup {row}) /\ Len(s) \in Nat /\ Len(z) = Len(s) + 1
        /\ \A k \in 1..Len(s) : z[k] = s[k]
        /\ z[Len(s) + 1] = row
    BY <1>2
  <1>4. \A x \in S \cup {row} : Sound(rs, x)
    BY <1>1
  <1> HIDE DEF z
  <1>5. Distinct(z)
    <2> SUFFICES ASSUME NEW j \in 1..(Len(s) + 1), NEW k \in 1..(Len(s) + 1),
                        z[j].name = z[k].name
                 PROVE  j = k
      BY <1>3 DEF Distinct
    <2>1. CASE j # Len(s) + 1 /\ k # Len(s) + 1
      BY <1>3, <2>1 DEF SoundRows, Distinct
    <2>2. CASE j = Len(s) + 1 /\ k # Len(s) + 1
      BY <1>3, <2>2
    <2>3. CASE j # Len(s) + 1 /\ k = Len(s) + 1
      BY <1>3, <2>3
    <2> QED
      BY <2>1, <2>2, <2>3
  <1> QED
    BY <1>3, <1>4, <1>5 DEF SoundRows, z

LEMMA AppendFile ==
  ASSUME NEW rs, NEW f, SoundFiles(rs, f), NEW s, SoundRows(rs, s)
  PROVE  SoundFiles(rs, Append(f, s))
  <1>1. PICK S : f \in Seq(S) /\ \A x \in S : SoundRows(rs, x)
    BY DEF SoundFiles
  <1>2. Append(f, s) \in Seq(S \cup {s})
    <2>1. f \in Seq(S \cup {s})
      BY <1>1
    <2> QED
      BY <2>1
  <1>3. \A x \in S \cup {s} : SoundRows(rs, x)
    BY <1>1
  <1> QED
    BY <1>2, <1>3 DEF SoundFiles

\* Rows of a single file, none of whose names is there twice, are judged again as they were.
LEMMA JudgedAgain ==
  ASSUME NEW S, NEW s \in Seq(S), Distinct(s), \A row \in S : Formed(row)
  PROVE  rerender(<<s>>) = {s[k] : k \in DOMAIN s}
  <1> DEFINE files == <<s>>
             all == UNION {{<<k, j>> : j \in DOMAIN files[k]} : k \in DOMAIN files}
             later(x, y) ==
                 /\ files[x[1]][x[2]].name = files[y[1]][y[2]].name
                 /\ x[1] > y[1] \/ (x[1] = y[1] /\ x[2] > y[2])
             kept == {x \in all : \A y \in all : ~later(y, x)}
             again(row) ==
                 IF row.name = Control THEN row
                 ELSE LET v == verdict(row.counts, by_name(row.name), row)
                      IN  [row EXCEPT !.verdict = v.word, !.missed = v.missed]
  <1>1. rerender(files) = {again(files[x[1]][x[2]]) : x \in kept}
    BY DEF rerender
  <1>2. files = <<s>>
    OBVIOUS
  <1>3. DOMAIN files = {1} /\ files[1] = s /\ DOMAIN s = 1..Len(s)
    OBVIOUS
  <1> HIDE DEF files
  <1>4. all = {<<1, j>> : j \in 1..Len(s)}
    BY <1>3
  <1> HIDE DEF all
  <1>5. kept = {<<1, j>> : j \in 1..Len(s)}
    <2>1. ASSUME NEW j \in 1..Len(s), NEW k \in 1..Len(s) PROVE ~later(<<1, k>>, <<1, j>>)
      <3>1. CASE j = k
        BY <3>1
      <3>2. CASE j # k
        BY <1>3, <3>2 DEF Distinct
      <3> QED
        BY <3>1, <3>2
    <2> HIDE DEF later
    <2> QED
      BY <1>4, <2>1
  <1> HIDE DEF kept
  <1>6. ASSUME NEW row \in S PROVE again(row) = row
    <2>1. CASE row.name = Control
      BY <2>1
    <2>2. CASE row.name # Control
      <3> DEFINE v == verdict(row.counts, by_name(row.name), row)
      <3>1. v.word = row.verdict /\ v.missed = row.missed /\ Formed(row)
        BY <2>2 DEF Formed
      <3>2. again(row) = [row EXCEPT !.verdict = v.word, !.missed = v.missed]
        BY <2>2
      <3> HIDE DEF v
      <3>3. [row EXCEPT !.verdict = row.verdict, !.missed = row.missed] = row
        BY <3>1 DEF Formed
      <3> QED
        BY <3>1, <3>2, <3>3
    <2> QED
      BY <2>1, <2>2
  <1> HIDE DEF again
  <1>7. ASSUME NEW j \in 1..Len(s) PROVE again(files[<<1, j>>[1]][<<1, j>>[2]]) = s[j]
    <2>1. files[<<1, j>>[1]][<<1, j>>[2]] = s[j]
      BY <1>3
    <2>2. again(s[j]) = s[j]
      BY <1>6
    <2> QED
      BY <2>1, <2>2
  <1> DEFINE judged(x) == again(files[x[1]][x[2]])
  <1>8. \A j \in 1..Len(s) : judged(<<1, j>>) = s[j]
    BY <1>7
  <1>9. rerender(files) = {judged(x) : x \in kept}
    BY <1>1
  <1> HIDE DEF judged
  <1>10. rerender(files) = {judged(<<1, j>>) : j \in 1..Len(s)}
    BY <1>5, <1>9
  <1>11. {judged(<<1, j>>) : j \in 1..Len(s)} = {s[j] : j \in 1..Len(s)}
    BY <1>8
  <1> QED
    BY <1>2, <1>3, <1>10, <1>11

\* What RowsAreOwn and VerdictsTrue say follows.
LEMMA RowsInvSuffices ==
  ASSUME RowsInv
  PROVE  RowsAreOwn /\ VerdictsTrue
  <1>1. ASSUME NEW s, SoundRows(runs, s), NEW k \in DOMAIN s
        PROVE  Own(runs, s[k]) /\ Judged(runs, s[k])
    <2>1. PICK S : s \in Seq(S) /\ \A x \in S : Sound(runs, x)
      BY <1>1 DEF SoundRows
    <2>2. s[k] \in S
      BY <1>1, <2>1
    <2> QED
      BY <2>1, <2>2 DEF Sound
  <1>2. ASSUME NEW f \in DOMAIN saved
        PROVE  SoundRows(runs, saved[f])
    <2>1. PICK S : saved \in Seq(S) /\ \A x \in S : SoundRows(runs, x)
      BY DEF RowsInv, SoundFiles
    <2> QED
      BY <1>2, <2>1
  <1>3. ASSUME NEW row \in Rows PROVE Own(runs, row) /\ Judged(runs, row)
    BY <1>1, <1>2, <1>3 DEF Rows, RowsInv
  <1>4. ASSUME NEW f \in DOMAIN saved
        PROVE  rerender(<<saved[f]>>) = {saved[f][k] : k \in DOMAIN saved[f]}
    <2>1. PICK S : saved[f] \in Seq(S) /\ \A x \in S : Sound(runs, x)
      BY <1>2 DEF SoundRows
    <2>2. Distinct(saved[f]) /\ \A x \in S : Formed(x)
      BY <1>2, <2>1 DEF SoundRows, Sound
    <2> QED
      BY <2>1, <2>2, JudgedAgain
  <1>5. RowsAreOwn
    BY <1>3 DEF RowsAreOwn, Own
  <1>6. VerdictsTrue
    BY <1>3, <1>4 DEF VerdictsTrue, JudgedTruly, Judged, RerenderAgrees
  <1> QED
    BY <1>5, <1>6

-----------------------------------------------------------------------------
\* The runner.

\* The mutations, and the control, that the runner may run.
Places == {m \in {0} \cup DOMAIN MUTATIONS : Mutation(m).name \in Targets}

\* Its rows and its exit code apart.
IsTool(t) ==
    t \in [pc : {"idle", "next", "waiting"}, todo : SUBSET Places, mutation : Places,
          rows : {t.rows}, exit : {t.exit}, started : Nat]

\* The places it has no row of yet.
Pending(t) == t.todo \cup (IF t.pc = "waiting" THEN {t.mutation} ELSE {})
Unjudged(t) ==
    /\ \A k \in 1..Len(t.rows), m \in Pending(t) : t.rows[k].name # Mutation(m).name
    /\ t.pc = "waiting" => t.mutation \notin t.todo

\* It starts nothing while a run may still read a file, and the run it waits for is the
\* newest, whose package is there.
ToolInv ==
    /\ IsTool(tool) /\ Unjudged(tool)
    /\ tool.started = 0 =>
          tool.pc = "idle" /\ \A i \in 1..Len(runs) : runs[i].target = ByHand
    /\ tool.pc # "waiting" /\ tool.started # 0 => AllQuiet
    /\ tool.pc = "waiting" =>
          /\ Len(runs) # 0 /\ runs[Len(runs)].waited
          /\ runs[Len(runs)].target = Mutation(tool.mutation).name
          /\ runs[Len(runs)].package.there

LEMMA PlaceTargets ==
  ASSUME NEW m \in Places
  PROVE  Mutation(m).name \in Targets
  BY DEF Places

\* A place is told by its name, and the catalogue gives its mutation back.
LEMMA NamesDiffer ==
  ASSUME NEW m \in Places, NEW n \in Places, Mutation(m).name = Mutation(n).name
  PROVE  m = n
  <1>1. Mutation(0).name = Control
    BY DEF Mutation
  <1>2. ASSUME NEW k \in Places, k # 0
        PROVE  /\ k \in DOMAIN MUTATIONS /\ Mutation(k) = MUTATIONS[k]
               /\ MUTATIONS[k].name \in Catalogued
    BY <1>2 DEF Places, Mutation, Catalogued
  <1>3. CASE m = 0 \/ n = 0
    BY <1>1, <1>2, <1>3, ControlAssumption
  <1>4. CASE m # 0 /\ n # 0
    <2>1. MUTATIONS[m].name = MUTATIONS[n].name /\ m \in DOMAIN MUTATIONS /\ n \in DOMAIN MUTATIONS
      BY <1>2, <1>4
    <2> QED
      BY <2>1, NamesAssumption
  <1> QED
    BY <1>3, <1>4

LEMMA NamedEntry ==
  ASSUME NEW m \in Places, Mutation(m).name # Control
  PROVE  by_name(Mutation(m).name) = Mutation(m)
  <1>1. m # 0
    BY DEF Mutation
  <1>2. m \in DOMAIN MUTATIONS /\ Mutation(m) = MUTATIONS[m]
    BY <1>1 DEF Places, Mutation
  <1> DEFINE name == MUTATIONS[m].name
             i == CHOOSE k \in DOMAIN MUTATIONS : MUTATIONS[k].name = name
  <1>3. i \in DOMAIN MUTATIONS /\ MUTATIONS[i].name = name
    BY <1>2
  <1>4. i = m
    BY <1>2, <1>3, NamesAssumption
  <1> QED
    BY <1>2, <1>4 DEF by_name

LEMMA ControlPlace ==
  0 \in Places
  <1>1. Mutation(0).name = Control
    BY DEF Mutation
  <1> QED
    BY <1>1, TargetsAssumption DEF Places

LEMMA SelectedPlaces ==
  ASSUME NEW args \in Invocations, ~Refused(args)
  PROVE  Selected(args) \subseteq Places
  <1> SUFFICES ASSUME NEW m \in Selected(args)
               PROVE  m \in Places
    OBVIOUS
  <1>1. m \in DOMAIN MUTATIONS
    BY DEF Selected
  <1>2. CASE m = 0
    BY <1>2, ControlPlace
  <1>3. CASE m # 0
    <2>1. Mutation(m) = MUTATIONS[m]
      BY <1>3 DEF Mutation
    <2>2. MUTATIONS[m].name \in Targets
      BY TargetsAssumption
    <2> QED
      BY <1>1, <2>1, <2>2 DEF Places
  <1> QED
    BY <1>2, <1>3

LEMMA IdleTool ==
  ASSUME NEW exit, NEW started \in Nat
  PROVE  /\ IsTool(Idle(exit, started)) /\ Unjudged(Idle(exit, started))
         /\ Idle(exit, started).pc = "idle" /\ Idle(exit, started).rows = <<>>
         /\ Idle(exit, started).started = started
  BY ControlPlace DEF Idle, IsTool, Unjudged, Pending

LEMMA BeginTool ==
  ASSUME NEW todo \in SUBSET Places, NEW started \in Nat,
         NEW t, t = [pc |-> "next", todo |-> todo, mutation |-> 0, rows |-> <<>>,
                     exit |-> 0, started |-> started]
  PROVE  IsTool(t) /\ Unjudged(t) /\ t.pc = "next" /\ t.rows = <<>> /\ t.started = started
  BY ControlPlace DEF IsTool, Unjudged

LEMMA SetPc ==
  ASSUME NEW t, IsTool(t), NEW x \in {"idle", "next", "waiting"}
  PROVE  /\ IsTool([t EXCEPT !.pc = x]) /\ [t EXCEPT !.pc = x].pc = x
         /\ [t EXCEPT !.pc = x].todo = t.todo /\ [t EXCEPT !.pc = x].mutation = t.mutation
         /\ [t EXCEPT !.pc = x].rows = t.rows /\ [t EXCEPT !.pc = x].started = t.started
  BY DEF IsTool

LEMMA SetTodo ==
  ASSUME NEW t, IsTool(t), NEW x \in SUBSET Places
  PROVE  /\ IsTool([t EXCEPT !.todo = x]) /\ [t EXCEPT !.todo = x].pc = t.pc
         /\ [t EXCEPT !.todo = x].todo = x /\ [t EXCEPT !.todo = x].mutation = t.mutation
         /\ [t EXCEPT !.todo = x].rows = t.rows /\ [t EXCEPT !.todo = x].started = t.started
  BY DEF IsTool

LEMMA SetMutation ==
  ASSUME NEW t, IsTool(t), NEW x \in Places
  PROVE  /\ IsTool([t EXCEPT !.mutation = x]) /\ [t EXCEPT !.mutation = x].pc = t.pc
         /\ [t EXCEPT !.mutation = x].todo = t.todo
         /\ [t EXCEPT !.mutation = x].mutation = x
         /\ [t EXCEPT !.mutation = x].rows = t.rows
         /\ [t EXCEPT !.mutation = x].started = t.started
  BY DEF IsTool

LEMMA SetRows ==
  ASSUME NEW t, IsTool(t), NEW x
  PROVE  /\ IsTool([t EXCEPT !.rows = x]) /\ [t EXCEPT !.rows = x].pc = t.pc
         /\ [t EXCEPT !.rows = x].todo = t.todo
         /\ [t EXCEPT !.rows = x].mutation = t.mutation
         /\ [t EXCEPT !.rows = x].rows = x /\ [t EXCEPT !.rows = x].started = t.started
  BY DEF IsTool

\* What a row is made from: the report of a run that is over, or nothing of a run that
\* was given up.
Fit(rs, payload) ==
    LET run == rs[payload.run]
    IN  /\ payload.timed_out <=> ~run.waited
        /\ run.waited => run.at = "left"
        /\ payload.timed_out =>
              payload.of # payload.run /\ ~payload.sansio /\ payload.counts = None
        /\ payload.of = payload.run =>
              /\ payload.sansio <=> ~run.package.sansio
              /\ ~payload.sansio =>
                    Measured(payload.counts, run.package, run.code, run.gate)

LEMMA RowFields ==
  ASSUME NEW mutation, NEW payload, NEW v, v = verdict(payload.counts, mutation, payload),
         NEW row, row = RowOf(mutation, payload)
  PROVE  /\ row.name = mutation.name /\ row.counts = payload.counts
         /\ row.verdict = v.word /\ row.missed = v.missed
         /\ row.timed_out = payload.timed_out /\ row.sansio = payload.sansio
         /\ row.of = payload.of /\ row.run = payload.run
         /\ row = [name |-> row.name, counts |-> row.counts, verdict |-> row.verdict,
                   missed |-> row.missed, timed_out |-> row.timed_out,
                   aborted |-> row.aborted, sansio |-> row.sansio,
                   of |-> row.of, run |-> row.run]
  <1>1. row = [name |-> mutation.name, counts |-> payload.counts, verdict |-> v.word,
               missed |-> v.missed, timed_out |-> payload.timed_out,
               aborted |-> payload.aborted, sansio |-> payload.sansio,
               of |-> payload.of, run |-> payload.run]
    BY DEF RowOf
  <1> QED
    BY <1>1

\* The words of a verdict, by what they are read from.
LEMMA VerdictWords ==
  ASSUME NEW counts, NEW mutation, NEW row,
         NEW v, v = verdict(counts, mutation, row)
  PROVE  /\ v.word = "sans-io gate" <=> row.sansio
         /\ v.word = "timed out" <=> ~row.sansio /\ row.timed_out
         /\ v.word = "no effect" => ~row.sansio /\ Passed(counts) = TOTAL_CASES
         /\ v.word = "total loss" => ~row.sansio /\ Passed(counts) = 0
  BY DEF verdict, NoCase

LEMMA RowSound ==
  ASSUME NEW rs, NEW m \in Places, NEW payload, Own(rs, payload), Fit(rs, payload),
         Mutation(m).name # Control
  PROVE  LET row == RowOf(Mutation(m), payload)
         IN  Sound(rs, row) /\ row.name = Mutation(m).name
  <1> DEFINE mutation == Mutation(m)
             v == verdict(payload.counts, mutation, payload)
             row == RowOf(mutation, payload)
  <1>1. /\ row.name = mutation.name /\ row.counts = payload.counts
        /\ row.verdict = v.word /\ row.missed = v.missed
        /\ row.timed_out = payload.timed_out /\ row.sansio = payload.sansio
        /\ row.of = payload.of /\ row.run = payload.run
        /\ row = [name |-> row.name, counts |-> row.counts, verdict |-> row.verdict,
                  missed |-> row.missed, timed_out |-> row.timed_out,
                  aborted |-> row.aborted, sansio |-> row.sansio,
                  of |-> row.of, run |-> row.run]
    BY RowFields
  <1>2. by_name(mutation.name) = mutation
    BY NamedEntry
  <1>3. v = verdict(payload.counts, mutation, payload)
    OBVIOUS
  <1> HIDE DEF row, v, mutation
  <1>4. /\ v.word = "sans-io gate" <=> payload.sansio
        /\ v.word = "timed out" <=> ~payload.sansio /\ payload.timed_out
        /\ v.word = "no effect" => ~payload.sansio /\ Passed(payload.counts) = TOTAL_CASES
        /\ v.word = "total loss" => ~payload.sansio /\ Passed(payload.counts) = 0
    BY <1>3, VerdictWords
  <1>5. verdict(row.counts, by_name(row.name), row) = v
    BY <1>1, <1>2, <1>3 DEF verdict
  <1>6. Formed(row)
    BY <1>1, <1>5 DEF Formed
  <1>7. Own(rs, row)
    BY <1>1 DEF Own
  <1>8. Judged(rs, row)
    BY <1>1, <1>4 DEF Judged, Fit, Measured
  <1> QED
    BY <1>1, <1>6, <1>7, <1>8 DEF Sound, row, mutation

\* The row of a control that passed every case has no verdict.
LEMMA ControlSound ==
  ASSUME NEW rs, NEW m \in Places, NEW payload, Own(rs, payload), Fit(rs, payload),
         Mutation(m).name = Control, Passed(payload.counts) = TOTAL_CASES
  PROVE  LET bare == [RowOf(Mutation(m), payload) EXCEPT !.verdict = "-"]
         IN  Sound(rs, bare) /\ bare.name = Mutation(m).name
  <1> DEFINE mutation == Mutation(m)
             bare == [RowOf(mutation, payload) EXCEPT !.verdict = "-"]
  <1>1. /\ bare.name = mutation.name /\ bare.verdict = "-"
        /\ bare.timed_out = payload.timed_out
        /\ bare.of = payload.of /\ bare.run = payload.run
        /\ bare = [name |-> bare.name, counts |-> bare.counts, verdict |-> bare.verdict,
                   missed |-> bare.missed, timed_out |-> bare.timed_out,
                   aborted |-> bare.aborted, sansio |-> bare.sansio,
                   of |-> bare.of, run |-> bare.run]
    <2> DEFINE row == RowOf(mutation, payload)
    <2>1. /\ row.name = mutation.name /\ row.timed_out = payload.timed_out
          /\ row.of = payload.of /\ row.run = payload.run
          /\ row = [name |-> row.name, counts |-> row.counts, verdict |-> row.verdict,
                    missed |-> row.missed, timed_out |-> row.timed_out,
                    aborted |-> row.aborted, sansio |-> row.sansio,
                    of |-> row.of, run |-> row.run]
      BY RowFields
    <2>2. bare = [row EXCEPT !.verdict = "-"]
      OBVIOUS
    <2> HIDE DEF row, bare
    <2> QED
      BY <2>1, <2>2
  <1> HIDE DEF bare, mutation
  <1>2. ~payload.timed_out
    <2>1. Passed(None) # TOTAL_CASES
      BY DEF Passed, TOTAL_CASES, None, CHANNELS, Channels
    <2> QED
      BY <2>1 DEF Fit
  <1>3. Own(rs, bare) /\ Judged(rs, bare)
    BY <1>1, <1>2 DEF Own, Judged, Fit
  <1>4. Formed(bare)
    BY <1>1 DEF Formed, mutation
  <1> QED
    BY <1>1, <1>3, <1>4 DEF Sound, bare, mutation

\* A row is taken: the runner goes on to the next mutation, or stops at a control that
\* did not pass.
LEMMA TakeRowTool ==
  ASSUME IsTool(tool), Unjudged(tool), tool.pc = "waiting", NEW payload, TakeRow(payload),
         NEW rs, SoundRows(rs, tool.rows), Own(rs, payload), Fit(rs, payload)
  PROVE  /\ IsTool(tool') /\ Unjudged(tool') /\ tool'.pc \in {"next", "idle"}
         /\ tool'.started = tool.started
         /\ SoundRows(rs, tool'.rows)
  <1> DEFINE m == tool.mutation
             a == [tool EXCEPT !.pc = "next"]
             rest == [a EXCEPT !.mutation = 0]
  <1>0. /\ tool.started \in Nat /\ m \in Places /\ tool.todo \subseteq Places
        /\ m \notin tool.todo
    BY DEF IsTool, Unjudged
  <1>1. /\ IsTool(a) /\ a.pc = "next" /\ a.rows = tool.rows /\ a.started = tool.started
        /\ a.todo = tool.todo
    BY SetPc
  <1> HIDE DEF a
  <1>2. /\ IsTool(rest) /\ rest.pc = "next" /\ rest.rows = tool.rows
        /\ rest.started = tool.started /\ rest.todo = tool.todo
    BY <1>1, ControlPlace, SetMutation
  <1> HIDE DEF rest
  <1>3. ASSUME NEW row, Sound(rs, row), row.name = Mutation(m).name,
               tool' = [rest EXCEPT !.rows = Append(@, row)]
        PROVE  /\ IsTool(tool') /\ Unjudged(tool') /\ tool'.pc = "next"
               /\ tool'.started = tool.started
               /\ SoundRows(rs, tool'.rows)
    <2> DEFINE x == Append(tool.rows, row)
    <2>1. \A k \in 1..Len(tool.rows) : tool.rows[k].name # row.name
      BY <1>3 DEF Unjudged, Pending
    <2>2. /\ SoundRows(rs, x) /\ Len(tool.rows) \in Nat /\ Len(x) = Len(tool.rows) + 1
          /\ \A k \in 1..Len(tool.rows) : x[k] = tool.rows[k]
          /\ x[Len(tool.rows) + 1] = row
      BY <1>3, <2>1, AppendSound
    <2>3. tool' = [rest EXCEPT !.rows = x]
      BY <1>2, <1>3
    <2> HIDE DEF x
    <2>4. /\ IsTool(tool') /\ tool'.pc = "next" /\ tool'.started = tool.started
          /\ tool'.rows = x /\ tool'.todo = tool.todo
      BY <1>2, <2>3, SetRows
    <2>5. ASSUME NEW k \in 1..Len(x), NEW n \in tool.todo
          PROVE  x[k].name # Mutation(n).name
      <3>1. CASE k = Len(tool.rows) + 1
        BY <1>0, <1>3, <2>2, <3>1, NamesDiffer
      <3>2. CASE k # Len(tool.rows) + 1
        <4>1. k \in 1..Len(tool.rows) /\ n \in Pending(tool)
          BY <2>2, <3>2 DEF Pending
        <4> QED
          BY <2>2, <4>1 DEF Unjudged
      <3> QED
        BY <3>1, <3>2
    <2>6. Unjudged(tool')
      BY <2>4, <2>5 DEF Unjudged, Pending
    <2> QED
      BY <2>2, <2>4, <2>6
  <1>4. CASE /\ Mutation(m).name # Control
             /\ tool' = [rest EXCEPT !.rows = Append(@, RowOf(Mutation(m), payload))]
    <2>1. Sound(rs, RowOf(Mutation(m), payload))
          /\ RowOf(Mutation(m), payload).name = Mutation(m).name
      BY <1>0, <1>4, RowSound
    <2> QED
      BY <1>3, <1>4, <2>1
  <1>5. CASE /\ Mutation(m).name = Control /\ Passed(payload.counts) = TOTAL_CASES
             /\ tool' = [rest EXCEPT !.rows =
                           Append(@, [RowOf(Mutation(m), payload) EXCEPT !.verdict = "-"])]
    <2> DEFINE bare == [RowOf(Mutation(m), payload) EXCEPT !.verdict = "-"]
    <2>1. Sound(rs, bare) /\ bare.name = Mutation(m).name
      BY <1>0, <1>5, ControlSound
    <2>2. tool' = [rest EXCEPT !.rows = Append(@, bare)]
      BY <1>5
    <2> HIDE DEF bare
    <2> QED
      BY <1>3, <2>1, <2>2
  <1>6. CASE tool' = Idle(1, tool.started)
    BY <1>0, <1>6, IdleTool, NoRows
  <1> QED
    BY <1>4, <1>5, <1>6 DEF TakeRow, a, rest

-----------------------------------------------------------------------------
\* The steps of Evaluation.

Inv == RunsInv /\ FilesInv /\ ToolInv /\ RowsInv

\* A run goes on, or its session does, and the runner does nothing.
LEMMA RunnerWaits ==
  ASSUME Inv, UNCHANGED <<tool, saved>>, NEW i \in 1..Len(runs), NEW at, NEW code, NEW gate,
         NEW died, Advances(i, at, runs[i].waited, code, gate, died), FilesInv'
  PROVE  Inv'
  <1>1. /\ RunsInv' /\ Grows /\ Len(runs') = Len(runs)
        /\ \A j \in 1..Len(runs) : j # i => runs'[j] = runs[j]
    BY AdvanceRuns DEF Inv
  <1>2. /\ runs'[i].target = runs[i].target /\ runs'[i].at = at
        /\ runs'[i].waited = runs[i].waited /\ (Quiet(i) => at = "left" \/ ~runs[i].waited)
    BY DEF Advances, Changed, Fields
  <1>3. Len(runs) \in Nat
    BY DEF Inv, RunsInv
  <1>4. \A j \in 1..Len(runs) : /\ runs'[j].target = runs[j].target
                                /\ runs'[j].waited = runs[j].waited
                                /\ runs'[j].package = runs[j].package
                                /\ Quiet(j) => Quiet(j)'
    BY <1>1, <1>2 DEF Quiet, Grows
  <1>5. ToolInv'
    BY <1>1, <1>3, <1>4 DEF Inv, ToolInv, AllQuiet, Unjudged, Pending
  <1>6. RowsInv'
    BY <1>1, RowsStay DEF Inv, RowsInv
  <1> QED
    BY <1>1, <1>5, <1>6 DEF Inv

\* A run starts, of the runner or by hand.
LEMMA RunStarts ==
  ASSUME Inv, AllQuiet, NEW t \in Targets, NEW p \in Packages, StartRun(t, p),
         UNCHANGED <<junit, report, saved>>, tool'.rows = tool.rows
  PROVE  /\ RunsInv' /\ FilesInv' /\ RowsInv'
         /\ Len(runs') = Len(runs) + 1
         /\ \A j \in 1..Len(runs) : runs'[j] = runs[j]
         /\ Fields(runs'[Len(runs) + 1], t, p, "gates", TRUE, 0, "open", FALSE)
  <1>1. Started(t, p)
    BY StartStarts DEF Inv, RunsInv
  <1>2. RunsInv' /\ Grows
    BY <1>1, StartRuns DEF Inv
  <1>3. FilesInv'
    BY <1>1, StartFiles DEF Inv
  <1>4. RowsInv'
    BY <1>2, RowsStay DEF Inv, RowsInv
  <1> QED
    BY <1>1, <1>2, <1>3, <1>4 DEF Started

LEMMA BeginKeeps ==
  ASSUME Inv, Begin
  PROVE  Inv'
  <1>0. /\ runs' = runs /\ junit' = junit /\ report' = report /\ saved' = saved
        /\ tool.pc = "idle" /\ \A i \in 1..Len(runs) : runs[i].target # ByHand
        /\ Len(runs) \in Nat
    BY DEF Begin, harnessVars, Inv, RunsInv
  <1>1. PICK args \in Invocations :
          tool' =
            IF Refused(args)
            THEN Idle(RefusedWith(args), tool.started + 1)
            ELSE LET todo == (IF args.baseline THEN {0} ELSE {}) \cup Selected(args)
                 IN  IF Len(runs) + Cardinality(todo) > MaxRuns THEN tool
                     ELSE [pc |-> "next", todo |-> todo, mutation |-> 0, rows |-> <<>>,
                           exit |-> 0, started |-> tool.started + 1]
    BY DEF Begin
  <1>2. IsTool(tool) /\ tool.started \in Nat /\ tool.started + 1 \in Nat
    BY DEF Inv, ToolInv, IsTool
  <1>3. AllQuiet
    <2>1. CASE tool.started = 0
      BY <1>0, <2>1 DEF Inv, ToolInv, AllQuiet
    <2>2. CASE tool.started # 0
      BY <1>0, <2>2 DEF Inv, ToolInv
    <2> QED
      BY <2>1, <2>2
  <1>4. RunsInv' /\ FilesInv' /\ AllQuiet'
    BY <1>0, <1>3 DEF Inv, RunsInv, FilesInv, SessionLeftFile, RunLeftReport, ReportTrue,
                      ZeroEarned, JunitTrue, AllQuiet, Quiet, Excused
  <1>5. CASE tool' = tool
    BY <1>0, <1>4, <1>5 DEF Inv, ToolInv, RowsInv, AllQuiet, Quiet, Unjudged, Pending
  <1>6. ASSUME IsTool(tool'), Unjudged(tool'), tool'.pc # "waiting", tool'.rows = <<>>,
               tool'.started = tool.started + 1
        PROVE  Inv'
    <2>1. ToolInv'
      BY <1>2, <1>4, <1>6 DEF ToolInv
    <2>2. RowsInv'
      BY <1>0, <1>6, NoRows DEF Inv, RowsInv
    <2> QED
      BY <1>4, <2>1, <2>2 DEF Inv
  <1>7. CASE Refused(args)
    <2>1. tool' = Idle(RefusedWith(args), tool.started + 1)
      BY <1>1, <1>7
    <2> QED
      BY <1>2, <1>6, <2>1, IdleTool
  <1>8. CASE ~Refused(args) /\ tool' # tool
    <2> DEFINE todo == (IF args.baseline THEN {0} ELSE {}) \cup Selected(args)
    <2>1. tool' = [pc |-> "next", todo |-> todo, mutation |-> 0, rows |-> <<>>,
                   exit |-> 0, started |-> tool.started + 1]
      BY <1>1, <1>8
    <2>2. todo \in SUBSET Places
      BY <1>8, ControlPlace, SelectedPlaces
    <2> HIDE DEF todo
    <2> QED
      BY <1>2, <1>6, <2>1, <2>2, BeginTool
  <1> QED
    BY <1>5, <1>7, <1>8

LEMMA StartNextKeeps ==
  ASSUME Inv, StartNext
  PROVE  Inv'
  <1>1. tool.pc = "next" /\ UNCHANGED <<junit, report, saved>>
    BY DEF StartNext
  <1>2. PICK m \in tool.todo :
          /\ tool' = [tool EXCEPT !.pc = "waiting", !.todo = @ \ {m}, !.mutation = m]
          /\ \E p \in Packages : p.there /\ StartRun(Mutation(m).name, p)
    BY DEF StartNext
  <1>3. PICK p \in Packages : p.there /\ StartRun(Mutation(m).name, p)
    BY <1>2
  <1>4. IsTool(tool) /\ Unjudged(tool) /\ tool.started # 0 /\ AllQuiet /\ Len(runs) \in Nat
    BY <1>1 DEF Inv, ToolInv, RunsInv
  <1>5. m \in Places
    BY <1>4 DEF IsTool
  <1>6. /\ IsTool(tool') /\ tool'.pc = "waiting" /\ tool'.mutation = m
        /\ tool'.rows = tool.rows /\ tool'.started = tool.started
        /\ tool'.todo = tool.todo \ {m}
    <2> DEFINE a == [tool EXCEPT !.pc = "waiting"]
               rest == a.todo \ {m}
               b == [a EXCEPT !.todo = rest]
    <2>1. /\ IsTool(a) /\ a.pc = "waiting" /\ a.rows = tool.rows
          /\ a.started = tool.started /\ rest \in SUBSET Places /\ a.todo = tool.todo
      BY <1>4, SetPc DEF IsTool
    <2>2. tool' = [b EXCEPT !.mutation = m]
      BY <1>2
    <2>3. rest = tool.todo \ {m}
      BY <2>1
    <2> HIDE DEF a, rest
    <2>4. /\ IsTool(b) /\ b.pc = "waiting" /\ b.rows = tool.rows
          /\ b.started = tool.started /\ b.todo = rest
      BY <2>1, SetTodo
    <2> HIDE DEF b
    <2> QED
      BY <1>5, <2>2, <2>3, <2>4, SetMutation
  <1>7. Unjudged(tool')
    <2>1. Pending(tool') = tool.todo /\ Pending(tool) = tool.todo
      BY <1>1, <1>2, <1>6 DEF Pending
    <2> QED
      BY <1>4, <1>6, <2>1 DEF Unjudged
  <1>8. Mutation(m).name \in Targets
    BY <1>5, PlaceTargets
  <1> DEFINE t == Mutation(m).name
  <1> HIDE DEF t
  <1>9. /\ RunsInv' /\ FilesInv' /\ RowsInv' /\ Len(runs') = Len(runs) + 1
        /\ Fields(runs'[Len(runs) + 1], t, p, "gates", TRUE, 0, "open", FALSE)
    BY <1>1, <1>3, <1>4, <1>6, <1>8, RunStarts DEF t
  <1>10. ToolInv'
    BY <1>3, <1>4, <1>6, <1>7, <1>9 DEF ToolInv, Fields, t
  <1> QED
    BY <1>9, <1>10 DEF Inv

LEMMA RunOverKeeps ==
  ASSUME Inv, RunOver
  PROVE  Inv'
  <1> DEFINE i == Len(runs)
  <1>0. /\ runs' = runs /\ junit' = junit /\ report' = report /\ saved' = saved
        /\ tool.pc = "waiting" /\ runs[i].at = "left" /\ TakeRow(ReadReport(i))
    BY DEF RunOver, harnessVars, Current
  <1>1. i \in 1..Len(runs) /\ runs[i].waited
    BY <1>0 DEF Inv, ToolInv, RunsInv
  <1>2. RunLeftReport(i)
    BY <1>1 DEF Inv, FilesInv
  <1>3. Own(runs, ReadReport(i))
    <2>1. ReadReport(i).run = i /\ ReadReport(i).of \in {0, report[runs[i].target].of}
      BY DEF ReadReport, NoReport
    <2>2. Excused(i) \/ ReadReport(i).of \in {0, i}
      BY <1>0, <1>1, <1>2, <2>1 DEF RunLeftReport
    <2> QED
      BY <1>1, <2>1, <2>2 DEF Own, Excused
  <1>4. Fit(runs, ReadReport(i))
    <2> DEFINE p == report[runs[i].target]
    <2>1. runs[i].package.there /\ runs[i].target \in Targets
      BY <1>0, <1>1, RunIn DEF Inv, ToolInv, RunsInv, RunType
    <2>2. CASE p.by = 0
      BY <1>0, <1>1, <2>2 DEF ReadReport, NoReport, Fit
    <2>3. CASE p.by # 0
      <3>1. /\ ReadReport(i).run = i /\ ReadReport(i).timed_out = FALSE
            /\ ReadReport(i).of = p.of /\ ReadReport(i).counts = p.counts
            /\ ReadReport(i).sansio = (p.kind = "sansio")
        BY <2>3 DEF ReadReport
      <3>2. p.by \in 1..i /\ ReportTrue(runs[i].target) /\ i \in Nat
        BY <1>1, <2>1, <2>3 DEF Inv, FilesInv, RunsInv
      <3> DEFINE payload == ReadReport(i)
      <3> HIDE DEF payload
      <3>3. ASSUME p.of = i
            PROVE  /\ p.kind = "sansio" <=> ~runs[i].package.sansio
                   /\ p.kind # "sansio" =>
                         Measured(p.counts, runs[i].package, runs[i].code, runs[i].gate)
        <4>1. p.by = i
          BY <3>2, <3>3 DEF ReportTrue
        <4>2. PackageTold(p, runs[i].package, runs[i].code, runs[i].gate)
          BY <1>1, <3>2, <3>3, <4>1 DEF ReportTrue
        <4> QED
          BY <2>1, <4>2 DEF PackageTold
      <3>4. Fit(runs, payload)
        BY <1>0, <1>1, <3>1, <3>3 DEF Fit, payload
      <3> QED
        BY <3>4 DEF payload
    <2> QED
      BY <2>2, <2>3
  <1>5. IsTool(tool) /\ Unjudged(tool) /\ tool.started # 0
    BY <1>0 DEF Inv, ToolInv
  <1>6. SoundRows(runs, tool.rows)
    BY DEF Inv, RowsInv
  <1> DEFINE payload == ReadReport(i)
  <1> HIDE DEF payload
  <1>7. /\ IsTool(tool') /\ Unjudged(tool') /\ tool'.pc \in {"next", "idle"}
        /\ tool'.started = tool.started
        /\ SoundRows(runs, tool'.rows)
    BY <1>0, <1>3, <1>4, <1>5, <1>6, TakeRowTool DEF payload
  <1>8. RunsInv /\ FilesInv
    BY DEF Inv
  <1>9. RunsInv' /\ AllQuiet'
    <2>1. RunsInv'
      BY <1>0, <1>8 DEF RunsInv, Quiet
    <2>2. AllQuiet'
      BY <1>0, <1>1, <1>8 DEF RunsInv, AllQuiet, Quiet
    <2> QED
      BY <2>1, <2>2
  <1>10. FilesInv'
    BY <1>0, <1>8 DEF FilesInv, SessionLeftFile, RunLeftReport, ReportTrue,
                       ZeroEarned, JunitTrue, Excused
  <1>11. RunsInv' /\ FilesInv' /\ AllQuiet'
    BY <1>9, <1>10
  <1>12. ToolInv'
    BY <1>5, <1>7, <1>11 DEF ToolInv
  <1>13. RowsInv'
    BY <1>0, <1>7 DEF Inv, RowsInv
  <1> QED
    BY <1>11, <1>12, <1>13 DEF Inv

\* The run that is given up is killed: whatever its session still writes, the row has
\* been taken without it.
LEMMA TimeOutKeeps ==
  ASSUME Inv, TimeOut
  PROVE  Inv'
  <1> DEFINE i == Len(runs)
             at == IF runs[i].at \in {"gates", "over"} THEN "left" ELSE runs[i].at
  <1>0. /\ junit' = junit /\ report' = report /\ saved' = saved
        /\ tool.pc = "waiting" /\ runs[i].at # "left" /\ KillRun(i) /\ TakeRow(TimedOut(i))
    BY DEF TimeOut, Current
  <1>1. i \in 1..Len(runs) /\ Len(runs) \in Nat
    BY <1>0 DEF Inv, ToolInv, RunsInv
  <1>2. Advances(i, at, FALSE, runs[i].code, runs[i].gate, runs[i].died)
    BY <1>0, <1>1, KillAdvances DEF Inv
  <1>3. Accounted(i, at, FALSE, runs[i].code, runs[i].gate, runs[i].died)
    BY <1>0 DEF Accounted
  <1> HIDE DEF at
  <1>4. /\ RunsInv' /\ Grows /\ Len(runs') = Len(runs)
        /\ \A j \in 1..Len(runs) : j # i => runs'[j] = runs[j]
    BY <1>1, <1>2, AdvanceRuns DEF Inv
  <1>5. FilesInv'
    BY <1>1, <1>2, <1>3, SessionFiles DEF Inv
  <1>6. ~runs'[i].waited
    BY <1>2 DEF Advances, Changed, Fields
  <1>7. AllQuiet'
    BY <1>1, <1>4, <1>6 DEF AllQuiet, Quiet, Inv, RunsInv
  <1>8. Own(runs', TimedOut(i))
    <2>1. TimedOut(i).run = i /\ TimedOut(i).of = 0
      BY DEF TimedOut, NoReport
    <2> QED
      BY <1>1, <1>4, <2>1 DEF Own
  <1>9. Fit(runs', TimedOut(i))
    <2>1. /\ TimedOut(i).run = i /\ TimedOut(i).of = 0 /\ TimedOut(i).timed_out = TRUE
          /\ TimedOut(i).sansio = FALSE /\ TimedOut(i).counts = None
      BY DEF TimedOut, NoReport
    <2> DEFINE payload == TimedOut(i)
    <2>2. /\ payload.run = i /\ payload.of = 0 /\ payload.timed_out = TRUE
          /\ payload.sansio = FALSE /\ payload.counts = None
      BY <2>1
    <2> HIDE DEF payload
    <2>3. payload.of # payload.run
      BY <1>1, <2>2
    <2>4. Fit(runs', payload)
      BY <1>6, <2>2, <2>3, Zenon DEF Fit
    <2> QED
      BY <2>4 DEF payload
  <1>10. IsTool(tool) /\ Unjudged(tool) /\ tool.started # 0
    BY <1>0 DEF Inv, ToolInv
  <1>11. SoundRows(runs', tool.rows) /\ SoundFiles(runs', saved)
    BY <1>4, RowsStay DEF Inv, RowsInv
  <1> DEFINE payload == TimedOut(i)
  <1> HIDE DEF payload
  <1>12. /\ IsTool(tool') /\ Unjudged(tool') /\ tool'.pc \in {"next", "idle"}
         /\ tool'.started = tool.started
         /\ SoundRows(runs', tool'.rows)
    BY <1>0, <1>8, <1>9, <1>10, <1>11, TakeRowTool DEF payload
  <1>13. ToolInv'
    BY <1>7, <1>10, <1>12 DEF ToolInv
  <1>14. RowsInv'
    BY <1>0, <1>11, <1>12 DEF RowsInv
  <1> QED
    BY <1>4, <1>5, <1>13, <1>14 DEF Inv

LEMMA FinishKeeps ==
  ASSUME Inv, Finish
  PROVE  Inv'
  <1>0. /\ runs' = runs /\ junit' = junit /\ report' = report
        /\ saved' = Append(saved, tool.rows) /\ tool' = Idle(0, tool.started)
        /\ tool.pc = "next"
    BY DEF Finish, harnessVars
  <1>1. AllQuiet /\ tool.started # 0 /\ tool.started \in Nat
    BY <1>0 DEF Inv, ToolInv, IsTool
  <1>2. RunsInv' /\ FilesInv' /\ AllQuiet'
    BY <1>0, <1>1 DEF Inv, RunsInv, FilesInv, SessionLeftFile, RunLeftReport, ReportTrue,
                      ZeroEarned, JunitTrue, AllQuiet, Quiet, Excused
  <1>3. ToolInv'
    BY <1>0, <1>1, <1>2, IdleTool DEF ToolInv
  <1>4. RowsInv'
    BY <1>0, <1>1, IdleTool, NoRows, AppendFile DEF Inv, RowsInv
  <1> QED
    BY <1>2, <1>3, <1>4 DEF Inv

LEMMA RunByHandKeeps ==
  ASSUME Inv, RunByHand
  PROVE  Inv'
  <1>1. /\ tool.pc = "idle" /\ tool.started = 0 /\ tool' = tool
        /\ UNCHANGED <<junit, report, saved>> /\ Len(runs) \in Nat
        /\ \A i \in 1..Len(runs) : runs[i].at = "left"
    BY DEF RunByHand, Inv, RunsInv
  <1>2. PICK p \in Packages : StartRun(ByHand, p)
    BY DEF RunByHand
  <1>3. AllQuiet
    BY <1>1 DEF AllQuiet, Quiet
  <1>4. ByHand \in Targets
    BY TargetsAssumption
  <1>5. /\ RunsInv' /\ FilesInv' /\ RowsInv' /\ Len(runs') = Len(runs) + 1
        /\ \A j \in 1..Len(runs) : runs'[j] = runs[j]
        /\ Fields(runs'[Len(runs) + 1], ByHand, p, "gates", TRUE, 0, "open", FALSE)
    BY <1>1, <1>2, <1>3, <1>4, RunStarts
  <1>6. ToolInv'
    <2>1. IsTool(tool') /\ Unjudged(tool') /\ tool'.pc = "idle" /\ tool'.started = 0
      BY <1>1 DEF Inv, ToolInv
    <2>2. \A j \in 1..Len(runs') : runs'[j].target = ByHand
      BY <1>1, <1>5 DEF Inv, ToolInv, Fields
    <2> QED
      BY <2>1, <2>2 DEF ToolInv
  <1> QED
    BY <1>5, <1>6 DEF Inv

-----------------------------------------------------------------------------
LEMMA InvInit ==
  EvalInit => Inv
  <1> SUFFICES ASSUME EvalInit
               PROVE  Inv
    OBVIOUS
  <1> DEFINE none == <<>>
  <1>1. /\ runs = none /\ saved = none /\ tool = Idle(0, 0)
        /\ junit = [t \in Targets |-> NoFile] /\ report = [t \in Targets |-> NoFile]
    BY DEF EvalInit, Init
  <1>2. none \in Seq(RunType) /\ Len(none) = 0
    OBVIOUS
  <1> HIDE DEF none
  <1>3. RunsInv
    BY <1>1, <1>2 DEF RunsInv
  <1>4. FilesInv
    BY <1>1, <1>2 DEF FilesInv, JunitTrue, ReportTrue, NoFile
  <1>5. ToolInv
    BY <1>1, <1>2, IdleTool DEF ToolInv
  <1>6. RowsInv
    BY <1>1, IdleTool, NoRows DEF RowsInv, none
  <1> QED
    BY <1>3, <1>4, <1>5, <1>6 DEF Inv

LEMMA InvNext ==
  Inv /\ [EvalNext]_vars => Inv'
  <1> SUFFICES ASSUME Inv, [EvalNext]_vars
               PROVE  Inv'
    OBVIOUS
  <1>1. CASE Begin
    BY <1>1, BeginKeeps
  <1>2. CASE StartNext
    BY <1>2, StartNextKeeps
  <1>3. CASE RunOver
    BY <1>3, RunOverKeeps
  <1>4. CASE TimeOut
    BY <1>4, TimeOutKeeps
  <1>5. CASE Finish
    BY <1>5, FinishKeeps
  <1>6. CASE RunByHand
    BY <1>6, RunByHandKeeps
  <1>7. CASE Harness
    <2>1. PICK i \in 1..Len(runs) : RunStep(i) /\ UNCHANGED <<tool, saved>>
      BY <1>7 DEF Harness, Inv, RunsInv
    <2> QED
      BY <2>1, RunFiles, RunnerWaits DEF Inv
  <1>8. CASE Session
    <2>1. PICK i \in 1..Len(runs) : SessionStep(i) /\ UNCHANGED <<tool, saved>>
      BY <1>8 DEF Session, Inv, RunsInv
    <2> QED
      BY <2>1, SessionFilesStep, RunnerWaits DEF Inv
  <1>9. CASE UNCHANGED vars
    BY <1>9 DEF vars, harnessVars, Inv, RunsInv, FilesInv, ToolInv, RowsInv, SessionLeftFile,
                RunLeftReport, ReportTrue, ZeroEarned, JunitTrue, AllQuiet, Quiet, Excused,
                Unjudged, Pending
  <1> QED
    BY <1>1, <1>2, <1>3, <1>4, <1>5, <1>6, <1>7, <1>8, <1>9 DEF EvalNext, Tool

LEMMA InvSuffices ==
  Inv => TypeOK /\ GatesAbort /\ RowsAreOwn /\ VerdictsTrue /\ ZeroIsEarned
  <1> SUFFICES ASSUME Inv
               PROVE  TypeOK /\ GatesAbort /\ RowsAreOwn /\ VerdictsTrue /\ ZeroIsEarned
    OBVIOUS
  <1>1. /\ runs \in Seq(RunType) /\ DOMAIN runs = 1..Len(runs)
        /\ \A i \in DOMAIN runs : runs[i] \in RunType
    BY DEF Inv, RunsInv
  <1>2. \A i \in DOMAIN runs :
          /\ runs[i].target \in Targets
          /\ runs[i].at \in {"gates", "starting", "cases", "over", "left"}
          /\ runs[i].at = "over" => runs[i].waited
    BY <1>1 DEF RunType, Stages, Inv, RunsInv, Staged
  <1>3. tool.todo \cup {tool.mutation} \subseteq {0} \cup DOMAIN MUTATIONS
    BY DEF Inv, ToolInv, IsTool, Places
  <1>4. tool.pc \in {"idle", "next", "waiting"}
    BY DEF Inv, ToolInv, IsTool
  <1>5. TypeOK
    BY <1>2, <1>3, <1>4 DEF TypeOK, Inv, FilesInv, ToolInv, Current
  <1>6. GatesAbort
    BY DEF GatesAbort, Inv, FilesInv, ReportTrue
  <1>7. ZeroIsEarned
    BY <1>1 DEF ZeroIsEarned, Inv, FilesInv, ZeroEarned, Excused
  <1>8. RowsAreOwn /\ VerdictsTrue
    BY RowsInvSuffices DEF Inv
  <1> QED
    BY <1>5, <1>6, <1>7, <1>8

\* The types of the runs, the files and the runner.  With them: a session that is over
\* and not yet read is one that run.py still waits for, every file was written by a run
\* there has been, and the run that the runner waits for is that of the mutation it has
\* in hand (mutate.py run_harness, run.py main).
THEOREM TypeCorrect == Spec => []TypeOK
  <1>1. Inv /\ [EvalNext]_vars => Inv'
    BY InvNext
  <1> QED
    BY InvInit, <1>1, InvSuffices, PTL DEF Spec

\* Whatever the packages do, and whichever sessions die or outlive their run.py, no
\* session that a gate, a usage error or an internal error ended is reported as a score,
\* and none is reported as aborted without one or without a package to run
\* (run.py main: "must not read as a score").
THEOREM GatesCorrect == Spec => []GatesAbort
  <1>1. Inv /\ [EvalNext]_vars => Inv'
    BY InvNext
  <1> QED
    BY InvInit, <1>1, InvSuffices, PTL DEF Spec

\* Files keep their names and are not removed between runs, and still no row, in hand or
\* saved, counts the cases of another run than the one started for it, unless that run's
\* session died or an earlier run of the same name had timed out (mutate.py run_harness,
\* run.py parse_junit).
THEOREM RowsCorrect == Spec => []RowsAreOwn
  <1>1. Inv /\ [EvalNext]_vars => Inv'
    BY InvNext
  <1> QED
    BY InvInit, <1>1, InvSuffices, PTL DEF Spec

\* A verdict that is given from a mutation's own counts is true of what its package does,
\* "timed out" is given to the runs that were given up and to no other, and the rows of a
\* saved file keep their verdicts when they are judged again (mutate.py verdict,
\* run_harness, rerender), whichever sessions die or outlive their run.py.
THEOREM VerdictsCorrect == Spec => []VerdictsTrue
  <1>1. Inv /\ [EvalNext]_vars => Inv'
    BY InvNext
  <1> QED
    BY InvInit, <1>1, InvSuffices, PTL DEF Spec

\* What is left of "a process exit code that is zero only when every case passed" (run.py
\* main): the run's package passed them all, or its session died, or a session of the same
\* name had outlived its run.py.  The two exceptions are needed: a JUnit file is not removed
\* before a run.
THEOREM ZeroCorrect == Spec => []ZeroIsEarned
  <1>1. Inv /\ [EvalNext]_vars => Inv'
    BY InvNext
  <1> QED
    BY InvInit, <1>1, InvSuffices, PTL DEF Spec
=============================================================================
