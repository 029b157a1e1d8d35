---------------------------- MODULE RestartProofs ----------------------------
(***************************************************************************)
(* What one idev leaves on the instance about a restart it owes: for any   *)
(* keys, values and spellings, whatever the user starts and stops between  *)
(* its steps.                                                              *)
(***************************************************************************)
EXTENDS RestartRecord, TLAPS

\* One idev at a time.  The record is written against an ETag taken just before
\* it, so two of them may each write what the other has not read.
Alone == \A p, q \in Procs : p = q

-----------------------------------------------------------------------------
(* The types.                                                              *)

Readings ==
  [running : BOOLEAN, starts : Nat, stored : [Keys -> Values], managed : SUBSET Keys,
   record : {NoRecord} \cup Records]

Declarations == [Keys -> Values \cup {Undeclared}]

Processes ==
  [pc : {"idle", "read", "write", "settle", "stopped", "restarted", "run"},
   restart : BOOLEAN, decl : Declarations, seen : Readings]

RestartTypeOK ==
  /\ running \in BOOLEAN /\ starts \in Nat
  /\ stored \in [Keys -> Values] /\ booted \in [Keys -> Values]
  /\ managed \in SUBSET Keys
  /\ record \in {NoRecord} \cup Records
  /\ devyml \in Declarations
  /\ proc \in [Procs -> Processes]

-----------------------------------------------------------------------------
(* The inductive invariant.                                                *)

\* The record, read now, names what the container does not run with and nothing
\* else, by the value it booted with.
Applied ==
  running =>
    \A k \in Keys :
      LET was == Pending(Reading)[k]
      IN  /\ was = Undeclared => Same(k, stored[k], booted[k])
          /\ was \notin {Undeclared, Unknown} =>
               Same(k, was, booted[k]) /\ ~Same(k, stored[k], booted[k])

\* A container that was not started since the reading seen runs with what was
\* read, and one that was runs with what is stored.
SinceRead(seen) ==
  /\ seen.starts <= starts
  /\ running /\ starts = seen.starts =>
       /\ seen.running
       /\ \A k \in Keys : Booted(seen, k) # Unknown => Same(k, Booted(seen, k), booted[k])
  /\ running /\ starts > seen.starts => booted = stored

Decides(p) == proc[p].pc \in {"settle", "stopped", "restarted"}

\* From its reading on, what a process read is there until it writes, and then
\* what it decided.
ReadingInv(p) ==
  /\ At(p, "write") =>
       /\ stored = proc[p].seen.stored
       /\ p \in current => starts = proc[p].seen.starts
  /\ Decides(p) => stored = [k \in Keys |-> Want(proc[p].decl, proc[p].seen, k)]
  /\ Decides(p) \/ At(p, "write") =>
       /\ record = proc[p].seen.record
       /\ record # NoRecord => record.at <= proc[p].seen.starts
       /\ SinceRead(proc[p].seen)
  /\ proc[p].pc \in {"stopped", "restarted"} /\ running => starts > proc[p].seen.starts

RestartInv ==
  /\ record # NoRecord => record.at <= starts
  /\ Deciding \/ Applied
  /\ \A p \in Procs : ReadingInv(p)

-----------------------------------------------------------------------------
(* What is computed from a reading.                                        *)

LEMMA SameEquivalence ==
  ASSUME NEW k, NEW u, NEW v, NEW w
  PROVE  /\ Same(k, v, v)
         /\ Same(k, v, w) => Same(k, w, v)
         /\ Same(k, u, v) /\ Same(k, v, w) => Same(k, u, w)
BY DEF Same

LEMMA WantType ==
  ASSUME NEW decl \in Declarations, NEW seen \in Readings, NEW k \in Keys
  PROVE  Want(decl, seen, k) \in Values
BY AbsentIsValue, SentinelsApart DEF Want, Declarations, Readings

LEMMA PendingType ==
  ASSUME NEW seen \in Readings
  PROVE  Pending(seen) \in [Keys -> Values \cup {Undeclared, Unknown}]
BY DEF Pending, Readings, Records, Nothing

LEMMA BootedType ==
  ASSUME NEW seen \in Readings, NEW k \in Keys
  PROVE  Booted(seen, k) \in Values \cup {Unknown} /\ Booted(seen, k) # Undeclared
<1>1. Pending(seen)[k] \in Values \cup {Undeclared, Unknown} /\ seen.stored[k] \in Values
  BY PendingType DEF Readings
<1> QED BY <1>1, SentinelsApart DEF Booted

LEMMA OwedType ==
  ASSUME NEW decl \in Declarations, NEW seen \in Readings
  PROVE  Owed(decl, seen) \in [Keys -> Values \cup {Undeclared, Unknown}]
<1>1. ASSUME NEW k \in Keys
      PROVE  Booted(seen, k) \in Values \cup {Undeclared, Unknown}
  BY BootedType
<1> QED BY <1>1 DEF Owed

LEMMA ReadingType ==
  ASSUME RestartTypeOK
  PROVE  Reading \in Readings
BY DEF RestartTypeOK, Reading, Readings

-----------------------------------------------------------------------------
(* Type correctness.                                                       *)

\* A start, a stop or neither keeps the types.
LEMMA PowerType ==
  ASSUME RestartTypeOK, Boots \/ Halts \/ UNCHANGED inst
  PROVE  /\ running' \in BOOLEAN /\ starts' \in Nat
         /\ stored' \in [Keys -> Values] /\ booted' \in [Keys -> Values]
         /\ managed' \in SUBSET Keys /\ record' \in {NoRecord} \cup Records
<1>1. running' \in BOOLEAN
  BY Zenon DEF Boots, Halts, inst, RestartTypeOK
<1>2. starts' = starts + 1 \/ starts' = starts
  BY DEF Boots, Halts, inst
<1>3. /\ stored' = stored /\ booted' \in {stored, booted}
      /\ managed' = managed /\ record' = record
  BY DEF Boots, Halts, inst
<1> QED BY <1>1, <1>2, <1>3 DEF RestartTypeOK

LEMMA RestartTypeCorrect == Spec => []RestartTypeOK
<1>1. Init => RestartTypeOK
  <2> SUFFICES ASSUME Init
               PROVE  RestartTypeOK
    OBVIOUS
  <2>1. record \in {NoRecord} \cup Records /\ booted \in [Keys -> Values]
    <3>1. [at |-> 0, entries |-> [k \in Keys |-> IF stored[k] = booted[k] THEN Undeclared
                                                                     ELSE Unknown]] \in Records
      BY DEF Records
    <3> QED BY <3>1 DEF Init
  <2>2. Idle \in Processes
    BY AbsentIsValue DEF Idle, Nothing, NotRead, Processes, Readings, Declarations
  <2> QED BY <2>1, <2>2 DEF Init, RestartTypeOK, Declarations
<1>2. RestartTypeOK /\ [Next]_vars => RestartTypeOK'
  <2> SUFFICES ASSUME RestartTypeOK, [Next]_vars
               PROVE  RestartTypeOK'
    OBVIOUS
  <2> USE DEF inst
  <2>0. Idle \in Processes
    BY AbsentIsValue DEF Idle, Nothing, NotRead, Processes, Readings, Declarations
  <2>1. CASE UNCHANGED vars
    BY <2>1 DEF vars, RestartTypeOK
  <2>2. CASE EditConfig
    BY <2>2 DEF EditConfig, RestartTypeOK, Declarations
  <2>3. CASE UserStartsOrStops
    <3>1. (Boots \/ Halts) /\ UNCHANGED <<devyml, proc>>
      BY <2>3 DEF UserStartsOrStops
    <3> QED BY <3>1, PowerType DEF RestartTypeOK
  <2>4. ASSUME NEW p \in Procs, Up(p)
        PROVE  RestartTypeOK'
    <3>0. proc[p] \in Processes
      BY DEF RestartTypeOK
    <3>1. CASE Start(p)
      <4>1. PICK restart \in BOOLEAN :
              proc' = [proc EXCEPT ![p] = [Idle EXCEPT !.pc = "read", !.restart = restart,
                                                       !.decl = devyml]]
        BY <3>1 DEF Start
      <4>2. [Idle EXCEPT !.pc = "read", !.restart = restart, !.decl = devyml] \in Processes
        BY <2>0 DEF Processes, RestartTypeOK
      <4> QED BY <3>1, <4>1, <4>2 DEF Start, RestartTypeOK
    <3>2. CASE Read(p)
      <4>1. proc' = [proc EXCEPT ![p] = [proc[p] EXCEPT !.pc = "write", !.seen = Reading]]
        BY <3>2 DEF Read, RestartTypeOK
      <4>2. [proc[p] EXCEPT !.pc = "write", !.seen = Reading] \in Processes
        BY <3>0, ReadingType DEF Processes
      <4> QED BY <3>2, <4>1, <4>2 DEF Read, RestartTypeOK
    <3>3. ASSUME NEW pc \in {"settle", "stopped", "restarted", "run"}, Moves(p, pc)
          PROVE  proc' \in [Procs -> Processes]
      <4>1. proc' = [proc EXCEPT ![p] = [proc[p] EXCEPT !.pc = pc]]
        BY <3>3 DEF Moves, RestartTypeOK
      <4>2. [proc[p] EXCEPT !.pc = pc] \in Processes
        BY <3>0 DEF Processes
      <4> QED BY <4>1, <4>2 DEF RestartTypeOK
    <3>4. CASE Write(p)
      <4>1. proc[p].decl \in Declarations /\ proc[p].seen \in Readings
        BY <3>0 DEF Processes
      <4>2. stored' \in [Keys -> Values]
        BY <3>4, <4>1, WantType DEF Write
      <4>3. managed' \in SUBSET Keys
        BY <3>4 DEF Write, Declared
      <4> QED BY <3>3, <3>4, <4>2, <4>3 DEF Write, RestartTypeOK
    <3>5. CASE SkipWrite(p)
      BY <3>3, <3>5 DEF SkipWrite, RestartTypeOK
    <3>6. CASE Refused(p) \/ StepFails(p) \/ StartRefused(p)
      BY <2>0, <3>6 DEF Refused, StepFails, StartRefused, Ends, RestartTypeOK
    <3>7. CASE ClearPending(p)
      BY <3>3, <3>7 DEF ClearPending, Clears, RestartTypeOK
    <3>8. CASE RecordOwed(p)
      <4>1. proc[p].decl \in Declarations /\ proc[p].seen \in Readings
        BY <3>0 DEF Processes
      <4>2. [at |-> proc[p].seen.starts, entries |-> Owed(proc[p].decl, proc[p].seen)] \in Records
        BY <4>1, OwedType DEF Records, Readings
      <4> QED BY <3>3, <3>8, <4>2 DEF RecordOwed, RestartTypeOK
    <3>9. CASE StopToApply(p)
      <4>1. proc' \in [Procs -> Processes] /\ devyml' = devyml
        BY <3>3, <3>9 DEF StopToApply
      <4>2. Halts \/ UNCHANGED inst
        BY <3>9 DEF StopToApply
      <4> QED BY <4>1, <4>2, PowerType DEF RestartTypeOK
    <3>10. CASE StartToApply(p)
      BY <3>3, <3>10, PowerType DEF StartToApply, RestartTypeOK
    <3>11. CASE EnsureRunning(p)
      <4>1. proc' \in [Procs -> Processes] /\ devyml' = devyml
        BY <2>0, <3>11 DEF EnsureRunning, RestartTypeOK
      <4>2. Boots \/ UNCHANGED inst
        BY <3>11 DEF EnsureRunning
      <4> QED BY <4>1, <4>2, PowerType DEF RestartTypeOK
    <3> QED
      BY <2>4, <3>1, <3>2, <3>4, <3>5, <3>6, <3>7, <3>8, <3>9, <3>10, <3>11 DEF Up
  <2> QED BY <2>1, <2>2, <2>3, <2>4 DEF Next
<1> QED BY <1>1, <1>2, PTL DEF Spec

-----------------------------------------------------------------------------
(* What a start, a stop or neither leaves of a reading.                    *)

\* A container runs with what is stored when it starts, and the record of an
\* earlier start is retired.
LEMMA BootsApplies ==
  ASSUME RestartTypeOK, RestartInv, Boots
  PROVE  Applied'
<1>1. /\ booted' = stored /\ stored' = stored /\ record' = record
      /\ starts' = starts + 1 /\ starts \in Nat
  BY DEF Boots, RestartTypeOK
<1>2. Pending(Reading)' = Nothing
  BY <1>1 DEF Pending, Reading, Nothing, RestartInv, RestartTypeOK, Records
<1> QED BY <1>1, <1>2, SameEquivalence DEF Applied, Nothing

\* Whatever is started or stopped, what a reading tells of it stays true.
LEMMA ReadingStands ==
  ASSUME RestartTypeOK, NEW seen \in Readings, SinceRead(seen),
         Boots \/ Halts \/ UNCHANGED inst
  PROVE  SinceRead(seen)'
<1>1. CASE Boots
  BY <1>1 DEF Boots, SinceRead, RestartTypeOK, Readings
<1>2. CASE Halts
  BY <1>2 DEF Halts, SinceRead
<1>3. CASE UNCHANGED inst
  BY <1>3 DEF inst, SinceRead, Booted, Pending, Same
<1> QED BY <1>1, <1>2, <1>3

\* A reading of an instance whose record is right is a right reading.
LEMMA FreshReading ==
  ASSUME RestartTypeOK, Applied
  PROVE  SinceRead(Reading)
<1>1. Reading \in Readings
  BY ReadingType
<1>2. /\ Reading.starts = starts /\ Reading.running = running /\ Reading.stored = stored
  BY DEF Reading
<1>3. ASSUME running, NEW k \in Keys, Booted(Reading, k) # Unknown
      PROVE  Same(k, Booted(Reading, k), booted[k])
  BY <1>2, <1>3 DEF Booted, Applied
<1> QED BY <1>2, <1>3 DEF SinceRead, RestartTypeOK

\* What a process has read of the record is about the instance as it runs, or
\* about one that has been started since.
LEMMA DeciderApplies ==
  ASSUME RestartTypeOK, NEW p \in Procs, ReadingInv(p), Decides(p), running, NEW k \in Keys
  PROVE  LET seen == proc[p].seen
             was  == Booted(seen, k)
         IN  /\ starts > seen.starts => booted = stored /\ Pending(Reading) = Nothing
             /\ starts <= seen.starts =>
                  /\ starts = seen.starts /\ seen.running
                  /\ Pending(Reading) = Pending(seen)
                  /\ was # Unknown => Same(k, was, booted[k])
             /\ stored[k] = Want(proc[p].decl, seen, k)
             /\ was \in Values \cup {Unknown} /\ was # Undeclared
             /\ starts \in Nat /\ seen.starts \in Nat
<1>1. proc[p] \in Processes
  BY DEF RestartTypeOK
<1>2. proc[p].seen \in Readings /\ proc[p].seen.starts \in Nat
  BY <1>1 DEF Processes, Readings
<1>3. /\ record = proc[p].seen.record /\ SinceRead(proc[p].seen)
      /\ record # NoRecord => record.at <= proc[p].seen.starts
      /\ stored = [j \in Keys |-> Want(proc[p].decl, proc[p].seen, j)]
  BY DEF ReadingInv
<1>4. /\ starts > proc[p].seen.starts => Pending(Reading) = Nothing
      /\ starts = proc[p].seen.starts => Pending(Reading) = Pending(proc[p].seen)
  BY <1>2, <1>3 DEF Pending, Reading, RestartTypeOK, Records
<1>5. Booted(proc[p].seen, k) \in Values \cup {Unknown} /\ Booted(proc[p].seen, k) # Undeclared
  BY <1>2, BootedType
<1> QED BY <1>2, <1>3, <1>4, <1>5 DEF SinceRead, RestartTypeOK

\* Where a process stopped the instance to apply what it wrote, whatever runs
\* now was started since.
LEMMA RestartedApplies ==
  ASSUME RestartTypeOK, NEW p \in Procs, ReadingInv(p), proc[p].pc \in {"stopped", "restarted"}
  PROVE  Applied
<1>1. ASSUME running, NEW k \in Keys
      PROVE  booted = stored /\ Pending(Reading) = Nothing
  <2>1. Decides(p) /\ starts > proc[p].seen.starts
    BY <1>1 DEF ReadingInv, Decides
  <2> QED BY <1>1, <2>1, DeciderApplies
<1> QED BY <1>1, SameEquivalence DEF Applied, Nothing

\* The record and the container being as they were, the record is as right.
LEMMA QuietApplies ==
  ASSUME Applied, UNCHANGED inst
  PROVE  Applied'
BY DEF inst, Applied, Pending, Reading, Same

LEMMA UndecidedApplies ==
  ASSUME Alone, RestartInv, NEW p \in Procs, ~Decides(p)
  PROVE  Applied
BY DEF Alone, RestartInv, Deciding, Decides

-----------------------------------------------------------------------------
(* The invariant is kept.                                                  *)

LEMMA RestartStep ==
  ASSUME Alone, NEW p \in Procs, ReadingInv(p)', Decides(p)' \/ Applied',
         record' # NoRecord => record'.at <= starts'
  PROVE  RestartInv'
BY DEF Alone, RestartInv, Deciding, Decides

\* A run that ends leaves a right record.
LEMMA EndedStep ==
  ASSUME Alone, RestartTypeOK, RestartInv, NEW p \in Procs, proc' = [proc EXCEPT ![p] = Idle],
         Applied', Boots \/ UNCHANGED inst
  PROVE  RestartInv'
<1>1. proc'[p].pc = "idle"
  BY DEF RestartTypeOK, Idle
<1>2. ReadingInv(p)'
  BY <1>1 DEF ReadingInv, At, Decides
<1>3. record' # NoRecord => record'.at <= starts'
  BY DEF Boots, inst, RestartInv, RestartTypeOK, Records
<1> QED BY <1>2, <1>3, RestartStep

LEMMA RestartUp ==
  ASSUME Alone, "failBetween" \notin Env, RestartTypeOK, RestartInv, NEW p \in Procs, Up(p)
  PROVE  RestartInv'
<1>0. /\ proc[p] \in Processes /\ proc[p].seen \in Readings /\ ReadingInv(p)
      /\ proc[p].seen.starts \in Nat /\ starts \in Nat
  BY DEF RestartTypeOK, Processes, Readings, RestartInv
<1>1. CASE Start(p)
  <2>1. PICK restart \in BOOLEAN :
          proc' = [proc EXCEPT ![p] = [Idle EXCEPT !.pc = "read", !.restart = restart,
                                                   !.decl = devyml]]
    BY <1>1 DEF Start
  <2>2. proc'[p].pc = "read" /\ UNCHANGED inst /\ ~Decides(p)
    BY <1>1, <2>1 DEF Start, RestartTypeOK, Idle, Decides, At
  <2>3. ReadingInv(p)'
    BY <2>2 DEF ReadingInv, At, Decides
  <2> QED BY <2>2, <2>3, UndecidedApplies, QuietApplies, RestartStep DEF inst, RestartInv
<1>2. CASE Read(p)
  <2>1. /\ proc'[p].pc = "write" /\ proc'[p].seen = Reading /\ UNCHANGED inst /\ ~Decides(p)
    BY <1>0, <1>2 DEF Read, RestartTypeOK, Processes, Decides, At
  <2>2. Applied /\ Applied'
    BY <2>1, UndecidedApplies, QuietApplies
  <2>3. SinceRead(Reading)
    BY <2>2, FreshReading
  <2>4. SinceRead(proc[p].seen)'
    BY <2>1, <2>3 DEF SinceRead, Booted, Pending, Reading, Same, inst
  <2>5. ReadingInv(p)'
    BY <2>1, <2>4 DEF ReadingInv, Decides, At, Reading, inst, RestartInv
  <2> QED BY <2>1, <2>2, <2>5, RestartStep DEF inst, RestartInv
<1>3. CASE Write(p)
  <2>1. /\ proc'[p].pc = "settle" /\ proc'[p].seen = proc[p].seen /\ proc'[p].decl = proc[p].decl
        /\ UNCHANGED <<running, starts, booted, record>>
        /\ stored' = [k \in Keys |-> Want(proc[p].decl, proc[p].seen, k)]
    BY <1>0, <1>3 DEF Write, Moves, RestartTypeOK, Processes
  <2>2. /\ starts = proc[p].seen.starts /\ record = proc[p].seen.record
        /\ record # NoRecord => record.at <= proc[p].seen.starts
        /\ SinceRead(proc[p].seen)
    BY <1>0, <1>3 DEF Write, ReadingInv, At
  <2>3. SinceRead(proc[p].seen)'
    BY <1>0, <2>1, <2>2 DEF SinceRead, Booted, Pending, Same
  <2>4. stored' = [k \in Keys |-> Want(proc'[p].decl, proc'[p].seen, k)]
    BY <2>1
  <2>5. ReadingInv(p)' /\ Decides(p)'
    BY <2>1, <2>2, <2>3, <2>4 DEF ReadingInv, Decides, At, Want
  <2> QED BY <2>1, <2>5, RestartStep DEF RestartInv
<1>4. CASE SkipWrite(p)
  <2>1. /\ proc'[p].pc = "settle" /\ proc'[p].seen = proc[p].seen /\ proc'[p].decl = proc[p].decl
        /\ UNCHANGED inst
    BY <1>0, <1>4 DEF SkipWrite, Moves, RestartTypeOK, Processes
  <2>2. /\ stored = proc[p].seen.stored /\ record = proc[p].seen.record
        /\ record # NoRecord => record.at <= proc[p].seen.starts
        /\ SinceRead(proc[p].seen)
    BY <1>0, <1>4 DEF SkipWrite, ReadingInv, At
  <2>3. stored = [k \in Keys |-> Want(proc[p].decl, proc[p].seen, k)]
    BY <1>4, <2>2 DEF SkipWrite, Settled, RestartTypeOK
  <2>4. SinceRead(proc[p].seen)'
    BY <2>1, <2>2 DEF SinceRead, Booted, Pending, Same, inst
  <2>5. stored' = [k \in Keys |-> Want(proc'[p].decl, proc'[p].seen, k)]
    BY <2>1, <2>3 DEF inst
  <2>6. ReadingInv(p)' /\ Decides(p)'
    BY <2>1, <2>2, <2>4, <2>5 DEF ReadingInv, Decides, At, Want, inst
  <2> QED BY <2>1, <2>6, RestartStep DEF RestartInv, inst
<1>5. CASE Refused(p) \/ StepFails(p) \/ StartRefused(p)
  <2>1. proc' = [proc EXCEPT ![p] = Idle] /\ UNCHANGED inst
    BY <1>5 DEF Refused, StepFails, StartRefused, Ends
  <2>2. ~Decides(p) \/ proc[p].pc \in {"stopped", "restarted"}
    BY <1>5 DEF Refused, StepFails, StartRefused, Decides, At
  <2>3. Applied
    BY <1>0, <2>2, UndecidedApplies, RestartedApplies
  <2> QED BY <2>1, <2>3, QuietApplies, EndedStep
<1>6. CASE ClearPending(p)
  <2>1. /\ proc'[p].pc = "run" /\ UNCHANGED <<running, starts, stored, booted>> /\ Decides(p)
        /\ Clears(p) /\ (At(p, "restarted") \/ NothingOwed(p))
    BY <1>0, <1>6 DEF ClearPending, Moves, RestartTypeOK, Processes, Decides, At
  <2>2. record' = NoRecord
    BY <1>0, <2>1 DEF Clears, ReadingInv
  <2>3. Pending(Reading)' = Nothing
    BY <2>2 DEF Pending, Reading, Nothing
  <2>4. ASSUME running, NEW k \in Keys
        PROVE  Same(k, stored[k], booted[k])
    <3>1. CASE starts > proc[p].seen.starts
      BY <1>0, <2>1, <2>4, <3>1, DeciderApplies, SameEquivalence
    <3>2. CASE starts <= proc[p].seen.starts
      <4>1. /\ starts = proc[p].seen.starts /\ proc[p].seen.running
            /\ Booted(proc[p].seen, k) # Unknown => Same(k, Booted(proc[p].seen, k), booted[k])
            /\ stored[k] = Want(proc[p].decl, proc[p].seen, k)
            /\ Booted(proc[p].seen, k) # Undeclared
        BY <1>0, <2>1, <2>4, <3>2, DeciderApplies
      <4>2. ~At(p, "restarted")
        BY <1>0, <2>4, <4>1 DEF ReadingInv, At
      <4>3. Owed(proc[p].decl, proc[p].seen)[k] = Undeclared
        BY <2>1, <4>1, <4>2 DEF NothingOwed, Nothing
      <4>4. /\ Booted(proc[p].seen, k) # Unknown
            /\ Same(k, Want(proc[p].decl, proc[p].seen, k), Booted(proc[p].seen, k))
        BY <4>1, <4>3 DEF Owed
      <4> QED BY <4>1, <4>4, SameEquivalence
    <3> QED BY <1>0, <3>1, <3>2
  <2>5. Applied'
    BY <2>1, <2>3, <2>4 DEF Applied, Nothing, Same
  <2>6. ReadingInv(p)'
    BY <2>1 DEF ReadingInv, At, Decides
  <2> QED BY <2>2, <2>5, <2>6, RestartStep
<1>7. CASE RecordOwed(p)
  <2> DEFINE owed == [at |-> proc[p].seen.starts, entries |-> Owed(proc[p].decl, proc[p].seen)]
  <2>1. /\ proc'[p].pc = "run" /\ UNCHANGED <<running, starts, stored, booted>> /\ Decides(p)
        /\ record' = owed
    <3>1. IF proc[p].seen.record = owed THEN record' = record ELSE record' = owed
      BY <1>7 DEF RecordOwed
    <3>2. At(p, "settle") /\ record = proc[p].seen.record
      BY <1>0, <1>7 DEF RecordOwed, ReadingInv, Decides, At
    <3> QED BY <1>0, <1>7, <3>1, <3>2 DEF RecordOwed, Moves, RestartTypeOK, Processes, Decides, At
  <2>2. owed \in Records
    BY <1>0, OwedType DEF Processes, Records
  <2>3. Pending(Reading)' =
          IF starts > proc[p].seen.starts THEN Nothing ELSE Owed(proc[p].decl, proc[p].seen)
    BY <2>1, <2>2, NoRecordIsNone DEF Pending, Reading, Nothing
  <2>4. ASSUME running, NEW k \in Keys
        PROVE  LET was == (Pending(Reading)')[k]
               IN  /\ was = Undeclared => Same(k, stored[k], booted[k])
                   /\ was \notin {Undeclared, Unknown} =>
                        Same(k, was, booted[k]) /\ ~Same(k, stored[k], booted[k])
    <3>1. CASE starts > proc[p].seen.starts
      BY <1>0, <2>1, <2>3, <2>4, <3>1, DeciderApplies, SameEquivalence DEF Nothing
    <3>2. CASE starts <= proc[p].seen.starts
      <4> DEFINE was == Booted(proc[p].seen, k)
      <4>1. /\ was # Unknown => Same(k, was, booted[k])
            /\ stored[k] = Want(proc[p].decl, proc[p].seen, k)
            /\ was # Undeclared
        BY <1>0, <2>1, <2>4, <3>2, DeciderApplies
      <4>2. (Pending(Reading)')[k] =
              IF was # Unknown /\ Same(k, stored[k], was) THEN Undeclared ELSE was
        BY <1>0, <2>3, <3>2, <4>1 DEF Owed
      <4> HIDE DEF was
      <4> QED BY <4>1, <4>2, SameEquivalence
    <3> QED BY <1>0, <3>1, <3>2
  <2>5. Applied'
    BY <2>1, <2>4 DEF Applied, Same
  <2>6. ReadingInv(p)'
    BY <2>1 DEF ReadingInv, At, Decides
  <2>7. record'.at <= starts'
    BY <1>0, <2>1 DEF ReadingInv, Decides, SinceRead
  <2> QED BY <2>5, <2>6, <2>7, RestartStep
<1>8. CASE StopToApply(p)
  <2>1. /\ proc'[p].pc = "stopped" /\ proc'[p].seen = proc[p].seen /\ proc'[p].decl = proc[p].decl
        /\ Decides(p) /\ ~running' /\ UNCHANGED <<starts, stored, booted, record>>
    BY <1>0, <1>8 DEF StopToApply, Halts, inst, Moves, RestartTypeOK, Processes, Decides, At
  <2>2. Halts \/ UNCHANGED inst
    BY <1>8 DEF StopToApply
  <2>3. SinceRead(proc[p].seen)'
    BY <1>0, <2>1 DEF SinceRead, ReadingInv
  <2>4. stored' = [k \in Keys |-> Want(proc'[p].decl, proc'[p].seen, k)]
    BY <1>0, <2>1 DEF ReadingInv
  <2>5. ReadingInv(p)' /\ Decides(p)'
    BY <1>0, <2>1, <2>3, <2>4 DEF ReadingInv, Decides, At, Want
  <2> QED BY <2>1, <2>5, RestartStep DEF RestartInv
<1>9. CASE StartToApply(p)
  <2>1. /\ proc'[p].pc = "restarted" /\ proc'[p].seen = proc[p].seen /\ proc'[p].decl = proc[p].decl
        /\ Decides(p) /\ starts' = starts + 1 /\ UNCHANGED <<stored, record>> /\ Boots
    BY <1>0, <1>9 DEF StartToApply, Boots, Moves, RestartTypeOK, Processes, Decides, At
  <2>2. SinceRead(proc[p].seen)
    BY <1>0, <2>1 DEF ReadingInv
  <2>3. SinceRead(proc[p].seen)'
    BY <1>0, <2>1, <2>2 DEF SinceRead, Boots
  <2>4. stored' = [k \in Keys |-> Want(proc'[p].decl, proc'[p].seen, k)]
    BY <1>0, <2>1 DEF ReadingInv
  <2>5. ReadingInv(p)' /\ Decides(p)'
    BY <1>0, <2>1, <2>2, <2>3, <2>4 DEF ReadingInv, Decides, At, Want, SinceRead
  <2>6. record' # NoRecord => record'.at <= starts'
    BY <1>0, <2>1 DEF RestartInv, RestartTypeOK, Records
  <2> QED BY <2>5, <2>6, RestartStep
<1>10. CASE EnsureRunning(p)
  <2>1. proc' = [proc EXCEPT ![p] = Idle] /\ (Boots \/ UNCHANGED inst) /\ ~Decides(p)
    BY <1>10 DEF EnsureRunning, Decides, At
  <2>2. Applied'
    BY <2>1, UndecidedApplies, BootsApplies, QuietApplies
  <2> QED BY <2>1, <2>2, EndedStep
<1> QED
  BY <1>1, <1>2, <1>3, <1>4, <1>5, <1>6, <1>7, <1>8, <1>9, <1>10 DEF Up

\* A step of the user, who starts and stops the instance.
LEMMA RestartUser ==
  ASSUME RestartTypeOK, RestartInv, UserStartsOrStops
  PROVE  RestartInv'
<1>1. (Boots \/ Halts) /\ UNCHANGED <<proc, stored, record>> /\ current' = {}
  BY DEF UserStartsOrStops, Boots, Halts
<1>2. ASSUME NEW p \in Procs
      PROVE  ReadingInv(p)'
  <2>1. /\ proc[p].seen \in Readings /\ proc[p].seen.starts \in Nat /\ starts \in Nat
        /\ ReadingInv(p)
    BY DEF RestartTypeOK, Processes, Readings, RestartInv
  <2>2. Decides(p) \/ At(p, "write") => SinceRead(proc[p].seen)'
    BY <1>1, <2>1, ReadingStands DEF ReadingInv, SinceRead
  <2>3. Decides(p) => stored' = [k \in Keys |-> Want(proc'[p].decl, proc'[p].seen, k)]
    BY <1>1, <2>1 DEF ReadingInv
  <2>4. proc[p].pc \in {"stopped", "restarted"} /\ running' => starts' > proc[p].seen.starts
    BY <1>1, <2>1 DEF ReadingInv, SinceRead, Decides, Boots, Halts
  <2> QED BY <1>1, <2>1, <2>2, <2>3, <2>4 DEF ReadingInv, Decides, At, Want
<1>3. Deciding' \/ Applied'
  <2>1. CASE Boots
    BY <2>1, BootsApplies
  <2>2. CASE Halts
    BY <2>2 DEF Halts, Applied
  <2> QED BY <1>1, <2>1, <2>2
<1>4. record' # NoRecord => record'.at <= starts'
  BY <1>1 DEF RestartInv, Boots, Halts, RestartTypeOK, Records
<1> QED BY <1>2, <1>3, <1>4 DEF RestartInv

LEMMA RestartInvariant ==
  ASSUME Alone, "failBetween" \notin Env
  PROVE  Spec => []RestartInv
<1>1. Init => RestartInv
  <2> SUFFICES ASSUME Init
               PROVE  RestartInv
    OBVIOUS
  <2>1. \A p \in Procs : ReadingInv(p)
    BY DEF Init, Idle, ReadingInv, At, Decides
  <2>2. record # NoRecord => record.at <= starts
    BY DEF Init
  <2>3. ASSUME running, NEW k \in Keys
        PROVE  LET was == Pending(Reading)[k]
               IN  /\ was = Undeclared => Same(k, stored[k], booted[k])
                   /\ was \in {Undeclared, Unknown}
    <3>1. CASE record = NoRecord /\ booted = stored
      <4>1. Pending(Reading)[k] = Undeclared
        BY <3>1 DEF Pending, Reading, Nothing
      <4> QED BY <3>1, <4>1 DEF Same
    <3>2. CASE record = [at |-> 0, entries |->
                 [j \in Keys |-> IF stored[j] = booted[j] THEN Undeclared ELSE Unknown]]
      <4>1. record \in Records
        BY <3>2 DEF Records
      <4>2. record # NoRecord
        BY <4>1, NoRecordIsNone
      <4>3. Pending(Reading)[k] = IF stored[k] = booted[k] THEN Undeclared ELSE Unknown
        BY <3>2, <4>2 DEF Pending, Reading, Init
      <4> QED BY <4>3, SentinelsApart DEF Same
    <3> QED BY <3>1, <3>2 DEF Init
  <2>4. Applied
    BY <2>3 DEF Applied
  <2> QED BY <2>1, <2>2, <2>4 DEF RestartInv
<1>2. RestartTypeOK /\ RestartInv /\ [Next]_vars => RestartInv'
  <2> SUFFICES ASSUME RestartTypeOK, RestartInv, [Next]_vars
               PROVE  RestartInv'
    OBVIOUS
  <2>1. ASSUME UNCHANGED <<inst, proc>>, current' \subseteq current
        PROVE  RestartInv'
    <3>1. ASSUME NEW p \in Procs
          PROVE  ReadingInv(p)'
      <4>1. ReadingInv(p)
        BY DEF RestartInv
      <4> QED
        BY <2>1, <4>1 DEF inst, ReadingInv, At, Decides, SinceRead, Booted, Pending, Same, Want
    <3>2. Deciding' \/ Applied'
      BY <2>1, QuietApplies DEF RestartInv, Deciding
    <3> QED BY <2>1, <3>1, <3>2 DEF RestartInv, inst
  <2>2. CASE UNCHANGED vars
    BY <2>1, <2>2 DEF vars
  <2>3. CASE EditConfig
    BY <2>1, <2>3 DEF EditConfig
  <2>4. CASE UserStartsOrStops
    BY <2>4, RestartUser
  <2>5. CASE \E p \in Procs : Up(p)
    BY <2>5, RestartUp
  <2> QED BY <2>2, <2>3, <2>4, <2>5 DEF Next
<1> QED BY <1>1, <1>2, RestartTypeCorrect, PTL DEF Spec

-----------------------------------------------------------------------------
(* What the record tells.                                                  *)

\* Whatever the next up or a user reads in the record is what the running
\* container booted with, in the middle of a run, too: between the write of the
\* config and that of the record nothing stale is believed.
THEOREM RecordedValuesAreTrue ==
  ASSUME Alone, "failBetween" \notin Env
  PROVE  Spec => []RecordIsTrue
<1>1. RestartTypeOK /\ RestartInv => RecordIsTrue
  <2> SUFFICES ASSUME RestartTypeOK, RestartInv, running, NEW k \in RecordedOwed,
                      Pending(Reading)[k] # Unknown
               PROVE  Same(k, Pending(Reading)[k], booted[k])
    BY DEF RecordIsTrue
  <2>0. k \in Keys /\ Pending(Reading)[k] # Undeclared
    BY DEF RecordedOwed
  <2>1. CASE Applied
    BY <2>0, <2>1 DEF Applied
  <2>2. CASE Deciding
    <3>1. PICK p \in Procs : Decides(p)
      BY <2>2 DEF Deciding, Decides
    <3>2. ReadingInv(p)
      BY DEF RestartInv
    <3>3. Pending(Reading) # Nothing
      BY <2>0 DEF Nothing
    <3>4. Pending(Reading) = Pending(proc[p].seen)
      BY <2>0, <3>1, <3>2, <3>3, DeciderApplies
    <3>5. Booted(proc[p].seen, k) = Pending(Reading)[k]
      BY <2>0, <3>4 DEF Booted
    <3>6. Booted(proc[p].seen, k) # Unknown => Same(k, Booted(proc[p].seen, k), booted[k])
      BY <2>0, <3>1, <3>2, <3>3, DeciderApplies
    <3> QED BY <3>5, <3>6
  <2> QED BY <2>1, <2>2 DEF RestartInv
<1> QED BY <1>1, RestartTypeCorrect, RestartInvariant, PTL

\* Once up is done, what it applied to the config and not to the container is
\* recorded on the instance: no restart that is owed goes unmentioned.
THEOREM OwedRestartIsRecorded ==
  ASSUME Alone, "failBetween" \notin Env
  PROVE  Spec => []OwedIsRecorded
<1>1. RestartInv => OwedIsRecorded
  BY DEF RestartInv, Applied, OwedIsRecorded, NotApplied, RecordedOwed
<1> QED BY <1>1, RestartInvariant, PTL

\* Nor is a restart asked for that would apply nothing.
THEOREM OnlyOwedIsRecorded ==
  ASSUME Alone, "failBetween" \notin Env
  PROVE  Spec => []NothingElseIsRecorded
<1>1. RestartTypeOK /\ RestartInv => NothingElseIsRecorded
  <2> SUFFICES ASSUME RestartInv, ~Deciding, running, NEW k \in RecordedOwed,
                      Pending(Reading)[k] # Unknown
               PROVE  k \in NotApplied
    BY DEF NothingElseIsRecorded
  <2>1. k \in Keys /\ Pending(Reading)[k] \notin {Undeclared, Unknown}
    BY DEF RecordedOwed
  <2> QED BY <2>1 DEF RestartInv, Applied, NotApplied
<1> QED BY <1>1, RestartTypeCorrect, RestartInvariant, PTL

\* up --restart stops a container that was not restarted since it was read only
\* where it runs with another value than the one stored, or where an older idev
\* did not say what it runs with.
THEOREM RestartAppliesSomething ==
  ASSUME Alone, "failBetween" \notin Env
  PROVE  Spec => NeverRestartsForNothing
<1> DEFINE Applies(p) ==
             StopToApply(p) /\ running /\ ~running' /\ starts = proc[p].seen.starts =>
               NotApplied # {} \/ \E k \in Keys : Pending(proc[p].seen)[k] = Unknown
<1>1. ASSUME RestartTypeOK, RestartInv, NEW p \in Procs
      PROVE  Applies(p)
  <2> SUFFICES ASSUME StopToApply(p), running, starts = proc[p].seen.starts
               PROVE  NotApplied # {} \/ \E k \in Keys : Pending(proc[p].seen)[k] = Unknown
    OBVIOUS
  <2>0. Decides(p) /\ Owed(proc[p].decl, proc[p].seen) # Nothing
    BY DEF StopToApply, NothingOwed, At, Decides
  <2>1. ReadingInv(p)
    BY <1>1 DEF RestartInv
  <2>2. PICK k \in Keys : Owed(proc[p].decl, proc[p].seen)[k] # Undeclared
    BY <2>0 DEF Owed, Nothing
  <2>3. \/ Booted(proc[p].seen, k) = Unknown
        \/ ~Same(k, Want(proc[p].decl, proc[p].seen, k), Booted(proc[p].seen, k))
    BY <2>2 DEF Owed
  <2>4. proc[p].seen \in Readings /\ starts <= proc[p].seen.starts
    <3>1. proc[p] \in Processes /\ starts \in Nat
      BY <1>1 DEF RestartTypeOK
    <3> QED BY <3>1 DEF Processes
  <2>5. CASE Booted(proc[p].seen, k) = Unknown
    <3>1. proc[p].seen.stored[k] # Unknown
      BY <2>4, SentinelsApart DEF Readings
    <3>2. Pending(proc[p].seen)[k] = Unknown
      BY <2>5, <3>1 DEF Booted
    <3> QED BY <3>2
  <2>6. CASE Booted(proc[p].seen, k) # Unknown
    <3>1. /\ Same(k, Booted(proc[p].seen, k), booted[k])
          /\ stored[k] = Want(proc[p].decl, proc[p].seen, k)
      BY <2>0, <2>1, <2>4, <2>6, <1>1, DeciderApplies
    <3>2. ~Same(k, stored[k], booted[k])
      BY <2>3, <2>6, <3>1, SameEquivalence
    <3> QED BY <3>2 DEF NotApplied
  <2> QED BY <2>5, <2>6
<1>2. RestartTypeOK /\ RestartInv /\ [Next]_vars => [\A p \in Procs : Applies(p)]_vars
  BY <1>1
<1> QED
  BY <1>2, RestartTypeCorrect, RestartInvariant, PTL DEF Spec, NeverRestartsForNothing
=============================================================================
