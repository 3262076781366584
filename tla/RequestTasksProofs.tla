------------------------- MODULE RequestTasksProofs -------------------------
(***************************************************************************)
(* Proofs about RequestTasks: what the answers of a restore, a command, a  *)
(* prune, a backup and an apply are worth, for any sizes and any queue.    *)
(* Each kind of task has an invariant of its own, which its steps keep and *)
(* every other step leaves alone.                                          *)
(***************************************************************************)
EXTENDS RequestTasks, FiniteSetTheorems, SequenceTheorems, TLAPS

-----------------------------------------------------------------------------
(* Restores.                                                                *)

RestoreInv ==
    /\ whole \in BOOLEAN /\ pipeError \in BOOLEAN /\ restored \in BOOLEAN
    /\ phase \in {"idle", "checking"} => tar = "none"
    /\ tar = "ok" => extracted = size
    /\ phase \in {"responding", "done"} => ~Restoring!Running
    /\ phase = "closing" => (whole <=> ~pipeError)
    /\ phase = "waiting" => whole
    /\ restored => whole /\ tar = "ok" /\ phase \in {"responding", "done"}

\* A restore's steps keep its invariant.
LEMMA RestoreStep ==
  ASSUME RestoreInv, Restoring!Next
  PROVE  RestoreInv'
  <1> USE DEF RestoreInv, Restoring!Running, Restoring!Stop
  <1>1. CASE Restoring!Request
    BY <1>1 DEF Restoring!Request, Restoring!Idle
  <1>2. CASE Restoring!CheckFails
    BY <1>2 DEF Restoring!CheckFails
  <1>3. CASE Restoring!RestoreLocal
    BY <1>3 DEF Restoring!RestoreLocal
  <1>4. CASE Restoring!StartTar
    BY <1>4 DEF Restoring!StartTar
  <1>5. CASE Restoring!Extract
    BY <1>5 DEF Restoring!Extract
  <1>6. CASE Restoring!Warn
    BY <1>6 DEF Restoring!Warn
  <1>7. CASE Restoring!TarExits
    BY <1>7 DEF Restoring!TarExits
  <1>8. CASE Restoring!Fetch
    BY <1>8 DEF Restoring!Fetch
  <1>9. CASE Restoring!BodyEnds
    <2>1. /\ phase = "pumping" /\ phase' = "closing"
          /\ UNCHANGED <<tar, extracted, size, restored>>
      BY <1>9 DEF Restoring!BodyEnds
    <2>2. whole' \in BOOLEAN /\ pipeError' \in BOOLEAN /\ (whole' <=> ~pipeError')
      BY <1>9 DEF Restoring!BodyEnds
    <2>3. QED
      BY <2>1, <2>2
  <1>10. CASE Restoring!WriteChunk
    BY <1>10 DEF Restoring!WriteChunk
  <1>11. CASE Restoring!CloseStdin
    BY <1>11 DEF Restoring!CloseStdin
  <1>12. CASE Restoring!TarReaped
    BY <1>12 DEF Restoring!TarReaped
  <1>13. CASE Restoring!Respond
    BY <1>13 DEF Restoring!Respond
  <1>14. QED
    BY <1>1, <1>2, <1>3, <1>4, <1>5, <1>6, <1>7, <1>8, <1>9, <1>10, <1>11, <1>12, <1>13
       DEF Restoring!Next

-----------------------------------------------------------------------------
(* Commands.                                                                *)

ExecTypes ==
    /\ alive \subseteq {"shell", "helper"}
    /\ helper \in {"none", "grouped", "escaped"} /\ holds \subseteq Exec!ExecPipes
    /\ written \in [Exec!ExecPipes -> Nat] /\ consumed \in [Exec!ExecPipes -> Nat]
    /\ captured \in [Exec!ExecPipes -> Nat]
    /\ reader \in [Exec!ExecPipes -> {"reading", "done", "failed", "aborted"}]
    /\ budget \in Nat
    /\ limited \in BOOLEAN /\ limitSent \in BOOLEAN /\ timedOut \in BOOLEAN
    /\ exec \in {"idle", "waiting", "joining", "answering", "done"}
    /\ answer \in [error : BOOLEAN, truncated : BOOLEAN, timedOut : BOOLEAN]

\* What a reader has done with its pipe while the limit was not met.
PipesKept ==
    \A p \in Exec!ExecPipes :
        /\ consumed[p] <= written[p]
        /\ (~limited /\ reader[p] \in {"reading", "done"}) => captured[p] = consumed[p]
        /\ (~limited /\ reader[p] = "done") =>
               consumed[p] = written[p] /\ Exec!Writers(p) = {} /\ "shell" \notin alive

\* Nothing ran, so nothing was written or read.
Untouched ==
    alive = {} /\ ~limited /\ \A p \in Exec!ExecPipes : written[p] = 0 /\ reader[p] = "reading"

\* Who still runs, and what the answer says, at each stage of the caller.
StagesKept ==
    /\ exec = "idle" => Untouched
    /\ helper = "none" => "helper" \notin alive
    /\ exec \in {"joining", "answering", "done"} => "shell" \notin alive
    /\ (timedOut /\ helper # "escaped") => alive = {}
    /\ timedOut => exec \notin {"idle", "waiting"}
    /\ Exec!Answered =>
          \/ answer = Exec!Blocked /\ Untouched
          \/ /\ answer.timedOut => timedOut
             /\ (helper # "escaped" /\ alive # {}) =>
                    \A p \in Exec!ExecPipes : reader[p] \in {"done", "failed"}
             /\ ~answer.truncated =>
                    ~limited /\ \A p \in Exec!ExecPipes : reader[p] = "done"

ExecInv == ExecTypes /\ PipesKept /\ StagesKept /\ Exec!BudgetIsShared

\* What one read takes, and what of it is kept.
LEMMA ReadTaken ==
  ASSUME ExecTypes, PipesKept, NEW p \in Exec!ExecPipes, Exec!Read(p)
  PROVE  \E n \in Nat, got \in Nat :
            /\ n > 0 /\ consumed[p] + n <= written[p]
            /\ got <= n /\ got <= budget /\ (got < n => got = budget)
            /\ consumed' = [consumed EXCEPT ![p] = @ + n]
            /\ captured' = [captured EXCEPT ![p] = @ + got]
            /\ budget' = budget - got
            /\ IF got < n
               THEN /\ limited' = TRUE /\ limitSent' = TRUE
                    /\ reader' = [reader EXCEPT ![p] = "done"]
               ELSE UNCHANGED <<limited, limitSent, reader>>
  <1>1. consumed[p] \in Nat /\ written[p] \in Nat /\ consumed[p] <= written[p] /\ budget \in Nat
    BY DEF ExecTypes, PipesKept
  <1>2. ReadSize \in Nat
    BY RequestsAssumption DEF Exec!LimitsAssumption
  <1> DEFINE most == Exec!Smaller(ReadSize, written[p] - consumed[p])
  <1>3. most \in Nat /\ most <= written[p] - consumed[p]
    BY <1>1, <1>2 DEF Exec!Smaller
  <1>4. PICK n \in 1 .. most :
           LET g == Exec!Smaller(n, budget) IN
           /\ consumed' = [consumed EXCEPT ![p] = @ + n]
           /\ captured' = [captured EXCEPT ![p] = @ + g]
           /\ budget' = budget - g
           /\ IF g < n
              THEN /\ limited' = TRUE /\ limitSent' = TRUE
                   /\ reader' = [reader EXCEPT ![p] = "done"]
              ELSE UNCHANGED <<limited, limitSent, reader>>
    BY DEF Exec!Read
  <1> DEFINE got == Exec!Smaller(n, budget)
  <1>5. n \in Nat /\ n > 0 /\ consumed[p] + n <= written[p]
    BY <1>1, <1>3
  <1>6. got \in Nat /\ got <= n /\ got <= budget /\ (got < n => got = budget)
    BY <1>1, <1>5 DEF Exec!Smaller
  <1> HIDE DEF got
  <1>7. QED
    BY <1>4, <1>5, <1>6 DEF got

\* One read keeps the books.
LEMMA ReadKeeps ==
  ASSUME ExecInv, NEW p \in Exec!ExecPipes, Exec!Read(p)
  PROVE  ExecInv'
  <1> USE DEF ExecInv
  <1>1. PICK n \in Nat, got \in Nat :
            /\ n > 0 /\ consumed[p] + n <= written[p]
            /\ got <= n /\ got <= budget /\ (got < n => got = budget)
            /\ consumed' = [consumed EXCEPT ![p] = @ + n]
            /\ captured' = [captured EXCEPT ![p] = @ + got]
            /\ budget' = budget - got
            /\ IF got < n
               THEN /\ limited' = TRUE /\ limitSent' = TRUE
                    /\ reader' = [reader EXCEPT ![p] = "done"]
               ELSE UNCHANGED <<limited, limitSent, reader>>
    BY ReadTaken
  <1>2. /\ UNCHANGED <<alive, helper, holds, written, exec, timedOut, answer>>
        /\ exec # "idle" /\ reader[p] = "reading"
    BY DEF Exec!Read, Exec!procs
  <1>3. ExecTypes'
    <2>1. consumed' \in [Exec!ExecPipes -> Nat] /\ captured' \in [Exec!ExecPipes -> Nat]
      BY <1>1 DEF ExecTypes
    <2>2. budget' \in Nat
      BY <1>1 DEF ExecTypes
    <2>3. /\ reader' \in [Exec!ExecPipes -> {"reading", "done", "failed", "aborted"}]
          /\ limited' \in BOOLEAN /\ limitSent' \in BOOLEAN
      BY <1>1 DEF ExecTypes
    <2>4. QED
      BY <1>2, <2>1, <2>2, <2>3 DEF ExecTypes
  <1>4. PipesKept'
    <2> SUFFICES ASSUME NEW q \in Exec!ExecPipes
                 PROVE  /\ consumed'[q] <= written'[q]
                        /\ (~limited' /\ reader'[q] \in {"reading", "done"}) =>
                               captured'[q] = consumed'[q]
                        /\ (~limited' /\ reader'[q] = "done") =>
                               /\ consumed'[q] = written'[q] /\ Exec!Writers(q)' = {}
                               /\ "shell" \notin alive'
      BY DEF PipesKept
    <2>1. consumed'[q] <= written'[q]
      BY <1>1, <1>2 DEF PipesKept, ExecTypes
    <2>2. ASSUME ~limited'
          PROVE  ~limited /\ got = n /\ reader' = reader
      BY <1>1, <2>2
    <2>3. Exec!Writers(q)' = Exec!Writers(q)
      BY <1>2 DEF Exec!Writers
    <2>4. CASE q = p
      BY <1>1, <1>2, <2>1, <2>2, <2>4 DEF PipesKept, ExecTypes
    <2>5. CASE q # p
      BY <1>1, <1>2, <2>1, <2>2, <2>3, <2>5 DEF PipesKept, ExecTypes
    <2>6. QED
      BY <2>4, <2>5
  <1>5. StagesKept'
    <2>1. \A q \in Exec!ExecPipes : reader'[q] = reader[q] \/ reader'[q] = "done"
      BY <1>1 DEF ExecTypes
    <2>2. Exec!Answered' <=> Exec!Answered
      BY <1>2 DEF Exec!Answered
    <2>3. ASSUME Exec!Answered
          PROVE  answer.truncated /\ ~Untouched
      <3>1. written[p] # 0 /\ reader[p] # "done"
        BY <1>1, <1>2 DEF ExecTypes
      <3>2. QED
        BY <2>3, <3>1 DEF StagesKept, Untouched
    <2>4. QED
      BY <1>2, <2>1, <2>2, <2>3 DEF StagesKept, ExecTypes
  <1>6. Exec!BudgetIsShared'
    BY <1>1 DEF Exec!BudgetIsShared, ExecTypes, Exec!ExecPipes
  <1>7. QED
    BY <1>3, <1>4, <1>5, <1>6

\* A step that touches neither the pipes nor their readers keeps the books of
\* the pipes, if no process comes to life.
LEMMA PipesRest ==
  ASSUME PipesKept, alive' \subseteq alive, UNCHANGED holds,
         UNCHANGED <<written, consumed, captured, reader, limited>>
  PROVE  PipesKept'
  BY DEF PipesKept, Exec!Writers

\* Every other step of a command.
LEMMA ExecStep ==
  ASSUME ExecInv, Exec!Next
  PROVE  ExecInv'
  <1> USE DEF ExecInv
  <1>1. ASSUME NEW p \in Exec!ExecPipes, Exec!Write(p)
        PROVE  ExecInv'
    <2>1. PICK w \in Exec!Writers(p) :
             IF reader[p] = "reading"
             THEN written' = [written EXCEPT ![p] = @ + 1] /\ UNCHANGED alive
             ELSE alive' = alive \ {w} /\ UNCHANGED written
      BY <1>1 DEF Exec!Write
    <2>2. UNCHANGED <<helper, holds, captured, consumed, reader, budget, limited,
                      limitSent, exec, timedOut, answer>>
      BY <1>1 DEF Exec!Write
    <2>3. w \in alive
      BY <2>1 DEF Exec!Writers
    <2>4. CASE reader[p] = "reading"
      <3>1. written' \in [Exec!ExecPipes -> Nat] /\ alive' = alive
        BY <2>1, <2>4 DEF ExecTypes
      <3>2. ExecTypes'
        BY <2>2, <3>1 DEF ExecTypes
      <3>3. PipesKept'
        BY <2>1, <2>2, <2>4 DEF PipesKept, ExecTypes, Exec!Writers
      <3>4. StagesKept'
        BY <2>1, <2>2, <2>3, <2>4 DEF StagesKept, Untouched, Exec!Answered
      <3>5. QED
        BY <2>2, <3>2, <3>3, <3>4 DEF Exec!BudgetIsShared
    <2>5. CASE reader[p] # "reading"
      <3>1. ExecTypes'
        BY <2>1, <2>2, <2>5 DEF ExecTypes
      <3>2. PipesKept'
        BY <2>1, <2>2, <2>5, PipesRest
      <3>3. StagesKept'
        BY <2>1, <2>2, <2>3, <2>5 DEF StagesKept, Untouched, Exec!Answered
      <3>4. QED
        BY <2>2, <3>1, <3>2, <3>3 DEF Exec!BudgetIsShared
    <2>6. QED
      BY <2>4, <2>5
  <1>2. ASSUME NEW p \in Exec!ExecPipes, Exec!ReaderStops(p)
        PROVE  ExecInv'
    <2>1. /\ exec \in {"waiting", "joining"}
          /\ UNCHANGED <<alive, helper, holds, written, captured, consumed, budget, limited,
                         limitSent, exec, timedOut, answer>>
      BY <1>2 DEF Exec!ReaderStops, Exec!procs
    <2>2. \/ /\ Exec!Writers(p) = {} /\ consumed[p] = written[p]
             /\ reader[p] = "reading" /\ reader' = [reader EXCEPT ![p] = "done"]
          \/ reader' = [reader EXCEPT ![p] = "failed"]
      BY <1>2 DEF Exec!ReaderStops
    <2>3. ExecTypes'
      BY <2>1, <2>2 DEF ExecTypes
    <2>4. PipesKept'
      BY <2>1, <2>2 DEF PipesKept, ExecTypes, Exec!Writers
    <2>5. StagesKept'
      BY <2>1, <2>2 DEF StagesKept, Exec!Answered
    <2>6. QED
      BY <2>1, <2>3, <2>4, <2>5 DEF Exec!BudgetIsShared
  <1>3. CASE Exec!Leave
    <2>1. /\ "shell" \in alive /\ helper = "none"
          /\ helper' \in {"grouped", "escaped"} /\ holds' \in SUBSET Exec!ExecPipes
          /\ alive' = alive \cup {"helper"}
          /\ UNCHANGED <<written, captured, consumed, reader, budget, limited, limitSent,
                         exec, timedOut, answer>>
      BY <1>3 DEF Exec!Leave, Exec!io
    <2>2. ExecTypes'
      BY <2>1 DEF ExecTypes
    <2>3. PipesKept'
      BY <2>1 DEF PipesKept
    <2>4. exec \notin {"idle", "joining", "answering", "done"}
      BY <2>1 DEF StagesKept, Untouched
    <2>5. StagesKept'
      BY <2>1, <2>4 DEF StagesKept, Exec!Answered, ExecTypes
    <2>6. QED
      BY <2>1, <2>2, <2>3, <2>5 DEF Exec!BudgetIsShared
  <1>4. ASSUME NEW w \in {"shell", "helper"}, Exec!Exit(w)
        PROVE  ExecInv'
    <2>1. /\ alive' = alive \ {w}
          /\ UNCHANGED <<helper, holds, written, captured, consumed, reader, budget, limited,
                         limitSent, exec, timedOut, answer>>
      BY <1>4 DEF Exec!Exit, Exec!io
    <2>2. ExecTypes'
      BY <2>1 DEF ExecTypes
    <2>3. PipesKept'
      BY <2>1, PipesRest
    <2>4. StagesKept'
      BY <2>1 DEF StagesKept, Untouched, Exec!Answered
    <2>5. QED
      BY <2>1, <2>2, <2>3, <2>4 DEF Exec!BudgetIsShared
  <1>5. CASE Exec!Refuse
    <2>1. /\ exec = "idle" /\ exec' = "answering" /\ answer' = Exec!Blocked
          /\ UNCHANGED <<alive, helper, holds, written, captured, consumed, reader, budget,
                         limited, limitSent, timedOut>>
      BY <1>5 DEF Exec!Refuse, Exec!Idle, Exec!io, Exec!procs
    <2>2. answer' \in [error : BOOLEAN, truncated : BOOLEAN, timedOut : BOOLEAN]
      BY <2>1 DEF Exec!Blocked, Exec!NoAnswer
    <2>3. ExecTypes'
      BY <2>1, <2>2 DEF ExecTypes
    <2>4. PipesKept'
      BY <2>1, PipesRest
    <2>5. StagesKept'
      BY <2>1 DEF StagesKept, Untouched, Exec!Answered
    <2>6. QED
      BY <2>1, <2>3, <2>4, <2>5 DEF Exec!BudgetIsShared
  <1>6. CASE Exec!Start
    <2>1. /\ exec = "idle" /\ exec' = "waiting" /\ alive' = {"shell"}
          /\ UNCHANGED <<helper, holds, written, captured, consumed, reader, budget,
                         limited, limitSent, timedOut, answer>>
      BY <1>6 DEF Exec!Start, Exec!Idle, Exec!io
    <2>2. ExecTypes'
      BY <2>1 DEF ExecTypes
    <2>3. PipesKept'
      BY <2>1 DEF PipesKept, StagesKept, Untouched
    <2>4. StagesKept'
      BY <2>1 DEF StagesKept, Exec!Answered
    <2>5. QED
      BY <2>1, <2>2, <2>3, <2>4 DEF Exec!BudgetIsShared
  <1>7. CASE Exec!Exited
    <2>1. /\ exec = "waiting" /\ "shell" \notin alive /\ exec' = "joining"
          /\ UNCHANGED <<alive, helper, holds, written, captured, consumed, reader, budget,
                         limited, limitSent, timedOut, answer>>
      BY <1>7 DEF Exec!Exited, Exec!procs, Exec!io
    <2>2. ExecTypes'
      BY <2>1 DEF ExecTypes
    <2>3. PipesKept'
      BY <2>1, PipesRest
    <2>4. StagesKept'
      BY <2>1 DEF StagesKept, Exec!Answered
    <2>5. QED
      BY <2>1, <2>2, <2>3, <2>4 DEF Exec!BudgetIsShared
  <1>8. CASE Exec!TimesOut \/ Exec!LimitReached
    <2>1. /\ exec = "waiting" /\ exec' = "joining"
          /\ timedOut' \in BOOLEAN /\ limitSent' \in BOOLEAN
          /\ alive' = IF helper = "escaped" THEN alive \ {"shell"} ELSE {}
          /\ UNCHANGED <<helper, holds, written, captured, consumed, reader, budget, limited,
                         answer>>
      BY <1>8 DEF Exec!TimesOut, Exec!LimitReached, Exec!KillGroup, Exec!io, ExecTypes
    <2>2. alive' \subseteq alive /\ "shell" \notin alive'
      BY <2>1
    <2>3. ExecTypes'
      BY <2>1, <2>2 DEF ExecTypes
    <2>4. PipesKept'
      BY <2>1, <2>2, PipesRest
    <2>5. StagesKept'
      BY <2>1, <2>2 DEF StagesKept, Exec!Answered
    <2>6. QED
      BY <2>1, <2>3, <2>4, <2>5 DEF Exec!BudgetIsShared
  <1>9. CASE Exec!JoinBoth
    <2>1. /\ exec = "joining" /\ exec' = "answering"
          /\ \A p \in Exec!ExecPipes : reader[p] \in {"done", "failed"}
          /\ UNCHANGED <<alive, helper, holds, written, captured, consumed, reader, budget,
                         limited, limitSent, timedOut>>
      BY <1>9 DEF Exec!JoinBoth, Exec!procs, Exec!io, Exec!Joined
    <2>2. /\ answer' \in [error : BOOLEAN, truncated : BOOLEAN, timedOut : BOOLEAN]
          /\ answer'.timedOut => timedOut
          /\ ~answer'.truncated => ~limited /\ \A p \in Exec!ExecPipes : reader'[p] = "done"
      BY <1>9 DEF Exec!JoinBoth, Exec!Result, ExecTypes
    <2>3. ExecTypes'
      BY <2>1, <2>2 DEF ExecTypes
    <2>4. PipesKept'
      BY <2>1, PipesRest
    <2>5. StagesKept'
      BY <2>1, <2>2 DEF StagesKept, Exec!Answered
    <2>6. QED
      BY <2>1, <2>3, <2>4, <2>5 DEF Exec!BudgetIsShared
  <1>10. CASE Exec!GraceOver
    <2>1. /\ exec = "joining" /\ exec' = "answering"
          /\ reader' = [p \in Exec!ExecPipes |->
                 IF reader[p] \in {"done", "failed"} THEN reader[p] ELSE "aborted"]
          /\ alive' = IF helper = "escaped" THEN alive \ {"shell"} ELSE {}
          /\ UNCHANGED <<helper, holds, written, captured, consumed, budget, limited,
                         limitSent, timedOut>>
      BY <1>10 DEF Exec!GraceOver, Exec!KillGroup, Exec!Joined
    <2>2. /\ answer' \in [error : BOOLEAN, truncated : BOOLEAN, timedOut : BOOLEAN]
          /\ answer'.timedOut => timedOut
          /\ ~answer'.truncated => ~limited /\ \A p \in Exec!ExecPipes : reader'[p] = "done"
      BY <1>10 DEF Exec!GraceOver, Exec!Result, ExecTypes
    <2>3. ExecTypes'
      BY <2>1, <2>2 DEF ExecTypes
    <2>4. \A p \in Exec!ExecPipes :
             reader'[p] \in {"reading", "done"} => reader'[p] = "done" /\ reader[p] = "done"
      BY <2>1
    <2>5. alive' \subseteq alive
      BY <2>1
    <2>6. PipesKept'
      BY <2>1, <2>4, <2>5 DEF PipesKept, Exec!Writers
    <2>7. StagesKept'
      BY <2>1, <2>2 DEF StagesKept, Exec!Answered
    <2>8. QED
      BY <2>1, <2>3, <2>6, <2>7 DEF Exec!BudgetIsShared
  <1>11. CASE Exec!Answer
    <2>1. /\ exec = "answering" /\ exec' = "done"
          /\ UNCHANGED <<alive, helper, holds, written, captured, consumed, reader, budget,
                         limited, limitSent, timedOut, answer>>
      BY <1>11 DEF Exec!Answer, Exec!procs, Exec!io
    <2>2. ExecTypes'
      BY <2>1 DEF ExecTypes
    <2>3. PipesKept'
      BY <2>1, PipesRest
    <2>4. StagesKept'
      BY <2>1 DEF StagesKept, Untouched, Exec!Answered
    <2>5. QED
      BY <2>1, <2>2, <2>3, <2>4 DEF Exec!BudgetIsShared
  <1>12. QED
    BY <1>1, <1>2, <1>3, <1>4, <1>5, <1>6, <1>7, <1>8, <1>9, <1>10, <1>11, ReadKeeps
       DEF Exec!Next

\* What the invariant says of an answer.
LEMMA ExecMeaning ==
  ASSUME ExecInv
  PROVE  CommandIsAccounted
  <1> USE DEF ExecInv
  <1>1. Exec!OutputIsAccounted
    <2> SUFFICES ASSUME Exec!Answered, ~answer.truncated
                 PROVE  captured = written
      BY DEF Exec!OutputIsAccounted
    <2>1. ~limited /\ \A p \in Exec!ExecPipes :
              \/ reader[p] = "done"
              \/ reader[p] = "reading" /\ written[p] = 0
      BY DEF StagesKept, Untouched
    <2>2. \A p \in Exec!ExecPipes : captured[p] = written[p]
      BY <2>1 DEF PipesKept, ExecTypes
    <2>3. QED
      BY <2>2 DEF ExecTypes
  <1>2. Exec!NoSurvivors
    <2> SUFFICES ASSUME Exec!Answered, alive # {}, helper # "escaped"
                 PROVE  /\ ~answer.timedOut /\ alive = {"helper"}
                        /\ \A p \in holds : reader[p] \in {"done", "failed"} /\ answer.truncated
      BY DEF Exec!NoSurvivors
    <2>1. /\ answer.timedOut => timedOut
          /\ \A p \in Exec!ExecPipes : reader[p] \in {"done", "failed"}
          /\ ~answer.truncated => ~limited /\ \A p \in Exec!ExecPipes : reader[p] = "done"
      BY DEF StagesKept, Untouched
    <2>2. ~answer.timedOut /\ alive = {"helper"}
      <3>1. ~timedOut /\ "shell" \notin alive
        BY DEF StagesKept, Exec!Answered
      <3>2. alive \subseteq {"shell", "helper"}
        BY DEF ExecTypes
      <3>3. QED
        BY <2>1, <3>1, <3>2
    <2>3. ASSUME NEW p \in holds, ~answer.truncated
          PROVE  FALSE
      BY <2>1, <2>2, <2>3 DEF PipesKept, ExecTypes, Exec!Writers
    <2>4. QED
      BY <2>1, <2>2, <2>3 DEF ExecTypes
  <1>3. QED
    BY <1>1, <1>2 DEF CommandIsAccounted

-----------------------------------------------------------------------------
(* Prunes.                                                                  *)

\* What a container refers to, and what refers to x.
Refers(c) == {ImageOf[c], VolumeOf[c], NetworkOf[c]}
Unused(x) == \A c \in Containers : x \notin Refers(c)

\* What a prune may remove beyond its preview.
Beyond == Prune!FreedAtPreview \cup Prune!NeverListed

PruneInv ==
    /\ container \in [Containers -> {"running", "exited", "removed"}]
    /\ changes \in Nat /\ withVolumes \in BOOLEAN
    /\ prune = "idle" => removed = {} /\ \A c \in Containers : container[c] # "removed"
    /\ (prune # "idle" /\ listed) =>
          /\ \A c \in Containers : atPreview[c] = "exited" => c \in preview
          /\ \A x \in Images : Unused(x) => x \in preview
          /\ withVolumes => \A x \in Volumes : Unused(x) => x \in preview
    /\ (prune # "idle" /\ changes = 0) =>
          \A c \in Containers : \/ container[c] = atPreview[c] /\ container[c] # "removed"
                                \/ atPreview[c] = "exited" /\ container[c] = "removed"
    /\ (listed /\ changes = 0) => removed \ preview \subseteq Beyond

\* Used is what a container that is not removed refers to.
LEMMA PruneUsed ==
  ASSUME NEW c \in Containers, container[c] # "removed"
  PROVE  Refers(c) \subseteq Prune!Used
  BY DEF Refers, Prune!Used

LEMMA PruneUsers ==
  ASSUME NEW x
  PROVE  /\ Unused(x) <=> Prune!Users(x) = {}
         /\ \A c : c \in Prune!Users(x) <=> c \in Containers /\ x \in Refers(c)
  BY DEF Unused, Refers, Prune!Users

\* A stage of docker removes what is unused of a set it is asked to look at.
LEMMA PruneUnused ==
  ASSUME PruneInv, prune # "idle", NEW from, NEW next, next # "idle",
         NEW S, S \in {Images, Networks, Cache, IF withVolumes THEN Volumes ELSE {}},
         Prune!RemoveUnused(from, S, next)
  PROVE  PruneInv'
  <1> USE DEF PruneInv
  <1>0. /\ prune' # "idle" /\ removed' = removed \cup (kept \cap (S \ Prune!Used))
        /\ UNCHANGED <<container, preview, listed, atPreview, withVolumes, changes>>
    BY DEF Prune!RemoveUnused
  <1>1. ASSUME listed, changes = 0
        PROVE  removed' \ preview \subseteq Beyond
    <2> SUFFICES ASSUME NEW x \in S, x \notin Prune!Used, x \notin preview
                 PROVE  x \in Beyond
      BY <1>0, <1>1
    <2>1. \A c \in Prune!Users(x) : container[c] = "removed"
      BY PruneUsed, PruneUsers
    <2>2. \A c \in Prune!Users(x) : atPreview[c] = "exited"
      BY <1>1, <2>1, PruneUsers
    <2>3. CASE Unused(x)
      <3>1. x \in Networks \cup Cache
        BY <1>1, <2>3
      <3>2. QED
        BY <2>3, <3>1, PruneUsers DEF Beyond, Prune!NeverListed
    <2>4. CASE ~Unused(x)
      <3>1. Prune!Users(x) # {}
        BY <2>4, PruneUsers
      <3>2. CASE x \in Cache
        BY <3>2 DEF Beyond, Prune!NeverListed
      <3>3. CASE x \notin Cache
        <4>1. x \in Images \cup Networks \cup (IF withVolumes THEN Volumes ELSE {})
          BY <3>3
        <4>2. QED
          BY <2>2, <3>1, <4>1 DEF Beyond, Prune!FreedAtPreview
      <3>4. QED
        BY <3>2, <3>3
    <2>5. QED
      BY <2>3, <2>4
  <1>2. Beyond' = Beyond
    BY <1>0 DEF Beyond, Prune!FreedAtPreview, Prune!NeverListed, Prune!Users
  <1>3. QED
    BY <1>0, <1>1, <1>2 DEF Refers, Unused

\* A prune's steps, and what others do to containers, keep its invariant.
LEMMA PruneStep ==
  ASSUME PruneInv, Prune!Next
  PROVE  PruneInv'
  <1> USE DEF PruneInv
  <1>1. ASSUME NEW volumes \in BOOLEAN, NEW said \in BOOLEAN, Prune!Preview(volumes, said)
        PROVE  PruneInv'
    <2>1. /\ prune = "idle" /\ prune' = "shown" /\ withVolumes' = volumes /\ listed' = said
          /\ atPreview' = container /\ changes' = 0
          /\ said => preview' = Prune!Listed(volumes)
          /\ UNCHANGED <<container, kept, removed>>
      BY <1>1 DEF Prune!Preview, Prune!Idle
    <2>2. \A x : Unused(x) => x \notin Prune!Used
      BY DEF Unused, Refers, Prune!Used
    <2>3. said => /\ \A c \in Containers : container[c] = "exited" => c \in preview'
                  /\ \A x \in Images : Unused(x) => x \in preview'
                  /\ volumes => \A x \in Volumes : Unused(x) => x \in preview'
      BY <2>1, <2>2 DEF Prune!Listed, Prune!Stopped
    <2>4. QED
      BY <2>1, <2>3 DEF Refers, Unused
  <1>2. ASSUME NEW c \in Containers, Prune!Change(c)
        PROVE  PruneInv'
    <2>1. /\ changes' = changes + 1
          /\ container[c] # "removed"
          /\ \E now \in {"running", "exited"} : container' = [container EXCEPT ![c] = now]
          /\ UNCHANGED <<kept, preview, listed, atPreview, prune, withVolumes, removed>>
      BY <1>2 DEF Prune!Change
    <2>2. \A d \in Containers : container'[d] = "removed" <=> container[d] = "removed"
      BY <2>1
    <2>3. container' \in [Containers -> {"running", "exited", "removed"}]
      BY <2>1
    <2>4. changes' \in Nat /\ changes' # 0
      BY <2>1
    <2>5. QED
      BY <2>1, <2>2, <2>3, <2>4 DEF Refers, Unused
  <1>3. CASE Prune!Request \/ Prune!PruneFails \/ Prune!Respond
    <2>1. /\ prune # "idle" /\ prune' # "idle"
          /\ UNCHANGED <<container, kept, preview, listed, atPreview, withVolumes, removed,
                         changes>>
      BY <1>3 DEF Prune!Request, Prune!PruneFails, Prune!Stages, Prune!Respond
    <2>2. QED
      BY <2>1 DEF Refers, Unused, Beyond, Prune!FreedAtPreview, Prune!NeverListed, Prune!Users
  <1>4. CASE Prune!PruneContainers
    <2>1. /\ prune # "idle" /\ prune' # "idle"
          /\ removed' = removed \cup Prune!Stopped
          /\ container' = [c \in Containers |->
                IF container[c] = "exited" THEN "removed" ELSE container[c]]
          /\ UNCHANGED <<kept, preview, listed, atPreview, withVolumes, changes>>
      BY <1>4 DEF Prune!PruneContainers
    <2>2. Beyond' = Beyond
      BY <2>1 DEF Beyond, Prune!FreedAtPreview, Prune!NeverListed, Prune!Users
    <2>3. (listed /\ changes = 0) => Prune!Stopped \subseteq preview
      BY <2>1 DEF Prune!Stopped
    <2>4. container' \in [Containers -> {"running", "exited", "removed"}]
      BY <2>1
    <2>5. QED
      BY <2>1, <2>2, <2>3, <2>4 DEF Refers, Unused
  <1>5. CASE \/ Prune!PruneNetworks \/ Prune!PruneVolumes \/ Prune!PruneImages
             \/ Prune!PruneCache
    <2> HIDE DEF PruneInv
    <2>1. prune # "idle"
      BY <1>5 DEF Prune!PruneNetworks, Prune!PruneVolumes, Prune!PruneImages,
         Prune!PruneCache, Prune!RemoveUnused
    <2>2. CASE Prune!PruneNetworks
      BY <2>1, <2>2, PruneUnused DEF Prune!PruneNetworks
    <2>3. CASE Prune!PruneVolumes
      BY <2>1, <2>3, PruneUnused DEF Prune!PruneVolumes
    <2>4. CASE Prune!PruneImages
      BY <2>1, <2>4, PruneUnused DEF Prune!PruneImages
    <2>5. CASE Prune!PruneCache
      BY <2>1, <2>5, PruneUnused DEF Prune!PruneCache
    <2>6. QED
      BY <1>5, <2>2, <2>3, <2>4, <2>5
  <1>6. QED
    BY <1>1, <1>2, <1>3, <1>4, <1>5 DEF Prune!Next

-----------------------------------------------------------------------------
(* Backups.                                                                 *)

BackupTypes ==
    /\ second \in Backup!Names
    /\ stage \in [Backups -> {"idle", "checking", "archiving", "uploading", "parts",
                              "completing", "aborting", "responding", "done"}]
    /\ dest \in [Backups -> {Backup!None, "local", "s3"}]
    /\ named \in [Backups -> Backup!Names]
    /\ file \in [Backup!Names -> [by : Backups \cup {Backup!None},
                                  is : {"absent", "partial", "whole", "torn"}]]
    /\ object \in [Backup!Names -> Backups \cup {Backup!None}]
    /\ upload \in [Backups -> {"none", "open", "completed", "aborted"}]
    /\ stored \in [Backups -> Nat]
    /\ lost \subseteq Backups
    /\ success \in [Backups -> BOOLEAN]

\* What each stage has done at the destination.
BackupAt(b) ==
    /\ stage[b] # "idle" => dest[b] \in {"local", "s3"}
    /\ stage[b] \in {"uploading", "parts", "completing", "aborting"} => dest[b] = "s3"
    /\ stage[b] \in {"idle", "checking", "archiving", "uploading"} => upload[b] = "none"
    /\ stage[b] \in {"parts", "completing", "aborting"} => upload[b] = "open"
    /\ stage[b] = "completing" => stored[b] = Parts
    /\ (stage[b] = "archiving" /\ dest[b] = "local" /\ Backup!Alone(b)) =>
           file[named[b]] = [by |-> b, is |-> "partial"]

BackupInv ==
    BackupTypes /\ (\A b \in Backups : BackupAt(b))
        /\ Backup!SuccessIsStored /\ Backup!UploadIsClosed

\* What the invariant says of one backup.
BackupOf(b) ==
    /\ BackupAt(b)
    /\ (Backup!Finished(b) /\ success[b] /\ Backup!Alone(b)) =>
           IF dest[b] = "local" THEN file[named[b]] = [by |-> b, is |-> "whole"]
           ELSE object[named[b]] = b
    /\ upload[b] = "completed" => stored[b] = Parts
    /\ (Backup!Finished(b) /\ upload[b] = "open") => b \in lost

\* The invariant is the types and what it says of each backup.
LEMMA BackupEach == BackupInv <=> BackupTypes /\ \A b \in Backups : BackupOf(b)
  BY DEF BackupInv, BackupOf, Backup!SuccessIsStored, Backup!UploadIsClosed


\* A step of one backup changes its own entries and the archive of its name,
\* keeps the name and the destination once it has begun to write, and never
\* returns to a stage before that.
Begun(b) == stage[b] \notin {"idle", "checking"}
OnlyOf(c) ==
    /\ \A b \in Backups \ {c} :
          /\ stage'[b] = stage[b] /\ dest'[b] = dest[b] /\ named'[b] = named[b]
          /\ upload'[b] = upload[b] /\ stored'[b] = stored[b] /\ success'[b] = success[b]
    /\ lost \subseteq lost'
    /\ Begun(c) => named'[c] = named[c] /\ dest'[c] = dest[c] /\ Begun(c)'
    /\ \A n \in Backup!Names :
          /\ file'[n] = file[n] \/ (n = named'[c] /\ dest'[c] = "local" /\ Begun(c)')
          /\ object'[n] = object[n] \/ (n = named'[c] /\ dest'[c] = "s3" /\ Begun(c)')

\* Every step of a backup is such a step, and well typed.
LEMMA BackupOwn ==
  ASSUME BackupInv, NEW c \in Backups, Backup!Step(c)
  PROVE  OnlyOf(c) /\ BackupTypes'
  <1> BackupTypes /\ BackupAt(c)
    BY DEF BackupInv
  <1> USE DEF BackupTypes, BackupAt, OnlyOf, Begun, Backup!At, Backup!To
  <1>1. CASE \E d \in {"local", "s3"} : Backup!Request(c, d)
    BY <1>1 DEF Backup!Request
  <1>2. CASE Backup!CheckFails(c)
    BY <1>2 DEF Backup!CheckFails, Backup!Respond
  <1>3. CASE Backup!StartTar(c)
    BY <1>3 DEF Backup!StartTar
  <1>4. CASE \E ok \in BOOLEAN : Backup!TarExits(c, ok)
    <2>1. /\ stage[c] = "archiving"
          /\ file' = file \/
                /\ dest[c] = "local" /\ file[named[c]] = [by |-> c, is |-> "partial"]
                /\ file' = [file EXCEPT ![named[c]].is = "whole"]
          /\ \E next \in {"responding", "uploading"} : stage' = [stage EXCEPT ![c] = next]
          /\ success' = success \/ \E ok \in BOOLEAN : success' = [success EXCEPT ![c] = ok]
          /\ UNCHANGED <<second, dest, named, object, upload, stored, lost>>
      BY <1>4 DEF Backup!TarExits, Backup!Close, Backup!Respond
    <2>2. /\ file' \in [Backup!Names -> [by : Backups \cup {Backup!None},
                                       is : {"absent", "partial", "whole", "torn"}]]
          /\ \A n \in Backup!Names :
                file'[n] = file[n] \/ (n = named[c] /\ dest[c] = "local")
      BY <2>1
    <2>3. QED
      BY <2>1, <2>2
  <1>5. CASE \E ok, applied \in BOOLEAN : Backup!Put(c, ok, applied)
    BY <1>5 DEF Backup!Put, Backup!Respond
  <1>6. CASE \E ok, applied \in BOOLEAN : Backup!Create(c, ok, applied)
    BY <1>6 DEF Backup!Create, Backup!Respond
  <1>7. CASE \E ok \in BOOLEAN : Backup!UploadPart(c, ok)
    <2>1. /\ stage[c] = "parts"
          /\ stored' = stored \/ stored' = [stored EXCEPT ![c] = @ + 1]
          /\ stage' = stage \/ stage' = [stage EXCEPT ![c] = "aborting"]
          /\ UNCHANGED <<second, dest, named, file, object, upload, lost, success>>
      BY <1>7 DEF Backup!UploadPart
    <2>2. stored' \in [Backups -> Nat] /\ \A b \in Backups \ {c} : stored'[b] = stored[b]
      BY <2>1
    <2>3. QED
      BY <2>1, <2>2
  <1>8. CASE Backup!PartsEnd(c)
    BY <1>8 DEF Backup!PartsEnd
  <1>9. CASE \E ok, applied \in BOOLEAN : Backup!Complete(c, ok, applied)
    BY <1>9 DEF Backup!Complete, Backup!Respond
  <1>10. CASE \E applied \in BOOLEAN : Backup!AbortUpload(c, applied)
    BY <1>10 DEF Backup!AbortUpload, Backup!Respond
  <1>11. CASE Backup!Response(c)
    BY <1>11 DEF Backup!Response
  <1>12. QED
    BY <1>1, <1>2, <1>3, <1>4, <1>5, <1>6, <1>7, <1>8, <1>9, <1>10, <1>11 DEF Backup!Step

\* It leaves what the invariant says of the others.
LEMMA BackupOthers ==
  ASSUME BackupInv, NEW c \in Backups, OnlyOf(c), NEW b \in Backups \ {c}
  PROVE  BackupOf(b)'
  <1>1. BackupOf(b) /\ BackupTypes
    BY BackupEach
  <1>2. ASSUME Backup!Alone(b)'
        PROVE  /\ Backup!Alone(b)
               /\ Begun(b) /\ dest[b] = "local" => file'[named[b]] = file[named[b]]
               /\ Begun(b) /\ dest[b] = "s3" => object'[named[b]] = object[named[b]]
    <2>1. named'[c] # named[b] \/ dest'[c] # dest[b] \/ ~Begun(c)'
      BY <1>2 DEF Backup!Alone, OnlyOf, Begun
    <2>2. Backup!Alone(b)
      BY <1>2 DEF Backup!Alone, OnlyOf, Begun
    <2>3. named[b] \in Backup!Names
      BY <1>1 DEF BackupTypes
    <2>4. QED
      BY <2>1, <2>2, <2>3 DEF OnlyOf
  <1>3. Begun(b) => dest[b] \in {"local", "s3"}
    BY <1>1 DEF BackupOf, BackupAt, Begun
  <1>4. QED
    BY <1>1, <1>2, <1>3 DEF BackupOf, BackupAt, Backup!Finished, OnlyOf, Begun

\* And keeps what it says of the backup itself.
LEMMA BackupSelf ==
  ASSUME BackupInv, NEW c \in Backups, Backup!Step(c)
  PROVE  BackupOf(c)'
  <1>1. BackupTypes /\ BackupOf(c)
    BY BackupEach
  <1>2. OnlyOf(c)
    BY BackupOwn
  <1>3. Begun(c) /\ Backup!Alone(c)' => Backup!Alone(c)
    BY <1>2 DEF Backup!Alone, OnlyOf, Begun
  <1> USE DEF BackupTypes, BackupOf, BackupAt, Begun, Backup!Finished, Backup!At, Backup!To
  <1>4. CASE \E d \in {"local", "s3"} : Backup!Request(c, d)
    BY <1>1, <1>4 DEF Backup!Request
  <1>5. CASE Backup!CheckFails(c)
    BY <1>1, <1>5 DEF Backup!CheckFails, Backup!Respond
  <1>6. CASE Backup!StartTar(c)
    <2>1. /\ stage[c] = "checking" /\ stage' = [stage EXCEPT ![c] = "archiving"]
          /\ named' = [named EXCEPT ![c] = second]
          /\ dest[c] = "local" => file' = [file EXCEPT ![second] =
                [by |-> c, is |-> IF Backup!Writing(second) = {} THEN "partial" ELSE "torn"]]
          /\ UNCHANGED <<second, dest, object, upload, stored, lost, success>>
      BY <1>6 DEF Backup!StartTar
    <2>2. ASSUME Backup!Alone(c)', dest[c] = "local"
          PROVE  file'[named'[c]] = [by |-> c, is |-> "partial"]
      <3>1. \A b \in Backups \ {c} :
               named[b] # second \/ dest[b] # "local" \/ stage[b] # "archiving"
        BY <1>1, <2>1, <2>2 DEF Backup!Alone
      <3>2. Backup!Writing(second) = {}
        BY <2>1, <3>1 DEF Backup!Writing
      <3>3. named'[c] = second /\ second \in Backup!Names
        BY <1>1, <2>1
      <3>4. QED
        BY <1>1, <2>1, <2>2, <3>2, <3>3
    <2>3. stage'[c] = "archiving" /\ stage[c] = "checking"
      BY <1>1, <2>1
    <2>4. QED
      BY <1>1, <2>1, <2>2, <2>3
  <1>7. CASE \E ok \in BOOLEAN : Backup!TarExits(c, ok)
    <2>1. PICK ok \in BOOLEAN : Backup!TarExits(c, ok)
      BY <1>7
    <2>2. /\ stage[c] = "archiving"
          /\ UNCHANGED <<second, dest, named, object, upload, stored, lost>>
      BY <2>1 DEF Backup!TarExits
    <2>3. CASE ok /\ dest[c] = "s3"
      <3>1. stage'[c] = "uploading"
        BY <1>1, <2>1, <2>3 DEF Backup!TarExits
      <3>2. QED
        BY <1>1, <2>2, <2>3, <3>1
    <2>4. CASE ok /\ dest[c] = "local"
      <3>1. stage'[c] = "responding"
        BY <1>1, <2>1, <2>4 DEF Backup!TarExits, Backup!Respond
      <3>2. file[named[c]] = [by |-> c, is |-> "partial"] =>
               file'[named[c]] = [by |-> c, is |-> "whole"]
        BY <1>1, <2>1, <2>4 DEF Backup!TarExits, Backup!Close
      <3>3. QED
        BY <1>1, <1>3, <2>2, <2>4, <3>1, <3>2
    <2>5. CASE ~ok
      <3>1. stage'[c] = "responding" /\ success'[c] = FALSE
        BY <1>1, <2>1, <2>5 DEF Backup!TarExits, Backup!Respond
      <3>2. QED
        BY <1>1, <2>2, <3>1
    <2>6. QED
      BY <1>1, <2>2, <2>3, <2>4, <2>5
  <1>8. CASE \E ok, applied \in BOOLEAN : Backup!Put(c, ok, applied)
    BY <1>1, <1>8 DEF Backup!Put, Backup!Respond
  <1>9. CASE \E ok, applied \in BOOLEAN : Backup!Create(c, ok, applied)
    BY <1>1, <1>9 DEF Backup!Create, Backup!Respond
  <1>10. CASE \E ok \in BOOLEAN : Backup!UploadPart(c, ok)
    BY <1>1, <1>10 DEF Backup!UploadPart
  <1>11. CASE Backup!PartsEnd(c)
    BY <1>1, <1>11 DEF Backup!PartsEnd
  <1>12. CASE \E ok, applied \in BOOLEAN : Backup!Complete(c, ok, applied)
    BY <1>1, <1>12 DEF Backup!Complete, Backup!Respond
  <1>13. CASE \E applied \in BOOLEAN : Backup!AbortUpload(c, applied)
    BY <1>1, <1>13 DEF Backup!AbortUpload, Backup!Respond
  <1>14. CASE Backup!Response(c)
    BY <1>1, <1>3, <1>14 DEF Backup!Response
  <1>15. QED
    BY <1>4, <1>5, <1>6, <1>7, <1>8, <1>9, <1>10, <1>11, <1>12, <1>13, <1>14 DEF Backup!Step

\* A backup's steps keep its invariant.
LEMMA BackupStep ==
  ASSUME BackupInv, Backup!Next
  PROVE  BackupInv'
  <1>1. CASE Backup!Passes
    <2>1. /\ second' \in Backup!Names
          /\ UNCHANGED <<stage, dest, named, file, object, upload, stored, lost, success>>
      BY <1>1, RequestsAssumption
         DEF Backup!Passes, Backup!Names, BackupInv, BackupTypes, Backup!BackupsAssumption
    <2>2. QED
      BY <2>1 DEF BackupInv, BackupTypes, BackupAt, Backup!SuccessIsStored,
         Backup!UploadIsClosed, Backup!Finished, Backup!Alone
  <1>2. ASSUME NEW c \in Backups, Backup!Step(c)
        PROVE  BackupInv'
    <2>1. BackupTypes' /\ \A b \in Backups : BackupOf(b)'
      BY <1>2, BackupOwn, BackupOthers, BackupSelf
    <2>2. QED
      BY <2>1 DEF BackupInv, BackupOf, Backup!SuccessIsStored, Backup!UploadIsClosed
  <1>3. QED
    BY <1>1, <1>2 DEF Backup!Next

-----------------------------------------------------------------------------
(* Applies.                                                                 *)

\* The documents that were looked at and not blank.
Seen == {d \in Apply!Wanted : d < doc}

ApplyInv ==
    /\ manifest \in Seq(Apply!Docs) /\ doc \in Nat \ {0}
    /\ dryRun \in BOOLEAN /\ force \in BOOLEAN
    /\ outcome \in [error : BOOLEAN, listed : Nat]
    /\ changed \subseteq {d \in Apply!Wanted : d <= doc /\ manifest[d] = "allowed"}
    /\ Seen \subseteq changed \/ dryRun
    /\ dryRun \/ force => changed = {}
    /\ ~outcome.error => outcome.listed = Cardinality(Seen)
    /\ apply \in {"idle", "opening"} => doc = 1 /\ changed = {}
    /\ apply \in {"idle", "opening", "applying"} => ~outcome.error /\ changed \subseteq Seen
    /\ (apply \in {"responding", "done"} /\ ~outcome.error) =>
          doc > Len(manifest) /\ changed \subseteq Seen

\* The document being looked at joins those that were seen, unless it is blank.
LEMMA ApplySeen ==
  ASSUME ApplyInv, doc <= Len(manifest), doc' = doc + 1, UNCHANGED manifest
  PROVE  /\ IsFiniteSet(Seen) /\ doc \notin Seen
         /\ Seen' = IF manifest[doc] = "blank" THEN Seen ELSE Seen \cup {doc}
         /\ Cardinality(Seen') =
               IF manifest[doc] = "blank" THEN Cardinality(Seen) ELSE Cardinality(Seen) + 1
  <1> USE DEF ApplyInv
  <1>1. DOMAIN manifest = 1 .. Len(manifest) /\ Len(manifest) \in Nat
    OBVIOUS
  <1>2. IsFiniteSet(1 .. Len(manifest))
    BY <1>1, FS_Interval
  <1>3. IsFiniteSet(Seen)
    BY <1>1, <1>2, FS_Subset DEF Seen, Apply!Wanted
  <1>4. doc \notin Seen
    BY DEF Seen
  <1>5. Seen' = IF manifest[doc] = "blank" THEN Seen ELSE Seen \cup {doc}
    BY <1>1 DEF Seen, Apply!Wanted
  <1>6. Cardinality(Seen \cup {doc}) = Cardinality(Seen) + 1
    BY <1>3, <1>4, FS_AddElement
  <1>7. QED
    BY <1>3, <1>4, <1>5, <1>6

\* An apply's steps keep its invariant.
LEMMA ApplyStep ==
  ASSUME ApplyInv, Apply!Next
  PROVE  ApplyInv'
  <1> USE DEF ApplyInv
  <1>1. CASE Apply!Request
    <2>1. /\ apply = "idle" /\ apply' = "opening"
          /\ dryRun' \in BOOLEAN /\ force' \in BOOLEAN
          /\ UNCHANGED <<doc, changed, outcome>>
      BY <1>1 DEF Apply!Request, Apply!Idle
    <2>2. manifest' \in Seq(Apply!Docs)
      BY <1>1 DEF Apply!Request
    <2>3. Seen = {} /\ Seen' = {}
      BY <2>1, <2>2 DEF Seen, Apply!Wanted
    <2>4. /\ changed' = {} /\ ~outcome'.error /\ outcome'.listed = Cardinality(Seen')
          /\ outcome' \in [error : BOOLEAN, listed : Nat] /\ doc' = 1
      BY <2>1, <2>3
    <2>5. changed' \subseteq {d \in Apply!Wanted' : d <= doc' /\ manifest'[d] = "allowed"}
      BY <2>4
    <2>6. /\ Seen' \subseteq changed' \/ dryRun'
          /\ dryRun' \/ force' => changed' = {}
          /\ changed' \subseteq Seen'
          /\ doc' \in Nat \ {0}
      BY <2>3, <2>4
    <2>7. QED
      BY <2>1, <2>2, <2>4, <2>5, <2>6
  <1>2. CASE Apply!Open
    <2>1. /\ apply = "opening" /\ UNCHANGED <<manifest, dryRun, force, doc, changed>>
          /\ \/ apply' = "applying" /\ UNCHANGED outcome
             \/ apply' = "responding" /\ outcome' = [error |-> TRUE, listed |-> 0]
      BY <1>2 DEF Apply!Open, Apply!Fail
    <2>2. Seen' = Seen /\ Apply!Wanted' = Apply!Wanted
      BY <2>1 DEF Seen, Apply!Wanted
    <2>3. [error |-> TRUE, listed |-> 0] \in [error : BOOLEAN, listed : Nat]
      OBVIOUS
    <2>4. CASE apply' = "applying" /\ UNCHANGED outcome
      <3>1. ~outcome'.error /\ outcome'.listed = Cardinality(Seen') /\ changed' \subseteq Seen'
        BY <2>1, <2>2, <2>4
      <3>2. QED
        BY <2>1, <2>2, <2>4, <3>1
    <2>5. CASE apply' = "responding" /\ outcome' = [error |-> TRUE, listed |-> 0]
      <3>1. outcome'.error
        BY <2>5
      <3>2. QED
        BY <2>1, <2>2, <2>3, <2>5, <3>1
    <2>6. QED
      BY <2>1, <2>4, <2>5
  <1>3. CASE Apply!Skip
    <2>1. /\ apply = "applying" /\ doc <= Len(manifest) /\ manifest[doc] = "blank"
          /\ doc' = doc + 1
          /\ UNCHANGED <<apply, manifest, dryRun, force, changed, outcome>>
      BY <1>3 DEF Apply!Skip, Apply!More
    <2>2. Seen' = Seen
      BY <2>1, ApplySeen
    <2>3. QED
      BY <2>1, <2>2 DEF Apply!Wanted
  <1>4. CASE Apply!Reject
    <2>1. /\ apply = "applying" /\ apply' = "responding"
          /\ outcome' = [error |-> TRUE, listed |-> 0]
          /\ UNCHANGED <<manifest, dryRun, force, doc, changed>>
      BY <1>4 DEF Apply!Reject, Apply!More, Apply!Fail
    <2>2. Seen' = Seen /\ Apply!Wanted' = Apply!Wanted
      BY <2>1 DEF Seen, Apply!Wanted
    <2>3. QED
      BY <2>1, <2>2
  <1>5. CASE Apply!Patch
    <2>1. /\ apply = "applying" /\ doc <= Len(manifest)
          /\ manifest[doc] = "allowed" /\ ~force
          /\ UNCHANGED <<manifest, dryRun, force>>
      BY <1>5 DEF Apply!Patch, Apply!More, Apply!Admitted, Apply!Fail
    <2>2. doc \in Apply!Wanted
      BY <2>1 DEF Apply!Wanted
    <2>3. CASE /\ changed' = Apply!Taken /\ doc' = doc + 1
               /\ outcome' = [outcome EXCEPT !.listed = @ + 1]
               /\ UNCHANGED apply
      <3>1. Seen' = Seen \cup {doc} /\ Cardinality(Seen') = Cardinality(Seen) + 1
        BY <2>1, <2>3, ApplySeen
      <3>2. outcome' \in [error : BOOLEAN, listed : Nat] /\ ~outcome'.error
               /\ outcome'.listed = Cardinality(Seen')
        BY <2>1, <2>3, <3>1
      <3>3. changed' \subseteq Seen' /\ (Seen' \subseteq changed' \/ dryRun)
        BY <2>1, <2>3, <3>1 DEF Apply!Taken
      <3>4. changed' \subseteq {d \in Apply!Wanted : d <= doc' /\ manifest[d] = "allowed"}
        BY <2>1, <2>2, <2>3 DEF Apply!Taken, Apply!Wanted
      <3>5. QED
        BY <2>1, <2>3, <3>2, <3>3, <3>4 DEF Apply!Taken, Apply!Wanted
    <2>4. CASE Apply!Fail /\ changed' \in {changed, Apply!Taken}
      <3>1. /\ apply' = "responding" /\ outcome' = [error |-> TRUE, listed |-> 0]
            /\ doc' = doc /\ Seen' = Seen
        BY <2>1, <2>4 DEF Apply!Fail, Seen, Apply!Wanted
      <3>2. /\ changed' \subseteq {d \in Apply!Wanted : d <= doc /\ manifest[d] = "allowed"}
            /\ (Seen \subseteq changed' \/ dryRun) /\ (dryRun \/ force => changed' = {})
        BY <2>1, <2>2, <2>4 DEF Apply!Taken
      <3>3. QED
        BY <2>1, <3>1, <3>2 DEF Apply!Wanted
    <2>5. QED
      BY <1>5, <2>3, <2>4 DEF Apply!Patch
  <1>6. CASE Apply!AllApplied
    <2>1. /\ apply = "applying" /\ apply' = "responding" /\ doc > Len(manifest)
          /\ UNCHANGED <<manifest, dryRun, force, doc, changed, outcome>>
      BY <1>6 DEF Apply!AllApplied
    <2>2. Seen' = Seen /\ Apply!Wanted' = Apply!Wanted
      BY <2>1 DEF Seen, Apply!Wanted
    <2>3. QED
      BY <2>1, <2>2
  <1>7. CASE Apply!Respond
    <2>1. /\ apply = "responding" /\ apply' = "done"
          /\ UNCHANGED <<manifest, dryRun, force, doc, changed, outcome>>
      BY <1>7 DEF Apply!Respond
    <2>2. Seen' = Seen /\ Apply!Wanted' = Apply!Wanted
      BY <2>1 DEF Seen, Apply!Wanted
    <2>3. QED
      BY <2>1, <2>2
  <1>8. QED
    BY <1>1, <1>2, <1>3, <1>4, <1>5, <1>6, <1>7 DEF Apply!Next

\* What the invariant says of an answer.
LEMMA ApplyMeaning ==
  ASSUME ApplyInv
  PROVE  AppliedIsPrefix
  <1>1. ASSUME doc > Len(manifest)
        PROVE  Seen = Apply!Wanted
    BY <1>1 DEF ApplyInv, Seen, Apply!Wanted
  <1>2. {d \in Apply!Wanted : d < doc} \subseteq changed \/ dryRun
    BY DEF ApplyInv, Seen
  <1>3. /\ changed \subseteq {d \in Apply!Wanted : d <= doc /\ manifest[d] = "allowed"}
        /\ dryRun \/ force => changed = {}
    BY DEF ApplyInv
  <1>4. ASSUME apply \in {"responding", "done"}, ~outcome.error
        PROVE  (dryRun \/ changed = Apply!Wanted) /\ outcome.listed = Cardinality(Apply!Wanted)
    BY <1>1, <1>4 DEF ApplyInv
  <1>5. (apply \in {"responding", "done"} /\ ~outcome.error) =>
           /\ dryRun \/ changed = Apply!Wanted
           /\ outcome.listed = Cardinality(Apply!Wanted)
    BY <1>4
  <1>6. Apply!Cardinality(Apply!Wanted) = Cardinality(Apply!Wanted)
    BY DEF Apply!Cardinality, Cardinality
  <1>7. Apply!AppliedIsPrefix
    BY <1>2, <1>3, <1>5, <1>6, Zenon DEF Apply!AppliedIsPrefix
  <1>8. QED
    BY <1>7 DEF AppliedIsPrefix

-----------------------------------------------------------------------------
(* The invariants of all kinds, and what they establish.                    *)

TasksInv == RestoreInv /\ ExecInv /\ PruneInv /\ BackupInv /\ ApplyInv

\* A task that rests keeps its invariant.
LEMMA TasksRest ==
  /\ RestoreInv /\ UNCHANGED restoreTask => RestoreInv'
  /\ ExecInv /\ UNCHANGED execTask => ExecInv'
  /\ PruneInv /\ UNCHANGED pruneTask => PruneInv'
  /\ BackupInv /\ UNCHANGED backupTask => BackupInv'
  /\ ApplyInv /\ UNCHANGED applyTask => ApplyInv'
  <1>1. ASSUME RestoreInv, UNCHANGED restoreTask
        PROVE  RestoreInv'
    BY <1>1 DEF RestoreInv, restoreTask, Restoring!Running
  <1>2. ASSUME ExecInv, UNCHANGED execTask
        PROVE  ExecInv'
    <2>1. UNCHANGED <<alive, helper, holds, written, captured, consumed, reader, budget,
                      limited, limitSent, exec, timedOut, answer>>
      BY <1>2 DEF execTask
    <2>2. ExecTypes' /\ Exec!BudgetIsShared'
      BY <1>2, <2>1 DEF ExecInv, ExecTypes, Exec!BudgetIsShared
    <2>3. PipesKept'
      BY <1>2, <2>1, PipesRest DEF ExecInv
    <2>4. StagesKept'
      BY <1>2, <2>1 DEF ExecInv, StagesKept, Untouched, Exec!Answered
    <2>5. QED
      BY <2>2, <2>3, <2>4 DEF ExecInv
  <1>3. ASSUME PruneInv, UNCHANGED pruneTask
        PROVE  PruneInv'
    BY <1>3 DEF PruneInv, pruneTask, Refers, Unused, Beyond, Prune!FreedAtPreview,
       Prune!NeverListed, Prune!Users
  <1>4. ASSUME BackupInv, UNCHANGED backupTask
        PROVE  BackupInv'
    BY <1>4 DEF BackupInv, backupTask, BackupTypes, BackupAt, Backup!SuccessIsStored,
       Backup!UploadIsClosed, Backup!Finished, Backup!Alone
  <1>5. ASSUME ApplyInv, UNCHANGED applyTask
        PROVE  ApplyInv'
    <2>1. UNCHANGED <<apply, manifest, dryRun, force, doc, changed, outcome>>
      BY <1>5 DEF applyTask
    <2>2. Seen' = Seen /\ Apply!Wanted' = Apply!Wanted
      BY <2>1 DEF Seen, Apply!Wanted
    <2>3. QED
      BY <1>5, <2>1, <2>2 DEF ApplyInv
  <1>6. QED
    BY <1>1, <1>2, <1>3, <1>4, <1>5

\* No task has begun at the start.
LEMMA TasksBegin == Init => TasksInv
  <1> SUFFICES ASSUME Init
               PROVE  TasksInv
    OBVIOUS
  <1>1. RestoreInv
    BY DEF Init, Restoring!Init, RestoreInv, Restoring!Running
  <1>2. ExecInv
    <2>1. Exec!Init /\ OutputLimit \in Nat
      BY RequestsAssumption DEF Init, Exec!LimitsAssumption
    <2>2. ExecTypes
      BY <2>1 DEF Exec!Init, ExecTypes, Exec!NoAnswer
    <2>3. PipesKept /\ StagesKept
      BY <2>1 DEF Exec!Init, PipesKept, StagesKept, Untouched, Exec!Answered
    <2>4. Exec!BudgetIsShared
      BY <2>1 DEF Exec!Init, Exec!BudgetIsShared, Exec!ExecPipes
    <2>5. QED
      BY <2>2, <2>3, <2>4 DEF ExecInv
  <1>3. PruneInv
    BY RequestsAssumption
       DEF Init, Prune!Init, PruneInv, Refers, Prune!DockerAssumption
  <1>4. BackupInv
    <2>1. 0 \in Backup!Names
      BY RequestsAssumption DEF Backup!Names, Backup!BackupsAssumption
    <2>2. QED
      BY <2>1 DEF Init, Backup!Init, BackupInv, BackupTypes, BackupAt,
         Backup!SuccessIsStored, Backup!UploadIsClosed, Backup!Finished
  <1>5. ApplyInv
    <2>1. Apply!Init
      BY DEF Init
    <2>2. manifest \in Seq(Apply!Docs) /\ outcome \in [error : BOOLEAN, listed : Nat]
      BY <2>1 DEF Apply!Init
    <2>3. Seen = {} /\ Cardinality(Seen) = 0
      BY <2>1, FS_EmptySet DEF Apply!Init, Seen, Apply!Wanted
    <2>4. /\ apply = "idle" /\ doc = 1 /\ changed = {} /\ ~outcome.error
          /\ outcome.listed = Cardinality(Seen) /\ dryRun \in BOOLEAN /\ force \in BOOLEAN
      BY <2>1, <2>3 DEF Apply!Init
    <2>5. QED
      BY <2>2, <2>3, <2>4 DEF ApplyInv
  <1>6. QED
    BY <1>1, <1>2, <1>3, <1>4, <1>5 DEF TasksInv

\* Each step is one of the kind the behaviour follows, or of the queue.
LEMMA TasksStep == TasksInv /\ [Next]_vars => TasksInv'
  <1> SUFFICES ASSUME TasksInv, [Next]_vars
               PROVE  TasksInv'
    OBVIOUS
  <1> USE DEF TasksInv, Rest
  <1>1. CASE Restoring!Next /\ Rest("restore")
    BY <1>1, RestoreStep, TasksRest
  <1>2. CASE Exec!Next /\ Rest("exec")
    BY <1>2, ExecStep, TasksRest
  <1>3. CASE Prune!Next /\ Rest("prune")
    BY <1>3, PruneStep, TasksRest
  <1>4. CASE Backup!Next /\ Rest("backup")
    BY <1>4, BackupStep, TasksRest
  <1>5. CASE Apply!Next /\ Rest("apply")
    BY <1>5, ApplyStep, TasksRest
  <1>6. ASSUME NEW kind \in {"queue", "journal", "pod", "probe", "session", "capabilities"},
               Rest(kind)
        PROVE  TasksInv'
    BY <1>6, TasksRest
  <1>7. CASE UNCHANGED vars
    BY <1>7, TasksRest DEF vars
  <1>8. QED
    BY <1>1, <1>2, <1>3, <1>4, <1>5, <1>6, <1>7 DEF Next, DeliverOne

\* The invariants of the tasks hold throughout.
THEOREM TaskInvariance == Spec => []TasksInv
  <1>1. Spec => Init /\ [][Next]_vars
    BY DEF Spec
  <1>2. QED
    BY <1>1, TasksBegin, TasksStep, PTL

\* Whatever ends a command, its answer accounts for the output and leaves no
\* process of its group behind unnoticed.
THEOREM Commands == Spec => []CommandIsAccounted
  <1>1. TasksInv => CommandIsAccounted
    BY ExecMeaning DEF TasksInv
  <1>2. QED
    BY <1>1, TaskInvariance, PTL

\* A restore that reports success gave tar the whole archive.
THEOREM Restores == Spec => []RestoredIsWhole
  <1>1. TasksInv => RestoredIsWhole
    BY DEF TasksInv, RestoreInv, RestoredIsWhole, Restoring!RestoredIsWhole
  <1>2. QED
    BY <1>1, TaskInvariance, PTL

\* A backup that reports success is whole at its destination, and a finished
\* one leaves no upload open that its bucket was told to end.
THEOREM BackupsStored == Spec => []BackupIsStored
  <1>1. TasksInv => BackupIsStored
    BY DEF TasksInv, BackupInv, BackupIsStored
  <1>2. QED
    BY <1>1, TaskInvariance, PTL

\* The cluster has taken a prefix of the manifest, and all of it when the
\* answer is no error.
THEOREM Applies == Spec => []AppliedIsPrefix
  <1>1. TasksInv => AppliedIsPrefix
    BY ApplyMeaning DEF TasksInv
  <1>2. QED
    BY <1>1, TaskInvariance, PTL

\* Beyond an up-to-date preview a prune removes only what stopped containers
\* used, unused networks and the build cache.
THEOREM Prunes == Spec => []MissesOnlyFreed
  <1>1. TasksInv => MissesOnlyFreed
    BY DEF TasksInv, PruneInv, Beyond, MissesOnlyFreed, Prune!MissesOnlyFreed
  <1>2. QED
    BY <1>1, TaskInvariance, PTL

-----------------------------------------------------------------------------
(* The types.  The bounds of a task hold because its counters follow each   *)
(* other; those of the queue need to know what is sent into it.             *)

Messages ==
    {Other}
        \cup [type : {"result", "restore", "applied", "preview", "pruned", "end", "failed"}]
        \cup {Journal!Chunk(lines) : lines \in Seq(Journal!Lines)}
        \cup {PodLog!Chunk(lines) : lines \in Seq(1 .. MaxLines)}
        \cup [type : {"report"}, id : ProbeIds, state : Probe!States]
        \cup [type : {"backup"}, by : Backups]
        \cup [type : {"data"}, from : 1 .. MaxSessions, n : 1 .. MaxPrinted]
        \cup [type : {"banner"}, from : 1 .. MaxSessions]
        \cup [type : {"capabilities"}, found : SUBSET Subsystems]

QueueTypes ==
    /\ queue \in Seq(Messages) /\ delivered \in Seq(Messages)
    /\ Len(queue) <= QueueLength /\ refused \in BOOLEAN

\* The components send into one queue.
LEMMA SendsAreOne ==
  ASSUME NEW m
  PROVE  /\ Journal!Send(m) <=> Send(m)
         /\ PodLog!Send(m) <=> Send(m)
         /\ Exec!Send(m) <=> Send(m)
         /\ Probe!Send(m) <=> Send(m)
         /\ Backup!Send(m) <=> Send(m)
         /\ Restoring!Send(m) <=> Send(m)
         /\ Apply!Send(m) <=> Send(m)
         /\ Session!Send(m) <=> Send(m)
         /\ Prune!Send(m) <=> Send(m)
         /\ Announce!Send(m) <=> Send(m)
  BY DEF Journal!Send, PodLog!Send, Exec!Send, Probe!Send, Backup!Send, Restoring!Send,
     Apply!Send, Session!Send, Prune!Send, Announce!Send, Send, Journal!HasRoom,
     PodLog!HasRoom, Exec!HasRoom, Probe!HasRoom, Backup!HasRoom, Restoring!HasRoom,
     Apply!HasRoom, Session!HasRoom, Prune!HasRoom, Announce!HasRoom, HasRoom

\* A message that is sent keeps the queue within its bound.
LEMMA SendTypes ==
  ASSUME QueueTypes, NEW m \in Messages, Send(m)
  PROVE  QueueTypes'
  BY QueueAssumption DEF QueueTypes, Send, HasRoom

\* So does what the other producers and the main loop do.
LEMMA QueueStepTypes ==
  ASSUME QueueTypes, DeliverOne \/ OtherSend \/ UNCHANGED outgoing
  PROVE  QueueTypes'
  <1>1. Other \in Messages
    BY DEF Messages
  <1>2. CASE OtherSend
    BY <1>1, <1>2, QueueAssumption DEF QueueTypes, OtherSend, HasRoom
  <1>3. CASE DeliverOne
    <2>1. /\ queue # <<>> /\ queue' = Tail(queue) /\ refused' = refused
          /\ \/ delivered' = delivered
             \/ delivered' = Append(delivered, Head(queue))
      BY <1>3 DEF DeliverOne, Deliver
    <2>2. Head(queue) \in Messages /\ Tail(queue) \in Seq(Messages)
          /\ Len(Tail(queue)) <= Len(queue)
      BY <2>1 DEF QueueTypes
    <2>3. QED
      BY <2>1, <2>2, QueueAssumption DEF QueueTypes
  <1>4. CASE UNCHANGED outgoing
    BY <1>4 DEF QueueTypes, outgoing
  <1>5. QED
    BY <1>2, <1>3, <1>4

\* A restore's counters follow the body.
RestoreTypes ==
    /\ Restoring!TypeOK
    /\ phase \in {"idle", "checking"} => fetched = 0 /\ extracted = 0 /\ piped = 0 /\ ~chunk
    /\ Restoring!Running => extracted + piped + (IF chunk THEN 1 ELSE 0) <= fetched

LEMMA RestoreTypesStep ==
  ASSUME RestoreInv, RestoreTypes, QueueTypes, Restoring!Next
  PROVE  RestoreTypes' /\ QueueTypes'
  <1>1. /\ BodyChunks \in Nat /\ StdinRoom \in Nat /\ StderrRoom \in Nat
        /\ size \in 0 .. BodyChunks /\ fetched \in Nat /\ fetched <= size /\ piped \in Nat
        /\ extracted \in Nat /\ chunk \in BOOLEAN
    BY RequestsAssumption DEF RestoreTypes, Restoring!TypeOK, Restoring!PipesAssumption
  <1>2. CASE Restoring!Request
    <2>1. /\ phase = "idle" /\ phase' = "checking" /\ size' \in 0 .. BodyChunks /\ tar = "none"
          /\ UNCHANGED <<fetched, chunk, piped, stdinOpen, warned, tar, extracted, whole,
                         pipeError, restored, outgoing>>
      BY <1>2 DEF Restoring!Request, Restoring!Idle, Restoring!outgoing, outgoing, RestoreInv
    <2>2. QED
      BY <1>1, <2>1, QueueStepTypes DEF RestoreTypes, Restoring!TypeOK, Restoring!Running
  <1>3. CASE Restoring!CheckFails
    <2>1. UNCHANGED outgoing
      BY <1>3 DEF Restoring!CheckFails, Restoring!outgoing, outgoing
    <2>2. RestoreTypes'
      BY <1>1, <1>3 DEF RestoreTypes, Restoring!TypeOK, Restoring!Running,
         Restoring!CheckFails, RestoreInv
    <2>3. QED
      BY <2>1, <2>2, QueueStepTypes
  <1>4. CASE Restoring!RestoreLocal
    <2>1. UNCHANGED outgoing
      BY <1>4 DEF Restoring!RestoreLocal, Restoring!outgoing, outgoing
    <2>2. RestoreTypes'
      BY <1>1, <1>4 DEF RestoreTypes, Restoring!TypeOK, Restoring!Running,
         Restoring!RestoreLocal
    <2>3. QED
      BY <2>1, <2>2, QueueStepTypes
  <1>5. CASE Restoring!StartTar
    <2>1. UNCHANGED outgoing
      BY <1>5 DEF Restoring!StartTar, Restoring!outgoing, outgoing
    <2>2. RestoreTypes'
      BY <1>1, <1>5 DEF RestoreTypes, Restoring!TypeOK, Restoring!Running,
         Restoring!StartTar
    <2>3. QED
      BY <2>1, <2>2, QueueStepTypes
  <1>6. CASE Restoring!Extract
    <2>1. /\ tar = "running" /\ piped > 0 /\ piped' = piped - 1 /\ extracted' = extracted + 1
          /\ tar' \in {"running", "warning"}
          /\ UNCHANGED <<phase, size, fetched, chunk, stdinOpen, warned, whole, pipeError,
                         restored, outgoing>>
      BY <1>6 DEF Restoring!Extract, Restoring!outgoing, outgoing
    <2>2. RestoreTypes'
      BY <1>1, <2>1 DEF RestoreTypes, Restoring!TypeOK, Restoring!Running, RestoreInv
    <2>3. QED
      BY <2>1, <2>2, QueueStepTypes
  <1>7. CASE Restoring!Warn
    <2>1. UNCHANGED outgoing
      BY <1>7 DEF Restoring!Warn, Restoring!outgoing, outgoing
    <2>2. RestoreTypes'
      BY <1>1, <1>7 DEF RestoreTypes, Restoring!TypeOK, Restoring!Running, Restoring!Warn,
         RestoreInv
    <2>3. QED
      BY <2>1, <2>2, QueueStepTypes
  <1>8. CASE Restoring!TarExits
    <2>1. UNCHANGED outgoing
      BY <1>8 DEF Restoring!TarExits, Restoring!outgoing, outgoing
    <2>2. RestoreTypes'
      BY <1>1, <1>8 DEF RestoreTypes, Restoring!TypeOK, Restoring!Running, Restoring!TarExits
    <2>3. QED
      BY <2>1, <2>2, QueueStepTypes
  <1>9. CASE Restoring!Fetch
    <2>1. /\ phase = "pumping" /\ ~chunk /\ fetched < size /\ fetched' = fetched + 1
          /\ UNCHANGED <<size, piped, stdinOpen, warned, tar, extracted, restored, outgoing>>
          /\ \/ phase' = "closing" /\ UNCHANGED chunk
             \/ chunk' = TRUE /\ UNCHANGED phase
          /\ whole' \in BOOLEAN /\ pipeError' \in BOOLEAN
      BY <1>9 DEF Restoring!Fetch, Restoring!Stop, Restoring!outgoing, outgoing, RestoreInv
    <2>2. Restoring!TypeOK'
      <3>1. phase' \in {"pumping", "closing"}
        BY <2>1
      <3>2. chunk' \in BOOLEAN
        BY <1>1, <2>1
      <3>3. size' = size /\ fetched' \in 0 .. size'
        BY <1>1, <2>1
      <3>4. QED
        BY <2>1, <3>1, <3>2, <3>3 DEF RestoreTypes, Restoring!TypeOK
    <2>3. Restoring!Running' <=> Restoring!Running
      BY <2>1 DEF Restoring!Running
    <2>4. Restoring!Running => extracted + piped <= fetched
      BY <1>1, <2>1 DEF RestoreTypes
    <2>5. Restoring!Running' => extracted' + piped' + (IF chunk' THEN 1 ELSE 0) <= fetched'
      BY <1>1, <2>1, <2>3, <2>4
    <2>6. RestoreTypes'
      BY <2>1, <2>2, <2>5 DEF RestoreTypes
    <2>7. QED
      BY <2>1, <2>6, QueueStepTypes
  <1>10. CASE Restoring!BodyEnds
    <2>1. /\ phase' = "closing"
          /\ UNCHANGED <<size, fetched, chunk, piped, stdinOpen, warned, tar, extracted,
                         restored, outgoing>>
          /\ whole' \in BOOLEAN /\ pipeError' \in BOOLEAN
      BY <1>10 DEF Restoring!BodyEnds, Restoring!Stop, Restoring!outgoing, outgoing
    <2>2. RestoreTypes'
      BY <1>1, <2>1 DEF RestoreTypes, Restoring!TypeOK, Restoring!Running
    <2>3. QED
      BY <2>1, <2>2, QueueStepTypes
  <1>11. CASE Restoring!WriteChunk
    <2>1. /\ phase = "pumping" /\ chunk /\ chunk' = FALSE
          /\ UNCHANGED <<size, fetched, stdinOpen, warned, tar, extracted, restored, outgoing>>
          /\ \/ /\ Restoring!Running /\ piped < StdinRoom /\ piped' = piped + 1
                /\ UNCHANGED phase
             \/ ~Restoring!Running /\ phase' = "closing" /\ UNCHANGED piped
          /\ whole' \in BOOLEAN /\ pipeError' \in BOOLEAN
      BY <1>11 DEF Restoring!WriteChunk, Restoring!Stop, Restoring!outgoing, outgoing,
         RestoreInv
    <2>2. Restoring!Running' <=> Restoring!Running
      BY <2>1 DEF Restoring!Running
    <2>3. Restoring!TypeOK'
      <3>1. phase' \in {"pumping", "closing"} /\ piped' \in 0 .. StdinRoom
        BY <1>1, <2>1 DEF RestoreTypes, Restoring!TypeOK
      <3>2. QED
        BY <2>1, <3>1 DEF RestoreTypes, Restoring!TypeOK
    <2>4. Restoring!Running => extracted + piped + 1 <= fetched
      BY <1>1, <2>1 DEF RestoreTypes
    <2>5. Restoring!Running' => extracted' + piped' + (IF chunk' THEN 1 ELSE 0) <= fetched'
      BY <1>1, <2>1, <2>2, <2>4
    <2>6. RestoreTypes'
      BY <2>1, <2>3, <2>5 DEF RestoreTypes
    <2>7. QED
      BY <2>1, <2>6, QueueStepTypes
  <1>12. CASE Restoring!CloseStdin
    <2>1. UNCHANGED outgoing
      BY <1>12 DEF Restoring!CloseStdin, Restoring!outgoing, outgoing
    <2>2. RestoreTypes'
      BY <1>1, <1>12 DEF RestoreTypes, Restoring!TypeOK, Restoring!Running,
         Restoring!CloseStdin
    <2>3. QED
      BY <2>1, <2>2, QueueStepTypes
  <1>13. CASE Restoring!TarReaped
    <2>1. UNCHANGED outgoing
      BY <1>13 DEF Restoring!TarReaped, Restoring!outgoing, outgoing
    <2>2. RestoreTypes'
      BY <1>1, <1>13 DEF RestoreTypes, Restoring!TypeOK, Restoring!Running,
         Restoring!TarReaped
    <2>3. QED
      BY <2>1, <2>2, QueueStepTypes
  <1>14. CASE Restoring!Respond
    <2>1. [type |-> "restore"] \in Messages
      BY DEF Messages
    <2>2. QueueTypes'
      BY <1>14, <2>1, SendsAreOne, SendTypes DEF Restoring!Respond
    <2>3. RestoreTypes'
      BY <1>1, <1>14 DEF RestoreTypes, Restoring!TypeOK, Restoring!Running, Restoring!Respond
    <2>4. QED
      BY <2>2, <2>3
  <1>15. QED
    BY <1>2, <1>3, <1>4, <1>5, <1>6, <1>7, <1>8, <1>9, <1>10, <1>11, <1>12, <1>13, <1>14
       DEF Restoring!Next

\* What a command's processes write is bounded, and so is what is read and kept.
ExecBounds == \A p \in Exec!ExecPipes : written[p] <= MaxWritten

LEMMA ExecTyped == ExecInv /\ ExecBounds => Exec!TypeOK
  <1> SUFFICES ASSUME ExecInv, ExecBounds
               PROVE  Exec!TypeOK
    OBVIOUS
  <1> USE DEF ExecInv, ExecTypes
  <1>1. MaxWritten \in Nat /\ OutputLimit \in Nat
    BY RequestsAssumption DEF Exec!LimitsAssumption
  <1>2. ASSUME NEW p \in Exec!ExecPipes
        PROVE  /\ written[p] \in 0 .. MaxWritten /\ consumed[p] \in 0 .. MaxWritten
               /\ captured[p] \in 0 .. OutputLimit
    <2>1. written[p] \in 0 .. MaxWritten /\ consumed[p] \in 0 .. MaxWritten
      BY <1>1 DEF ExecBounds, PipesKept
    <2>2. captured["out"] \in Nat /\ captured["err"] \in Nat /\ budget \in Nat
      BY DEF Exec!ExecPipes
    <2>3. captured["out"] <= OutputLimit /\ captured["err"] <= OutputLimit
      BY <1>1, <2>2 DEF Exec!BudgetIsShared
    <2>4. QED
      BY <1>1, <2>1, <2>2, <2>3 DEF Exec!ExecPipes
  <1>3. /\ written \in [Exec!ExecPipes -> 0 .. MaxWritten]
        /\ consumed \in [Exec!ExecPipes -> 0 .. MaxWritten]
        /\ captured \in [Exec!ExecPipes -> 0 .. OutputLimit]
    BY <1>2
  <1>4. budget \in 0 .. OutputLimit
    BY <1>1 DEF Exec!BudgetIsShared, Exec!ExecPipes
  <1>5. QED
    BY <1>3, <1>4 DEF Exec!TypeOK

LEMMA ExecTypesStep ==
  ASSUME ExecInv, ExecBounds, QueueTypes, Exec!Next
  PROVE  ExecBounds' /\ QueueTypes'
  <1> USE DEF ExecInv, ExecTypes
  <1>1. CASE Exec!Answer
    <2>1. [type |-> "result"] \in Messages
      BY DEF Messages
    <2>2. QueueTypes'
      BY <1>1, <2>1, SendsAreOne, SendTypes DEF Exec!Answer
    <2>3. QED
      BY <1>1, <2>2 DEF Exec!Answer, Exec!io, ExecBounds
  <1>2. ASSUME NEW p \in Exec!ExecPipes, Exec!Write(p)
        PROVE  ExecBounds' /\ QueueTypes'
    <2>1. UNCHANGED outgoing
      BY <1>2 DEF Exec!Write, Exec!outgoing, outgoing
    <2>2. /\ written[p] < MaxWritten
          /\ written' = [written EXCEPT ![p] = @ + 1] \/ written' = written
      BY <1>2 DEF Exec!Write
    <2>3. ExecBounds'
      BY <2>2, RequestsAssumption DEF ExecBounds, Exec!LimitsAssumption
    <2>4. QED
      BY <2>1, <2>3, QueueStepTypes
  <1>3. ASSUME ~Exec!Answer, ~\E p \in Exec!ExecPipes : Exec!Write(p)
        PROVE  UNCHANGED <<written, outgoing>>
    BY <1>3 DEF Exec!Next, Exec!Read, Exec!ReaderStops, Exec!Leave, Exec!Exit, Exec!Refuse,
       Exec!Start, Exec!Exited, Exec!TimesOut, Exec!LimitReached, Exec!JoinBoth,
       Exec!GraceOver, Exec!io, Exec!outgoing, outgoing
  <1>4. QED
    BY <1>1, <1>2, <1>3, QueueStepTypes DEF ExecBounds

\* A backup stores no more parts than its archive has.
BackupBounds == \A b \in Backups : stored[b] <= Parts

LEMMA BackupTypesStep ==
  ASSUME BackupInv, BackupBounds, QueueTypes, Backup!Next
  PROVE  BackupBounds' /\ QueueTypes'
  <1>1. stored \in [Backups -> Nat] /\ Parts \in Nat
    BY RequestsAssumption DEF BackupInv, BackupTypes, Backup!BackupsAssumption
  <1>2. ASSUME NEW b \in Backups, Backup!Response(b)
        PROVE  BackupBounds' /\ QueueTypes'
    <2>1. [type |-> "backup", by |-> b] \in Messages
      BY DEF Messages
    <2>2. QueueTypes'
      BY <1>2, <2>1, SendsAreOne, SendTypes DEF Backup!Response
    <2>3. QED
      BY <1>2, <2>2 DEF Backup!Response, BackupBounds
  <1>3. ASSUME NEW b \in Backups, NEW ok \in BOOLEAN, Backup!UploadPart(b, ok)
        PROVE  BackupBounds' /\ UNCHANGED outgoing
    <2>1. /\ UNCHANGED outgoing /\ stored[b] < Parts
          /\ stored' = stored \/ stored' = [stored EXCEPT ![b] = @ + 1]
      BY <1>3 DEF Backup!UploadPart, Backup!outgoing, outgoing
    <2>2. QED
      BY <1>1, <2>1 DEF BackupBounds
  <1>4. ASSUME \A b \in Backups :
                  ~Backup!Response(b) /\ \A ok \in BOOLEAN : ~Backup!UploadPart(b, ok)
        PROVE  UNCHANGED <<stored, outgoing>>
    BY <1>4 DEF Backup!Next, Backup!Step, Backup!Passes, Backup!Request, Backup!CheckFails,
       Backup!StartTar, Backup!PartsEnd, Backup!TarExits, Backup!AbortUpload, Backup!Put,
       Backup!Create, Backup!Complete, Backup!outgoing, outgoing
  <1>5. QED
    BY <1>2, <1>3, <1>4, QueueStepTypes DEF BackupBounds

\* An apply lists no more documents than it has passed.
ApplyBounds ==
    /\ Apply!TypeOK
    /\ doc <= Len(manifest) + 1 /\ outcome.listed < doc

LEMMA ApplyTypesStep ==
  ASSUME ApplyInv, ApplyBounds, QueueTypes, Apply!Next
  PROVE  ApplyBounds' /\ QueueTypes'
  <1>1. /\ MaxDocs \in Nat /\ doc \in Nat /\ doc >= 1 /\ outcome.listed \in Nat
        /\ manifest \in Seq(Apply!Docs) /\ Len(manifest) \in Nat /\ Len(manifest) <= MaxDocs
    BY RequestsAssumption, LenProperties DEF ApplyBounds, Apply!TypeOK, Apply!DocsAssumption
  <1> DEFINE Outcomes == [error : BOOLEAN, listed : 0 .. MaxDocs]
             error == [error |-> TRUE, listed |-> 0]
  <1>0. error \in Outcomes /\ error.listed = 0 /\ outcome \in Outcomes /\ outcome.listed < doc
    BY <1>1 DEF ApplyBounds, Apply!TypeOK
  <1>2. CASE Apply!Request
    <2>1. /\ apply = "idle" /\ apply' = "opening" /\ dryRun' \in BOOLEAN /\ force' \in BOOLEAN
          /\ UNCHANGED <<doc, changed, outcome, outgoing>>
      BY <1>2 DEF Apply!Request, Apply!Idle, Apply!outgoing, outgoing
    <2>2. PICK n \in 0 .. MaxDocs : manifest' \in [1 .. n -> Apply!Docs]
      BY <1>2 DEF Apply!Request
    <2>3. manifest' \in Seq(Apply!Docs) /\ Len(manifest') = n
      BY <1>1, <2>2
    <2>4. doc = 1 /\ changed = {}
      BY <2>1 DEF ApplyInv
    <2>5. QED
      BY <1>1, <2>1, <2>3, <2>4, QueueStepTypes DEF ApplyBounds, Apply!TypeOK
  <1>3. ASSUME Apply!Open \/ Apply!Reject \/ Apply!AllApplied
        PROVE  ApplyBounds' /\ QueueTypes'
    <2>1. /\ apply' \in {"applying", "responding"}
          /\ outcome' = outcome \/ outcome' = [error |-> TRUE, listed |-> 0]
          /\ UNCHANGED <<manifest, dryRun, force, doc, changed, outgoing>>
      BY <1>3 DEF Apply!Open, Apply!Reject, Apply!AllApplied, Apply!Fail, Apply!outgoing,
         outgoing
    <2>2. outcome' \in [error : BOOLEAN, listed : 0 .. MaxDocs] /\ outcome'.listed < doc
      <3> HIDE DEF error
      <3>1. outcome' = outcome \/ outcome' = error
        BY <2>1 DEF error
      <3>2. QED
        BY <1>1, <1>0, <3>1
    <2>3. QED
      BY <2>1, <2>2, QueueStepTypes DEF ApplyBounds, Apply!TypeOK
  <1>4. CASE Apply!Skip
    <2>1. /\ doc <= Len(manifest) /\ doc' = doc + 1
          /\ UNCHANGED <<apply, manifest, dryRun, force, changed, outcome, outgoing>>
      BY <1>4 DEF Apply!Skip, Apply!More, Apply!outgoing, outgoing
    <2>2. QED
      BY <1>1, <2>1, QueueStepTypes DEF ApplyBounds, Apply!TypeOK
  <1>5. CASE Apply!Patch
    <2>1. /\ doc <= Len(manifest) /\ changed' \in {changed, changed \cup {doc}}
          /\ UNCHANGED <<manifest, dryRun, force, outgoing>>
          /\ \/ /\ doc' = doc + 1 /\ outcome' = [outcome EXCEPT !.listed = @ + 1]
                /\ UNCHANGED apply
             \/ /\ apply' = "responding" /\ outcome' = [error |-> TRUE, listed |-> 0]
                /\ UNCHANGED doc
      BY <1>5 DEF Apply!Patch, Apply!More, Apply!Fail, Apply!Taken, Apply!outgoing, outgoing
    <2>2. doc \in 1 .. MaxDocs /\ changed' \subseteq 1 .. MaxDocs
      BY <1>1, <2>1 DEF ApplyBounds, Apply!TypeOK
    <2>3. /\ doc' \in 1 .. MaxDocs + 1 /\ doc' <= Len(manifest) + 1
          /\ outcome' \in [error : BOOLEAN, listed : 0 .. MaxDocs] /\ outcome'.listed < doc'
      <3>1. CASE doc' = doc + 1 /\ outcome' = [outcome EXCEPT !.listed = @ + 1]
        <4>1. outcome' \in Outcomes /\ outcome'.listed = outcome.listed + 1
          BY <1>1, <1>0, <2>1, <2>2, <3>1
        <4>2. QED
          BY <1>1, <1>0, <2>1, <3>1, <4>1
      <3>2. CASE doc' = doc /\ outcome' = error
        BY <1>1, <1>0, <2>1, <3>2
      <3>3. QED
        BY <2>1, <3>1, <3>2
    <2>4. apply' \in {"idle", "opening", "applying", "responding", "done"}
      BY <2>1 DEF ApplyBounds, Apply!TypeOK
    <2>5. QED
      BY <2>1, <2>2, <2>3, <2>4, QueueStepTypes DEF ApplyBounds, Apply!TypeOK
  <1>6. CASE Apply!Respond
    <2>1. [type |-> "applied"] \in Messages
      BY DEF Messages
    <2>2. QueueTypes'
      BY <1>6, <2>1, SendsAreOne, SendTypes DEF Apply!Respond
    <2>3. QED
      BY <1>6, <2>2 DEF Apply!Respond, ApplyBounds, Apply!TypeOK
  <1>7. QED
    BY <1>2, <1>3, <1>4, <1>5, <1>6 DEF Apply!Next

LEMMA PruneTypesStep ==
  ASSUME Prune!TypeOK, QueueTypes, Prune!Next
  PROVE  Prune!TypeOK' /\ QueueTypes'
  <1> USE DEF Prune!TypeOK, Prune!Resources, Prune!Stages
  <1>1. MaxChanges \in Nat
    BY RequestsAssumption DEF Prune!DockerAssumption
  <1>2. ASSUME NEW volumes \in BOOLEAN, NEW said \in BOOLEAN, Prune!Preview(volumes, said)
        PROVE  Prune!TypeOK' /\ QueueTypes'
    <2>1. [type |-> "preview"] \in Messages
      BY DEF Messages
    <2>2. QueueTypes'
      BY <1>2, <2>1, SendsAreOne, SendTypes DEF Prune!Preview
    <2>3. QED
      BY <1>1, <1>2, <2>2 DEF Prune!Preview, Prune!Listed, Prune!Stopped
  <1>3. ASSUME NEW c \in Containers, Prune!Change(c)
        PROVE  Prune!TypeOK' /\ UNCHANGED outgoing
    BY <1>1, <1>3 DEF Prune!Change, Prune!outgoing, outgoing
  <1>4. CASE Prune!Request \/ Prune!PruneFails
    BY <1>4, QueueStepTypes DEF Prune!Request, Prune!PruneFails, Prune!outgoing, outgoing
  <1>5. CASE Prune!PruneContainers
    BY <1>5, QueueStepTypes DEF Prune!PruneContainers, Prune!Stopped, Prune!outgoing, outgoing
  <1>6. CASE \/ Prune!PruneNetworks \/ Prune!PruneVolumes \/ Prune!PruneImages
             \/ Prune!PruneCache
    <2>1. /\ prune' \in {"volumes", "images", "cache", "responding"}
          /\ removed' \subseteq removed \cup kept /\ kept' \subseteq kept
          /\ UNCHANGED <<container, preview, listed, atPreview, withVolumes, changes, outgoing>>
      BY <1>6 DEF Prune!PruneNetworks, Prune!PruneVolumes, Prune!PruneImages,
         Prune!PruneCache, Prune!RemoveUnused, Prune!outgoing, outgoing
    <2>2. QED
      BY <2>1, QueueStepTypes
  <1>7. CASE Prune!Respond
    <2>1. [type |-> "pruned"] \in Messages
      BY DEF Messages
    <2>2. QueueTypes'
      BY <1>7, <2>1, SendsAreOne, SendTypes DEF Prune!Respond
    <2>3. QED
      BY <1>7, <2>2 DEF Prune!Respond
  <1>8. QED
    BY <1>2, <1>3, <1>4, <1>5, <1>6, <1>7, QueueStepTypes DEF Prune!Next

LEMMA AnnounceTypesStep ==
  ASSUME Announce!TypeOK, QueueTypes, Announce!Next
  PROVE  Announce!TypeOK' /\ QueueTypes'
  <1> USE DEF Announce!TypeOK
  <1>1. CASE Announce!Register \/ Announce!Reprobe
    <2>1. Announce!Announcement(present) \in Messages
      BY DEF Messages, Announce!Announcement
    <2>2. QueueTypes'
      BY <1>1, <2>1, SendsAreOne, SendTypes DEF Announce!Register, Announce!Reprobe
    <2>3. QED
      BY <1>1, <2>2 DEF Announce!Register, Announce!Reprobe
  <1>2. ASSUME NEW s \in Subsystems, Announce!Shift(s)
        PROVE  Announce!TypeOK' /\ UNCHANGED outgoing
    BY <1>2, RequestsAssumption
       DEF Announce!Shift, Announce!CapabilitiesAssumption, Announce!outgoing, outgoing
  <1>3. QED
    BY <1>1, <1>2, QueueStepTypes DEF Announce!Next

\* The probe that a report is about has a sample to report.
ProbeTypes ==
    /\ Probe!TypeOK
    /\ \A i \in ProbeIds : \A k \in DOMAIN probes[i] :
          probes[i][k].at \in {"sampled", "aborted"} => probes[i][k].sample \in Probe!States

LEMMA ProbeTypesStep ==
  ASSUME ProbeTypes, QueueTypes, Probe!Next
  PROVE  ProbeTypes' /\ QueueTypes'
  <1> DEFINE Tasks == Probe!ProbeTask
             Sampled(t) == t.at \in {"sampled", "aborted"} => t.sample \in Probe!States
  <1>1. /\ MaxSyncs \in Nat /\ MaxFlips \in Nat /\ NoSpec \notin Specs
        /\ \A set \in ProbeSets : DOMAIN set \subseteq ProbeIds
        /\ \A set \in ProbeSets : \A i \in DOMAIN set : set[i] \in Specs
    BY RequestsAssumption DEF Probe!ProbesAssumption
  <1>2. /\ received \in Seq(ProbeSets) /\ Len(received) \in Nat /\ Len(received) <= MaxSyncs
        /\ pending \subseteq 1 .. Len(received) /\ overlapped \in BOOLEAN
        /\ probes \in [ProbeIds -> Seq(Tasks)] /\ tasks \in [ProbeIds -> Nat]
        /\ \A i \in ProbeIds : tasks[i] <= Len(probes[i]) /\ Len(probes[i]) \in Nat
        /\ health \in [ProbeIds -> Probe!States] /\ flips \in 0 .. MaxFlips
        /\ late \subseteq ProbeIds
    BY LenProperties DEF ProbeTypes, Probe!TypeOK
  <1>3. \A i \in ProbeIds : \A k \in 1 .. Len(probes[i]) : probes[i][k] \in Tasks
    BY <1>2, ElementOfSeq
  <1>4. ASSUME NEW set \in ProbeSets, Probe!Request(set)
        PROVE  ProbeTypes' /\ QueueTypes'
    <2>1. /\ Len(received) < MaxSyncs /\ received' = Append(received, set)
          /\ overlapped' \in BOOLEAN /\ pending' = pending \cup {Len(received) + 1}
          /\ UNCHANGED <<probes, tasks, health, flips, late, outgoing>>
      BY <1>4 DEF Probe!Request, Probe!outgoing, outgoing
    <2>2. /\ received' \in Seq(ProbeSets) /\ Len(received') = Len(received) + 1
          /\ pending' \subseteq 1 .. Len(received')
      <3>1. received' \in Seq(ProbeSets) /\ Len(received') = Len(received) + 1
        BY <1>2, <2>1, AppendProperties
      <3>2. \A n \in pending' : n \in 1 .. Len(received) \/ n = Len(received) + 1
        BY <1>2, <2>1
      <3>3. QED
        BY <1>2, <3>1, <3>2
    <2>3. Probe!TypeOK'
      BY <1>1, <1>2, <2>1, <2>2 DEF Probe!TypeOK
    <2>4. QED
      BY <2>1, <2>3, QueueStepTypes DEF ProbeTypes
  <1>5. ASSUME NEW n \in pending, Probe!Sync(n)
        PROVE  ProbeTypes' /\ QueueTypes'
    <2> DEFINE set == received[n]
               Kept(i) == IF i \in Probe!Superseded(set)
                          THEN [probes[i] EXCEPT ![tasks[i]] = Probe!AbortTask(@)]
                          ELSE probes[i]
    <2>1. /\ pending' = pending \ {n}
          /\ probes' = [i \in ProbeIds |-> IF i \in Probe!Fresh(set)
                                           THEN Append(Kept(i), Probe!Spawned(set[i]))
                                           ELSE Kept(i)]
          /\ tasks' = [i \in ProbeIds |->
                 IF i \in Probe!Fresh(set) THEN Len(probes[i]) + 1
                 ELSE IF i \in DOMAIN set THEN tasks[i] ELSE 0]
          /\ UNCHANGED <<received, overlapped, health, flips, late, outgoing>>
      BY <1>5 DEF Probe!Sync, Probe!outgoing, outgoing
    <2>2. set \in ProbeSets /\ DOMAIN set \subseteq ProbeIds
          /\ \A i \in DOMAIN set : set[i] \in Specs
      BY <1>1, <1>2, ElementOfSeq
    <2> HIDE DEF set, Kept
    <2>3. ASSUME NEW i \in ProbeIds
          PROVE  /\ Kept(i) \in Seq(Tasks) /\ Len(Kept(i)) = Len(probes[i])
                 /\ \A k \in 1 .. Len(probes[i]) : Sampled(Kept(i)[k])
      <3>1. CASE i \in Probe!Superseded(set)
        <4>1. tasks[i] \in 1 .. Len(probes[i])
          BY <1>2, <3>1 DEF Probe!Superseded
        <4>2. probes[i][tasks[i]] \in Tasks
          BY <1>3, <4>1
        <4>3. Probe!AbortTask(probes[i][tasks[i]]) \in Tasks
          BY <4>2 DEF Probe!AbortTask, Probe!ProbeTask
        <4>4. Kept(i) = [probes[i] EXCEPT ![tasks[i]] = Probe!AbortTask(probes[i][tasks[i]])]
          BY <3>1 DEF Kept
        <4>5. Kept(i) \in Seq(Tasks) /\ Len(Kept(i)) = Len(probes[i])
          BY <1>2, <4>1, <4>3, <4>4, ExceptSeq
        <4>6. \A k \in 1 .. Len(probes[i]) : Sampled(probes[i][k])
          BY <1>2 DEF ProbeTypes
        <4>7. Sampled(Probe!AbortTask(probes[i][tasks[i]]))
          BY <4>1, <4>2, <4>6 DEF Probe!AbortTask, Probe!ProbeTask
        <4>8. \A k \in 1 .. Len(probes[i]) :
                 Kept(i)[k] = IF k = tasks[i] THEN Probe!AbortTask(probes[i][tasks[i]])
                              ELSE probes[i][k]
          BY <1>2, <4>4
        <4> HIDE DEF Sampled
        <4>9. QED
          BY <4>5, <4>6, <4>7, <4>8
      <3>2. CASE i \notin Probe!Superseded(set)
        BY <1>2, <3>2 DEF Kept, ProbeTypes
      <3>3. QED
        BY <3>1, <3>2
    <2>4. ASSUME NEW i \in ProbeIds
          PROVE  /\ probes'[i] \in Seq(Tasks) /\ tasks'[i] \in Nat
                 /\ tasks'[i] <= Len(probes'[i])
                 /\ \A k \in DOMAIN probes'[i] : Sampled(probes'[i][k])
      <3>1. CASE i \in Probe!Fresh(set)
        <4>1. probes'[i] = Append(Kept(i), Probe!Spawned(set[i])) /\ tasks'[i] = Len(probes[i]) + 1
          BY <2>1, <3>1
        <4>2. Probe!Spawned(set[i]) \in Tasks /\ Sampled(Probe!Spawned(set[i]))
          BY <2>2, <3>1 DEF Probe!Spawned, Probe!ProbeTask, Probe!Fresh
        <4>3. /\ probes'[i] \in Seq(Tasks) /\ Len(probes'[i]) = Len(probes[i]) + 1
              /\ probes'[i][Len(probes[i]) + 1] = Probe!Spawned(set[i])
              /\ \A k \in 1 .. Len(probes[i]) : probes'[i][k] = Kept(i)[k]
          BY <2>3, <4>1, <4>2, AppendProperties
        <4> HIDE DEF Sampled
        <4>4. QED
          BY <1>2, <2>3, <4>1, <4>2, <4>3
      <3>2. CASE i \notin Probe!Fresh(set)
        <4>1. probes'[i] = Kept(i) /\ tasks'[i] \in {0, tasks[i]}
          BY <2>1, <3>2
        <4>2. DOMAIN Kept(i) = 1 .. Len(probes[i])
          BY <2>3, LenProperties
        <4> HIDE DEF Sampled
        <4>3. QED
          BY <1>2, <2>3, <4>1, <4>2
      <3>3. QED
        BY <3>1, <3>2
    <2>5. probes' \in [ProbeIds -> Seq(Tasks)] /\ tasks' \in [ProbeIds -> Nat]
      BY <2>1, <2>4
    <2>6. Probe!TypeOK'
      BY <1>2, <2>1, <2>4, <2>5 DEF Probe!TypeOK
    <2>7. QED
      BY <2>1, <2>4, <2>6, QueueStepTypes DEF ProbeTypes
  <1>6. ASSUME NEW i \in ProbeIds, Probe!Flip(i)
        PROVE  ProbeTypes' /\ QueueTypes'
    <2>1. /\ flips' = flips + 1 /\ flips < MaxFlips
          /\ health' = [health EXCEPT ![i] = IF @ = "green" THEN "red" ELSE "green"]
          /\ UNCHANGED <<received, pending, overlapped, probes, tasks, late, outgoing>>
      BY <1>6 DEF Probe!Flip, Probe!outgoing, outgoing
    <2>2. health' \in [ProbeIds -> Probe!States] /\ flips' \in 0 .. MaxFlips
      BY <1>1, <1>2, <2>1 DEF Probe!States
    <2>3. Probe!TypeOK'
      BY <1>2, <2>1, <2>2 DEF Probe!TypeOK
    <2>4. QED
      BY <2>1, <2>3, QueueStepTypes DEF ProbeTypes
  <1>7. ASSUME NEW i \in ProbeIds, NEW k \in DOMAIN probes[i],
               NEW t \in Tasks, Sampled(t), probes' = [probes EXCEPT ![i][k] = t],
               UNCHANGED <<received, pending, overlapped, tasks, health, flips>>,
               late' \subseteq ProbeIds
        PROVE  ProbeTypes'
    <2>1. k \in 1 .. Len(probes[i])
      BY <1>2
    <2>2. probes'[i] = [probes[i] EXCEPT ![k] = t]
      BY <1>2, <1>7
    <2>3. /\ probes'[i] \in Seq(Tasks) /\ Len(probes'[i]) = Len(probes[i])
          /\ \A m \in 1 .. Len(probes[i]) : probes'[i][m] = IF m = k THEN t ELSE probes[i][m]
      BY <1>2, <2>1, <2>2, ExceptSeq
    <2>4. \A j \in ProbeIds \ {i} : probes'[j] = probes[j]
      BY <1>2, <1>7
    <2>5. probes' \in [ProbeIds -> Seq(Tasks)]
      BY <1>2, <1>7, <2>3, <2>4
    <2>6. Probe!TypeOK'
      BY <1>2, <1>7, <2>3, <2>4, <2>5 DEF Probe!TypeOK
    <2>7. ASSUME NEW j \in ProbeIds, NEW m \in DOMAIN probes'[j]
          PROVE  Sampled(probes'[j][m])
      <3>1. CASE j = i
        <4>1. m \in 1 .. Len(probes[i])
          BY <2>3, <2>7, <3>1
        <4>2. Sampled(probes[i][m])
          BY <1>2, <4>1 DEF ProbeTypes
        <4> HIDE DEF Sampled
        <4>3. QED
          BY <1>7, <2>3, <3>1, <4>1, <4>2
      <3>2. CASE j # i
        BY <2>4, <2>7, <3>2 DEF ProbeTypes
      <3>3. QED
        BY <3>1, <3>2
    <2>8. QED
      BY <2>6, <2>7 DEF ProbeTypes
  <1>8. ASSUME NEW i \in ProbeIds, NEW k \in DOMAIN probes[i], Probe!Sample(i, k)
        PROVE  ProbeTypes' /\ QueueTypes'
    <2> DEFINE t == [probes[i][k] EXCEPT !.at = "sampled", !.sample = health[i]]
    <2>1. /\ probes' = [probes EXCEPT ![i][k] = t]
          /\ UNCHANGED <<received, pending, overlapped, tasks, health, flips, late, outgoing>>
      <3>1. /\ probes' = [probes EXCEPT ![i][k].at = "sampled", ![i][k].sample = health[i]]
            /\ UNCHANGED <<received, pending, overlapped, tasks, health, flips, late, outgoing>>
        BY <1>8 DEF Probe!Sample, Probe!outgoing, outgoing
      <3>2. probes[i][k] \in Tasks /\ k \in 1 .. Len(probes[i])
        BY <1>2, <1>3
      <3>3. QED
        BY <1>2, <3>1, <3>2 DEF Probe!ProbeTask
    <2>2. t \in Tasks /\ Sampled(t)
      <3>1. probes[i][k] \in Tasks /\ health[i] \in Probe!States
        BY <1>2, <1>3
      <3>2. QED
        BY <3>1 DEF Probe!ProbeTask
    <2> HIDE DEF t, Sampled
    <2>3. QED
      BY <1>2, <1>7, <2>1, <2>2, QueueStepTypes
  <1>9. ASSUME NEW i \in ProbeIds, NEW k \in DOMAIN probes[i], Probe!Report(i, k)
        PROVE  ProbeTypes' /\ QueueTypes'
    <2> DEFINE t == Probe!Remember(probes[i][k])
               m == [type |-> "report", id |-> i, state |-> probes[i][k].sample]
    <2>1. /\ probes[i][k].at \in {"sampled", "aborted"}
          /\ probes' = [probes EXCEPT ![i][k] = t]
          /\ Probe!Send(m) \/ UNCHANGED outgoing
          /\ late' \subseteq ProbeIds
          /\ UNCHANGED <<received, pending, overlapped, tasks, health, flips>>
      BY <1>2, <1>9 DEF Probe!Report, Probe!outgoing, outgoing
    <2>2. probes[i][k] \in Tasks /\ probes[i][k].sample \in Probe!States
      BY <1>2, <1>3, <2>1 DEF ProbeTypes
    <2>3. t \in Tasks /\ Sampled(t)
      BY <2>1, <2>2 DEF Probe!Remember, Probe!ProbeTask
    <2>4. m \in Messages
      BY <2>2 DEF Messages
    <2> HIDE DEF t, Sampled, m
    <2>5. QueueTypes'
      BY <2>1, <2>4, SendsAreOne, SendTypes, QueueStepTypes
    <2>6. QED
      BY <1>7, <2>1, <2>3, <2>5
  <1>10. QED
    BY <1>4, <1>5, <1>6, <1>8, <1>9 DEF Probe!Next

\* What a step on one session leaves of the types.
LEMMA SessionSet ==
  ASSUME Session!TypeOK, NEW k \in DOMAIN sessions, NEW s \in Session!Session,
         s.sent <= s.printed, sessions' = [sessions EXCEPT ![k] = s], UNCHANGED mapped
  PROVE  Session!TypeOK'
  <1>1. sessions \in Seq(Session!Session) /\ Len(sessions) \in Nat /\ k \in 1 .. Len(sessions)
    BY LenProperties DEF Session!TypeOK
  <1>2. /\ sessions' \in Seq(Session!Session) /\ Len(sessions') = Len(sessions)
        /\ \A j \in 1 .. Len(sessions) : sessions'[j] = IF j = k THEN s ELSE sessions[j]
    BY <1>1, ExceptSeq
  <1>3. DOMAIN sessions' = 1 .. Len(sessions)
    BY <1>2, LenProperties
  <1>4. QED
    BY <1>1, <1>2, <1>3 DEF Session!TypeOK

LEMMA SessionTypesStep ==
  ASSUME Session!TypeOK, QueueTypes, Session!Next
  PROVE  Session!TypeOK' /\ QueueTypes'
  <1> DEFINE All == Session!Session
             Fine(s) == s \in All /\ s.sent <= s.printed
  <1>1. /\ MaxSessions \in Nat /\ MaxPrinted \in Nat
        /\ sessions \in Seq(All) /\ Len(sessions) \in Nat /\ Len(sessions) <= MaxSessions
        /\ mapped \in [Session!Kinds -> 0 .. Len(sessions)]
        /\ DOMAIN sessions = 1 .. Len(sessions)
    BY RequestsAssumption, LenProperties DEF Session!TypeOK, Session!SessionsAssumption
  <1>2. \A k \in 1 .. Len(sessions) : Fine(sessions[k])
    BY <1>1, ElementOfSeq DEF Session!TypeOK
  <1>3. ASSUME NEW s, Fine(s)
        PROVE  Fine(Session!Dropped(s))
    BY <1>3 DEF Session!Dropped, Session!Session
  <1>4. ASSUME NEW kind \in Session!Kinds
        PROVE  /\ Session!DropMapped(kind) \in Seq(All)
               /\ Len(Session!DropMapped(kind)) = Len(sessions)
               /\ \A k \in 1 .. Len(sessions) : Fine(Session!DropMapped(kind)[k])
    <2>1. CASE mapped[kind] = 0
      BY <1>1, <1>2, <2>1 DEF Session!DropMapped
    <2>2. CASE mapped[kind] # 0
      <3> DEFINE m == mapped[kind]
                 d == Session!Dropped(sessions[m])
      <3>1. m \in 1 .. Len(sessions) /\ Fine(d)
        BY <1>1, <1>2, <1>3, <2>2
      <3>2. Session!DropMapped(kind) = [sessions EXCEPT ![m] = d]
        BY <2>2 DEF Session!DropMapped
      <3> HIDE DEF d, m
      <3>3. QED
        BY <1>1, <1>2, <3>1, <3>2, ExceptSeq
    <2>3. QED
      BY <2>1, <2>2
  <1>5. ASSUME NEW kind \in Session!Kinds
        PROVE  Fine(Session!Opened(kind))
    BY <1>1, <1>5 DEF Session!Opened, Session!Session
  <1>6. ASSUME NEW old \in Seq(All), Len(old) = Len(sessions), Len(sessions) < MaxSessions,
               \A k \in 1 .. Len(sessions) : Fine(old[k]),
               NEW kind \in Session!Kinds,
               sessions' = Append(old, Session!Opened(kind)),
               mapped' = [mapped EXCEPT ![kind] = Len(sessions) + 1]
        PROVE  Session!TypeOK'
    <2>1. /\ sessions' \in Seq(All) /\ Len(sessions') = Len(sessions) + 1
          /\ \A k \in 1 .. Len(sessions) : sessions'[k] = old[k]
          /\ sessions'[Len(sessions) + 1] = Session!Opened(kind)
      BY <1>5, <1>6, AppendProperties
    <2>2. DOMAIN sessions' = 1 .. Len(sessions) + 1
      BY <2>1, LenProperties
    <2>3. \A k \in DOMAIN sessions' : Fine(sessions'[k])
      BY <1>1, <1>5, <1>6, <2>1, <2>2
    <2>4. mapped' \in [Session!Kinds -> 0 .. Len(sessions')]
      BY <1>1, <1>6, <2>1
    <2>5. QED
      BY <1>1, <1>6, <2>1, <2>3, <2>4 DEF Session!TypeOK
  <1>7. ASSUME NEW kind \in Session!Kinds, sessions' = Session!DropMapped(kind),
               mapped' = [mapped EXCEPT ![kind] = 0]
        PROVE  Session!TypeOK'
    <2>1. sessions' \in Seq(All) /\ Len(sessions') = Len(sessions)
      BY <1>4, <1>7
    <2>2. DOMAIN sessions' = 1 .. Len(sessions)
      BY <2>1, LenProperties
    <2>3. \A k \in DOMAIN sessions' : Fine(sessions'[k])
      BY <1>4, <1>7, <2>2
    <2>4. mapped' \in [Session!Kinds -> 0 .. Len(sessions')]
      BY <1>1, <1>7, <2>1
    <2>5. QED
      BY <1>1, <2>1, <2>3, <2>4 DEF Session!TypeOK
  <1>8. CASE Session!StartTerminal
    <2>1. /\ Len(sessions) < MaxSessions
          /\ sessions' = Append(sessions, Session!Opened("terminal"))
          /\ mapped' = [mapped EXCEPT !["terminal"] = Len(sessions) + 1]
          /\ UNCHANGED outgoing
      BY <1>8 DEF Session!StartTerminal, Session!outgoing, outgoing
    <2>2. "terminal" \in Session!Kinds
      BY DEF Session!Kinds
    <2>3. QED
      BY <1>1, <1>2, <1>6, <2>1, <2>2, QueueStepTypes
  <1>9. ASSUME NEW kind \in {"container", "pod"}, NEW ok \in BOOLEAN,
               Session!StartExec(kind, ok)
        PROVE  Session!TypeOK' /\ QueueTypes'
    <2>1. kind \in Session!Kinds
      BY DEF Session!Kinds
    <2>2. Other \in Messages /\ Session!Other = Other
      BY DEF Messages, Other, Session!Other
    <2>3. QueueTypes'
      BY <1>9, <2>2, SendsAreOne, SendTypes DEF Session!StartExec
    <2>4. CASE ok
      <3>1. /\ Len(sessions) < MaxSessions
            /\ sessions' = Append(Session!DropMapped(kind), Session!Opened(kind))
            /\ mapped' = [mapped EXCEPT ![kind] = Len(sessions) + 1]
        BY <1>9, <2>4 DEF Session!StartExec
      <3>2. QED
        BY <1>4, <1>6, <2>1, <2>3, <3>1
    <2>5. CASE ~ok
      <3>1. sessions' = Session!DropMapped(kind) /\ mapped' = [mapped EXCEPT ![kind] = 0]
        BY <1>9, <2>5 DEF Session!StartExec
      <3>2. QED
        BY <1>7, <2>1, <2>3, <3>1
    <2>6. QED
      BY <2>4, <2>5
  <1>10. ASSUME NEW kinds \in SUBSET Session!Kinds, Session!Stop(kinds)
         PROVE  Session!TypeOK' /\ QueueTypes'
    <2>1. /\ sessions' = [k \in DOMAIN sessions |->
                 IF \E kind \in kinds : mapped[kind] = k THEN Session!Dropped(sessions[k])
                 ELSE sessions[k]]
          /\ mapped' = [kind \in Session!Kinds |-> IF kind \in kinds THEN 0 ELSE mapped[kind]]
          /\ UNCHANGED outgoing
      BY <1>10 DEF Session!Stop, Session!outgoing, outgoing
    <2>2. \A k \in 1 .. Len(sessions) : Fine(sessions'[k])
      BY <1>1, <1>2, <1>3, <2>1
    <2>3. sessions' \in Seq(All) /\ Len(sessions') = Len(sessions)
      BY <1>1, <2>1, <2>2
    <2>4. DOMAIN sessions' = 1 .. Len(sessions)
      BY <2>3, LenProperties
    <2>5. mapped' \in [Session!Kinds -> 0 .. Len(sessions')]
      BY <1>1, <2>1, <2>3
    <2>6. QED
      BY <1>1, <2>1, <2>2, <2>3, <2>4, <2>5, QueueStepTypes DEF Session!TypeOK
  <1>11. ASSUME NEW k \in DOMAIN sessions, Session!Prints(k)
         PROVE  Session!TypeOK' /\ QueueTypes'
    <2> DEFINE s == [sessions[k] EXCEPT !.printed = @ + 1]
    <2>1. /\ sessions[k].printed < MaxPrinted /\ sessions' = [sessions EXCEPT ![k] = s]
          /\ UNCHANGED <<mapped, outgoing>>
      BY <1>11 DEF Session!Prints, Session!outgoing, outgoing
    <2>2. sessions[k] \in All /\ Fine(sessions[k])
      BY <1>1, <1>2
    <2>3. /\ sessions[k].printed \in 0 .. MaxPrinted /\ sessions[k].sent \in 0 .. MaxPrinted
          /\ sessions[k].sent <= sessions[k].printed
      BY <2>2 DEF Session!Session
    <2>4. sessions[k].printed + 1 \in 0 .. MaxPrinted
      BY <1>1, <2>1, <2>3
    <2>5. s \in All
      BY <2>2, <2>4 DEF Session!Session
    <2>6. s.sent = sessions[k].sent /\ s.printed = sessions[k].printed + 1
      BY <2>2 DEF Session!Session
    <2>7. s.sent <= s.printed
      BY <2>3, <2>6
    <2> HIDE DEF s
    <2>8. QED
      BY <2>1, <2>5, <2>7, SessionSet, QueueStepTypes
  <1>12. ASSUME NEW k \in DOMAIN sessions,
                \/ Session!Occupied(k) \/ Session!Ends(k) \/ Session!PumpEof(k)
                \/ Session!PumpJoined(k)
         PROVE  Session!TypeOK' /\ QueueTypes'
    <2> DEFINE s == IF Session!Occupied(k) THEN [sessions[k] EXCEPT !.program = "busy"]
                    ELSE IF Session!Ends(k) THEN [sessions[k] EXCEPT !.program = "ended"]
                    ELSE IF Session!PumpEof(k) THEN [sessions[k] EXCEPT !.pump = "done"]
                    ELSE [sessions[k] EXCEPT !.supervisor = "join", !.input = "closed"]
    <2>1. sessions' = [sessions EXCEPT ![k] = s] /\ UNCHANGED <<mapped, outgoing>>
      BY <1>12 DEF Session!Occupied, Session!Ends, Session!PumpEof, Session!PumpJoined, Session!Set,
         Session!outgoing, outgoing
    <2>2. s \in All /\ s.sent <= s.printed
      BY <1>1, <1>2 DEF Session!Session
    <2> HIDE DEF s
    <2>3. QED
      BY <2>1, <2>2, SessionSet, QueueStepTypes
  <1>13. ASSUME NEW k \in DOMAIN sessions, Session!PumpData(k)
         PROVE  Session!TypeOK' /\ QueueTypes'
    <2> DEFINE s == [sessions[k] EXCEPT !.sent = @ + 1,
                        !.pump = IF sessions[k].kind = "pod" /\ ~Session!HasRoom THEN "done"
                                 ELSE @]
               m == Session!Data(k, sessions[k].sent + 1)
    <2>1. /\ sessions[k].sent < sessions[k].printed /\ Session!Send(m) /\ UNCHANGED mapped
          /\ sessions' = [sessions EXCEPT ![k].sent = @ + 1,
                ![k].pump = IF sessions[k].kind = "pod" /\ ~Session!HasRoom THEN "done" ELSE @]
      BY <1>13 DEF Session!PumpData
    <2>2. sessions[k] \in All /\ k \in 1 .. MaxSessions
      BY <1>1, <1>2
    <2>3. sessions' = [sessions EXCEPT ![k] = s]
      BY <1>1, <2>1, <2>2 DEF Session!Session
    <2>4. s \in All /\ s.sent <= s.printed
      <3>1. sessions[k].printed \in 0 .. MaxPrinted /\ sessions[k].sent \in 0 .. MaxPrinted
        BY <2>2 DEF Session!Session
      <3>2. /\ sessions[k].sent + 1 \in 0 .. MaxPrinted
            /\ sessions[k].sent + 1 <= sessions[k].printed
        BY <1>1, <2>1, <3>1
      <3>3. s \in All
        BY <2>2, <3>2 DEF Session!Session
      <3>4. s.sent = sessions[k].sent + 1 /\ s.printed = sessions[k].printed
        BY <2>2 DEF Session!Session
      <3>5. QED
        BY <3>2, <3>3, <3>4
    <2>5. m \in Messages
      BY <1>1, <2>1, <2>2 DEF Messages, Session!Data, Session!Session
    <2> HIDE DEF s, m
    <2>6. QED
      BY <2>1, <2>3, <2>4, <2>5, SessionSet, SendsAreOne, SendTypes
  <1>14. ASSUME NEW k \in DOMAIN sessions, Session!SendBanner(k)
         PROVE  Session!TypeOK' /\ QueueTypes'
    <2> DEFINE s == [sessions[k] EXCEPT !.supervisor = "done"]
               m == Session!Banner(k)
    <2>1. Session!Send(m) /\ sessions' = [sessions EXCEPT ![k] = s] /\ UNCHANGED mapped
      BY <1>14 DEF Session!SendBanner, Session!Set
    <2>2. s \in All /\ s.sent <= s.printed
      BY <1>1, <1>2 DEF Session!Session
    <2>3. m \in Messages
      BY <1>1 DEF Messages, Session!Banner
    <2> HIDE DEF s, m
    <2>4. QED
      BY <2>1, <2>2, <2>3, SessionSet, SendsAreOne, SendTypes
  <1>15. /\ {"terminal", "pod"} \in SUBSET Session!Kinds
         /\ {"container"} \in SUBSET Session!Kinds
    BY DEF Session!Kinds
  <1>16. QED
    BY <1>8, <1>9, <1>10, <1>11, <1>12, <1>13, <1>14, <1>15
       DEF Session!Next, Session!StopTerminal, Session!StopContainer, Session!Pump,
           Session!Supervise


\* A pump reads what journalctl has written.
JournalTypes ==
    Journal!TypeOK /\ \A p \in Journal!Pipes : pumped[p] <= printed[p]

\* A chunk that is flushed is a message, and leaves the batcher within its types.
LEMMA JournalFlushTypes ==
  ASSUME QueueTypes, NEW lines \in Seq(Journal!Lines), batcher = "running",
         Journal!Flush(lines)
  PROVE  /\ QueueTypes' /\ buf' = <<>> /\ batcher' \in {"running", "done"}
         /\ Send(Journal!Chunk(lines))
  <1>1. Send(Journal!Chunk(lines)) /\ buf' = <<>> /\ batcher' \in {"running", "done"}
    BY SendsAreOne DEF Journal!Flush
  <1>2. Journal!Chunk(lines) \in Messages
    BY DEF Messages
  <1> HIDE DEF Journal!Chunk
  <1>3. QED
    BY <1>1, <1>2, SendTypes

LEMMA JournalTypesStep ==
  ASSUME JournalTypes, QueueTypes, Journal!Next
  PROVE  JournalTypes' /\ QueueTypes'
  <1>1. /\ MaxLines \in Nat /\ ChunkLines \in Nat \ {0}
        /\ printed \in [Journal!Pipes -> 0 .. MaxLines]
        /\ pumped \in [Journal!Pipes -> 0 .. MaxLines]
        /\ pump \in [Journal!Pipes -> {"reading", "done", "failed"}]
        /\ channel \in Seq(Journal!Lines)
        /\ buf \in Seq(Journal!Lines) /\ Len(buf) < ChunkLines
    BY RequestsAssumption DEF JournalTypes, Journal!TypeOK, Journal!SizesAssumption
  <1>2. \A p \in Journal!Pipes : pumped[p] <= printed[p]
    BY DEF JournalTypes
  <1>3. <<>> \in Seq(Journal!Lines) /\ Len(<<>>) < ChunkLines
    BY <1>1
  <1>4. CASE \E p \in Journal!Pipes : Journal!ChildPrints(p)
    <2>1. PICK p \in Journal!Pipes : Journal!ChildPrints(p)
      BY <1>4
    <2>2. /\ UNCHANGED <<pumped, pump, channel, buf, batcher, supervisor, outgoing>>
          /\ printed[p] < MaxLines
          /\ \/ printed' = [printed EXCEPT ![p] = @ + 1] /\ child' = child
             \/ printed' = printed /\ child' = "exited"
      BY <2>1 DEF Journal!ChildPrints, Journal!outgoing, outgoing
    <2>3. /\ printed' \in [Journal!Pipes -> 0 .. MaxLines]
          /\ \A q \in Journal!Pipes : pumped'[q] <= printed'[q]
      <3>1. CASE printed' = printed
        BY <1>1, <1>2, <2>2, <3>1
      <3>2. CASE printed' = [printed EXCEPT ![p] = @ + 1]
        <4>1. \A q \in Journal!Pipes :
                 printed'[q] = IF q = p THEN printed[q] + 1 ELSE printed[q]
          BY <1>1, <3>2
        <4>2. \A q \in Journal!Pipes :
                 pumped'[q] = pumped[q] /\ pumped[q] \in Nat /\ printed[q] \in 0 .. MaxLines
          BY <1>1, <2>2
        <4>5. ASSUME NEW q \in Journal!Pipes PROVE printed'[q] \in 0 .. MaxLines
          <5>1. MaxLines \in Nat /\ printed[q] \in 0 .. MaxLines /\ printed[p] < MaxLines
            BY <1>1, <2>2, <4>2
          <5>2. printed'[q] = IF q = p THEN printed[p] + 1 ELSE printed[q]
            BY <4>1
          <5>3. printed[p] \in 0 .. MaxLines
            BY <1>1, <2>1
          <5> HIDE DEF Journal!Pipes
          <5>4. QED
            BY <5>1, <5>2, <5>3
        <4>3. DOMAIN printed' = Journal!Pipes /\ printed' \in [Journal!Pipes -> 0 .. MaxLines]
          BY <1>1, <3>2, <4>5
        <4>4. QED
          BY <1>2, <4>1, <4>2, <4>3
      <3>3. QED
        BY <2>2, <3>1, <3>2
    <2>4. QED
      BY <2>2, <2>3, QueueStepTypes DEF JournalTypes, Journal!TypeOK
  <1>5. CASE \E p \in Journal!Pipes : Journal!PumpLine(p)
    <2>1. PICK p \in Journal!Pipes : Journal!PumpLine(p)
      BY <1>5
    <2>2. /\ pumped[p] < printed[p] /\ pumped' = [pumped EXCEPT ![p] = @ + 1]
          /\ \/ channel' = Append(channel, <<p, pumped'[p]>>) /\ pump' = pump
             \/ channel' = channel /\ pump' = [pump EXCEPT ![p] = "done"]
          /\ UNCHANGED <<child, printed, buf, batcher, supervisor, outgoing>>
      BY <2>1 DEF Journal!PumpLine, Journal!process, Journal!outgoing, outgoing
    <2>3. /\ pumped' \in [Journal!Pipes -> 0 .. MaxLines]
          /\ \A q \in Journal!Pipes : pumped'[q] <= printed'[q]
      BY <1>1, <1>2, <2>1, <2>2
    <2>4. <<p, pumped'[p]>> \in Journal!Lines
      BY <1>1, <2>1, <2>2 DEF Journal!Lines
    <2>5. channel' \in Seq(Journal!Lines)
      <3> DEFINE line == <<p, pumped'[p]>>
      <3>1. line \in Journal!Lines /\ (channel' = Append(channel, line) \/ channel' = channel)
        BY <2>2, <2>4
      <3> HIDE DEF line
      <3>2. channel \in Seq(Journal!Lines)
        BY <1>1
      <3>3. Append(channel, line) \in Seq(Journal!Lines)
        BY <3>1, <3>2, AppendProperties
      <3>4. QED
        BY <3>1, <3>2, <3>3
    <2>6. pump' \in [Journal!Pipes -> {"reading", "done", "failed"}]
      BY <1>1, <2>1, <2>2
    <2>7. QED
      BY <2>2, <2>3, <2>5, <2>6, QueueStepTypes DEF JournalTypes, Journal!TypeOK
  <1>6. CASE \E p \in Journal!Pipes : Journal!PumpEof(p) \/ Journal!PumpFails(p)
    <2>1. PICK p \in Journal!Pipes : Journal!PumpEof(p) \/ Journal!PumpFails(p)
      BY <1>6
    <2>2. /\ \E over \in {"done", "failed"} : pump' = [pump EXCEPT ![p] = over]
          /\ UNCHANGED <<child, printed, pumped, channel, buf, batcher, supervisor, outgoing>>
      BY <2>1 DEF Journal!PumpEof, Journal!PumpFails, Journal!process, Journal!outgoing, outgoing
    <2>3. pump' \in [Journal!Pipes -> {"reading", "done", "failed"}]
      BY <1>1, <2>1, <2>2
    <2>4. QED
      BY <2>2, <2>3, QueueStepTypes DEF JournalTypes, Journal!TypeOK
  <1>7. CASE Journal!TakeLine
    <2> DEFINE lines == Append(buf, Head(channel))
    <2>1. /\ batcher = "running" /\ channel # <<>> /\ channel' = Tail(channel)
          /\ \/ Journal!Flush(lines)
             \/ /\ ~(Len(lines) >= ChunkLines) /\ buf' = lines
                /\ UNCHANGED <<outgoing, batcher>>
          /\ UNCHANGED <<child, printed, pumped, pump, supervisor>>
      BY <1>7 DEF Journal!TakeLine, Journal!process, Journal!outgoing, outgoing
    <2>2. Head(channel) \in Journal!Lines /\ channel' \in Seq(Journal!Lines)
      BY <1>1, <2>1, HeadTailProperties
    <2>3. lines \in Seq(Journal!Lines) /\ Len(lines) \in Nat
      BY <1>1, <2>2, AppendProperties, LenProperties
    <2> HIDE DEF lines
    <2>4. CASE Journal!Flush(lines)
      BY <1>3, <2>1, <2>2, <2>3, <2>4, JournalFlushTypes DEF JournalTypes, Journal!TypeOK
    <2>5. CASE ~Journal!Flush(lines)
      <3>1. Len(lines) < ChunkLines /\ buf' = lines /\ UNCHANGED <<outgoing, batcher>>
        BY <1>1, <2>1, <2>3, <2>5
      <3>2. QED
        BY <2>1, <2>2, <2>3, <3>1, QueueStepTypes DEF JournalTypes, Journal!TypeOK
    <2>6. QED
      BY <2>4, <2>5
  <1>8. CASE Journal!Tick
    <2>1. /\ batcher = "running" /\ Journal!Flush(buf)
          /\ UNCHANGED <<child, printed, pumped, pump, channel, supervisor>>
      BY <1>8 DEF Journal!Tick, Journal!process
    <2>2. QED
      BY <1>1, <1>3, <2>1, JournalFlushTypes DEF JournalTypes, Journal!TypeOK
  <1>9. CASE Journal!LastFlush
    <2>1. /\ batcher' = "done" /\ buf' = <<>>
          /\ UNCHANGED <<child, printed, pumped, pump, channel, supervisor>>
          /\ UNCHANGED outgoing \/ Send(Journal!Chunk(buf))
      BY <1>9, SendsAreOne DEF Journal!LastFlush, Journal!process, Journal!outgoing, outgoing
    <2>2. Journal!Chunk(buf) \in Messages
      BY <1>1 DEF Messages
    <2>3. QueueTypes'
      <3> HIDE DEF Journal!Chunk
      <3>1. QED
        BY <2>1, <2>2, SendTypes, QueueStepTypes
    <2>4. QED
      BY <1>3, <2>1, <2>3 DEF JournalTypes, Journal!TypeOK
  <1>10. CASE Journal!SendEnd
    <2>1. /\ supervisor' = "done" /\ Send(Journal!End)
          /\ UNCHANGED <<child, printed, pumped, pump, channel, buf, batcher>>
      BY <1>10, SendsAreOne DEF Journal!SendEnd, Journal!process
    <2>2. Journal!End \in Messages
      BY DEF Messages, Journal!End
    <2>3. QueueTypes'
      BY <2>1, <2>2, SendTypes
    <2>4. QED
      BY <2>1, <2>3 DEF JournalTypes, Journal!TypeOK
  <1>11. CASE \/ Journal!ChildExits \/ Journal!Request \/ Journal!SpawnChild
              \/ Journal!SpawnFails \/ Journal!Supervise \/ Journal!Abort
    <2>1. UNCHANGED <<printed, pumped, pump, channel, buf, batcher, outgoing>>
      BY <1>11 DEF Journal!ChildExits, Journal!Request, Journal!SpawnChild,
         Journal!SpawnFails, Journal!Supervise, Journal!Await, Journal!Abort,
         Journal!process, Journal!outgoing, outgoing
    <2>2. /\ child' \in {"none", "running", "exited", "killed"}
          /\ supervisor' \in {"idle", "spawn", "child", "stdout", "stderr", "batcher", "end",
                              "done", "aborted"}
      BY <1>11 DEF Journal!ChildExits, Journal!Request, Journal!SpawnChild,
         Journal!SpawnFails, Journal!Supervise, Journal!Await, Journal!Abort,
         Journal!process, JournalTypes, Journal!TypeOK
    <2>3. QED
      BY <2>1, <2>2, QueueStepTypes DEF JournalTypes, Journal!TypeOK
  <1>12. QED
    BY <1>4, <1>5, <1>6, <1>7, <1>8, <1>9, <1>10, <1>11
       DEF Journal!Next, Journal!Pump, Journal!Batch

\* The task reads what the pod has logged.
PodTypes == PodLog!TypeOK /\ taken <= logged

LEMMA PodFlushTypes ==
  ASSUME QueueTypes, NEW lines \in Seq(1 .. MaxLines), reading = "streaming",
         PodLog!Flush(lines)
  PROVE  /\ QueueTypes' /\ held' = <<>> /\ reading' \in {"streaming", "returned"}
         /\ Send(PodLog!Chunk(lines))
  <1>1. Send(PodLog!Chunk(lines)) /\ held' = <<>> /\ reading' \in {"streaming", "returned"}
    BY SendsAreOne DEF PodLog!Flush
  <1>2. PodLog!Chunk(lines) \in Messages
    BY DEF Messages
  <1> HIDE DEF PodLog!Chunk
  <1>3. QED
    BY <1>1, <1>2, SendTypes

LEMMA PodTypesStep ==
  ASSUME PodTypes, QueueTypes, PodLog!Next
  PROVE  PodTypes' /\ QueueTypes'
  <1>1. /\ MaxLines \in Nat /\ ChunkLines \in Nat \ {0}
        /\ logged \in 0 .. MaxLines /\ taken \in 0 .. MaxLines /\ taken <= logged
        /\ held \in Seq(1 .. MaxLines) /\ Len(held) < ChunkLines
    BY RequestsAssumption DEF PodTypes, PodLog!TypeOK, PodLog!SizesAssumption
  <1>2. <<>> \in Seq(1 .. MaxLines) /\ Len(<<>>) < ChunkLines
    BY <1>1
  <1>3. CASE PodLog!ReadLine
    <2> DEFINE lines == Append(held, taken')
    <2>1. /\ reading = "streaming" /\ taken < logged /\ taken' = taken + 1
          /\ \/ PodLog!Flush(lines)
             \/ /\ ~(Len(lines) >= ChunkLines) /\ held' = lines
                /\ UNCHANGED <<outgoing, reading>>
          /\ UNCHANGED <<source, logged>>
      BY <1>3 DEF PodLog!ReadLine, PodLog!pod, PodLog!outgoing, outgoing
    <2>2. taken' \in 1 .. MaxLines /\ taken' <= logged'
      BY <1>1, <2>1
    <2>3. lines \in Seq(1 .. MaxLines) /\ Len(lines) \in Nat
      <3>1. held \in Seq(1 .. MaxLines)
        BY <1>1
      <3>2. lines \in Seq(1 .. MaxLines)
        BY <2>2, <3>1, AppendProperties
      <3>3. QED
        BY <3>2, LenProperties
    <2> HIDE DEF lines
    <2>4. CASE PodLog!Flush(lines)
      <3>1. QueueTypes' /\ held' = <<>> /\ reading' \in {"streaming", "returned"}
        BY <2>1, <2>3, <2>4, PodFlushTypes
      <3>2. /\ taken' \in 0 .. MaxLines /\ logged' = logged /\ source' = source
            /\ source \in {"open", "ended", "failed"}
        BY <1>1, <2>1, <2>2 DEF PodTypes, PodLog!TypeOK
      <3>3. QED
        BY <1>1, <1>2, <2>2, <3>1, <3>2 DEF PodTypes, PodLog!TypeOK
    <2>5. CASE ~PodLog!Flush(lines)
      <3>1. Len(lines) < ChunkLines /\ held' = lines /\ UNCHANGED <<outgoing, reading>>
        BY <1>1, <2>1, <2>3, <2>5
      <3>2. QED
        BY <2>1, <2>2, <2>3, <3>1, QueueStepTypes DEF PodTypes, PodLog!TypeOK
    <2>6. QED
      BY <2>4, <2>5
  <1>4. CASE PodLog!Tick
    <2>1. reading = "streaming" /\ PodLog!Flush(held) /\ UNCHANGED <<source, logged, taken>>
      BY <1>4 DEF PodLog!Tick, PodLog!pod
    <2>2. QED
      BY <1>1, <1>2, <2>1, PodFlushTypes DEF PodTypes, PodLog!TypeOK
  <1>5. CASE PodLog!LogOver \/ PodLog!ReadFails
    <2>1. /\ reading' \in {"ending", "failing"} /\ held' = <<>> /\ UNCHANGED <<source, logged, taken>>
          /\ UNCHANGED outgoing \/ Send(PodLog!Chunk(held))
      BY <1>5, SendsAreOne
         DEF PodLog!LogOver, PodLog!ReadFails, PodLog!Over, PodLog!pod, PodLog!outgoing, outgoing
    <2>2. PodLog!Chunk(held) \in Messages
      BY <1>1 DEF Messages
    <2>3. QueueTypes'
      <3> HIDE DEF PodLog!Chunk
      <3>1. QED
        BY <2>1, <2>2, SendTypes, QueueStepTypes
    <2>4. QED
      BY <1>2, <2>1, <2>3 DEF PodTypes, PodLog!TypeOK
  <1>6. CASE PodLog!SendEnd
    <2>1. /\ reading' = "returned" /\ UNCHANGED <<source, logged, taken, held>>
          /\ Send(PodLog!End) \/ Send(PodLog!FailedEnd)
      BY <1>6, SendsAreOne DEF PodLog!SendEnd, PodLog!pod
    <2>2. PodLog!End \in Messages /\ PodLog!FailedEnd \in Messages
      BY DEF Messages, PodLog!End, PodLog!FailedEnd
    <2>3. QueueTypes'
      BY <2>1, <2>2, SendTypes
    <2>4. QED
      BY <2>1, <2>3 DEF PodTypes, PodLog!TypeOK
  <1>7. CASE PodLog!PodLogs
    <2>1. /\ logged < MaxLines /\ logged' = logged + 1
          /\ UNCHANGED <<source, taken, reading, held, outgoing>>
      BY <1>7 DEF PodLog!PodLogs, PodLog!outgoing, outgoing
    <2>2. logged' \in 0 .. MaxLines /\ taken' <= logged'
      BY <1>1, <2>1
    <2>3. QED
      BY <2>1, <2>2, QueueStepTypes DEF PodTypes, PodLog!TypeOK
  <1>8. CASE PodLog!SourceEnds \/ PodLog!Request \/ PodLog!Open \/ PodLog!Abort
    <2>1. UNCHANGED <<logged, taken, held, outgoing>>
      BY <1>8 DEF PodLog!SourceEnds, PodLog!Request, PodLog!Open, PodLog!Abort, PodLog!pod,
         PodLog!outgoing, outgoing
    <2>2. /\ source' \in {"open", "ended", "failed"}
          /\ reading' \in {"idle", "opening", "streaming", "ending", "failing", "returned",
                           "aborted"}
      BY <1>8 DEF PodLog!SourceEnds, PodLog!Request, PodLog!Open, PodLog!Abort, PodLog!pod,
         PodTypes, PodLog!TypeOK
    <2>3. QED
      BY <2>1, <2>2, QueueStepTypes DEF PodTypes, PodLog!TypeOK
  <1>9. QED
    BY <1>3, <1>4, <1>5, <1>6, <1>7, <1>8 DEF PodLog!Next

\* The types of every kind's state and of the queue.
TypesInv ==
    /\ TasksInv /\ running \in Kinds /\ QueueTypes
    /\ JournalTypes /\ PodTypes /\ ExecBounds /\ ProbeTypes /\ BackupBounds
    /\ RestoreTypes /\ ApplyBounds /\ Session!TypeOK /\ Prune!TypeOK /\ Announce!TypeOK

LEMMA TypesRest ==
  /\ JournalTypes /\ UNCHANGED journalTask => JournalTypes'
  /\ PodTypes /\ UNCHANGED podTask => PodTypes'
  /\ ExecBounds /\ UNCHANGED execTask => ExecBounds'
  /\ ProbeTypes /\ UNCHANGED probeTask => ProbeTypes'
  /\ BackupBounds /\ UNCHANGED backupTask => BackupBounds'
  /\ RestoreTypes /\ UNCHANGED restoreTask => RestoreTypes'
  /\ ApplyBounds /\ UNCHANGED applyTask => ApplyBounds'
  /\ Session!TypeOK /\ UNCHANGED sessionTask => Session!TypeOK'
  /\ Prune!TypeOK /\ UNCHANGED pruneTask => Prune!TypeOK'
  /\ Announce!TypeOK /\ UNCHANGED capabilityTask => Announce!TypeOK'
  <1>1. JournalTypes /\ UNCHANGED journalTask => JournalTypes'
    BY DEF JournalTypes, journalTask, Journal!TypeOK
  <1>2. PodTypes /\ UNCHANGED podTask => PodTypes'
    BY DEF PodTypes, podTask, PodLog!TypeOK
  <1>3. ExecBounds /\ UNCHANGED execTask => ExecBounds'
    BY DEF ExecBounds, execTask
  <1>4. ProbeTypes /\ UNCHANGED probeTask => ProbeTypes'
    BY DEF ProbeTypes, probeTask, Probe!TypeOK
  <1>5. BackupBounds /\ UNCHANGED backupTask => BackupBounds'
    BY DEF BackupBounds, backupTask
  <1>6. RestoreTypes /\ UNCHANGED restoreTask => RestoreTypes'
    BY DEF RestoreTypes, restoreTask, Restoring!TypeOK, Restoring!Running
  <1>7. ApplyBounds /\ UNCHANGED applyTask => ApplyBounds'
    BY DEF ApplyBounds, applyTask, Apply!TypeOK
  <1>8. Session!TypeOK /\ UNCHANGED sessionTask => Session!TypeOK'
    BY DEF sessionTask, Session!TypeOK
  <1>9. Prune!TypeOK /\ UNCHANGED pruneTask => Prune!TypeOK'
    BY DEF pruneTask, Prune!TypeOK
  <1>10. Announce!TypeOK /\ UNCHANGED capabilityTask => Announce!TypeOK'
    BY DEF capabilityTask, Announce!TypeOK
  <1>11. QED
    BY <1>1, <1>2, <1>3, <1>4, <1>5, <1>6, <1>7, <1>8, <1>9, <1>10

LEMMA TypesBegin == Init => TypesInv
  <1> SUFFICES ASSUME Init
               PROVE  TypesInv
    OBVIOUS
  <1>0. /\ OutgoingInit /\ Journal!Init /\ PodLog!Init /\ Exec!Init /\ Probe!Init /\ Backup!Init
        /\ Restoring!Init /\ Apply!Init /\ Session!Init /\ Prune!Init /\ Announce!Init
    BY DEF Init
  <1>1. TasksInv /\ running \in Kinds
    BY TasksBegin DEF Init
  <1>2. QueueTypes
    <2>1. QueueLength \in Nat /\ 0 <= QueueLength
      BY QueueAssumption
    <2>2. queue = <<>> /\ delivered = <<>> /\ refused = FALSE
      BY <1>0 DEF OutgoingInit
    <2>3. queue \in Seq(Messages) /\ delivered \in Seq(Messages) /\ Len(queue) = 0
      BY <2>2, EmptySeq
    <2>4. QED
      BY <2>1, <2>2, <2>3 DEF QueueTypes
  <1>3. JournalTypes
    BY <1>0, RequestsAssumption
       DEF Journal!Init, JournalTypes, Journal!TypeOK, Journal!SizesAssumption
  <1>4. PodTypes
    BY <1>0, RequestsAssumption
       DEF PodLog!Init, PodTypes, PodLog!TypeOK, PodLog!SizesAssumption
  <1>5. ExecBounds
    BY <1>0, RequestsAssumption DEF Exec!Init, ExecBounds, Exec!LimitsAssumption
  <1>6. ProbeTypes
    <2>1. MaxSyncs \in Nat /\ MaxFlips \in Nat
      BY RequestsAssumption DEF Probe!ProbesAssumption
    <2>2. /\ received = <<>> /\ pending = {} /\ overlapped = FALSE /\ flips = 0 /\ late = {}
          /\ probes = [i \in ProbeIds |-> <<>>] /\ tasks = [i \in ProbeIds |-> 0]
          /\ health = [i \in ProbeIds |-> "green"]
      BY <1>0 DEF Probe!Init
    <2>3. received \in Seq(ProbeSets) /\ Len(received) = 0
      BY <2>2, EmptySeq
    <2>4. /\ probes \in [ProbeIds -> Seq(Probe!ProbeTask)]
          /\ \A i \in ProbeIds : probes[i] = <<>> /\ Len(probes[i]) = 0 /\ tasks[i] = 0
      BY <2>2, EmptySeq
    <2>5. /\ health \in [ProbeIds -> Probe!States] /\ tasks \in [ProbeIds -> Nat]
          /\ flips \in 0 .. MaxFlips /\ Len(received) <= MaxSyncs
      BY <2>1, <2>2, <2>3 DEF Probe!States
    <2>9. /\ pending \subseteq 1 .. Len(received) /\ late \subseteq ProbeIds
          /\ overlapped \in BOOLEAN
      BY <2>2
    <2>10. \A i \in ProbeIds : tasks[i] <= Len(probes[i])
      BY <2>4
    <2>6. Probe!TypeOK
      BY <2>3, <2>4, <2>5, <2>9, <2>10 DEF Probe!TypeOK
    <2>7. \A i \in ProbeIds : DOMAIN probes[i] = {}
      BY <2>4
    <2>8. QED
      BY <2>6, <2>7 DEF ProbeTypes
  <1>7. BackupBounds
    BY <1>0, RequestsAssumption DEF Backup!Init, BackupBounds, Backup!BackupsAssumption
  <1>8. RestoreTypes
    <2>1. BodyChunks \in Nat /\ StdinRoom \in Nat /\ StderrRoom \in Nat
      BY RequestsAssumption DEF Restoring!PipesAssumption
    <2>2. /\ phase = "idle" /\ size = 0 /\ fetched = 0 /\ piped = 0 /\ warned = 0
          /\ tar = "none" /\ extracted = 0 /\ chunk = FALSE
      BY <1>0 DEF Restoring!Init
    <2>3. /\ chunk \in BOOLEAN /\ stdinOpen \in BOOLEAN /\ whole \in BOOLEAN
          /\ pipeError \in BOOLEAN /\ restored \in BOOLEAN
      BY <1>0 DEF Restoring!Init
    <2>4. /\ size \in 0 .. BodyChunks /\ fetched \in 0 .. size /\ piped \in 0 .. StdinRoom
          /\ warned \in 0 .. StderrRoom /\ extracted \in 0 .. BodyChunks
      BY <2>1, <2>2
    <2>5. Restoring!TypeOK
      BY <2>2, <2>3, <2>4 DEF Restoring!TypeOK
    <2>6. QED
      BY <2>2, <2>5 DEF RestoreTypes, Restoring!Running
  <1>9. ApplyBounds
    <2>1. MaxDocs \in Nat
      BY RequestsAssumption DEF Apply!DocsAssumption
    <2>2. /\ apply = "idle" /\ manifest = <<>> /\ dryRun = FALSE /\ force = FALSE /\ doc = 1
          /\ changed = {} /\ outcome = [error |-> FALSE, listed |-> 0]
      BY <1>0 DEF Apply!Init
    <2>3. manifest \in Seq(Apply!Docs) /\ Len(manifest) = 0
      BY <2>2, EmptySeq
    <2>4. outcome \in [error : BOOLEAN, listed : 0 .. MaxDocs] /\ outcome.listed = 0
      BY <2>1, <2>2
    <2>5. dryRun \in BOOLEAN /\ force \in BOOLEAN
      BY <2>2
    <2>8. doc \in 1 .. MaxDocs + 1 /\ Len(manifest) <= MaxDocs
      BY <2>1, <2>2, <2>3
    <2>6. Apply!TypeOK
      BY <2>2, <2>3, <2>4, <2>5, <2>8 DEF Apply!TypeOK
    <2>7. QED
      BY <2>2, <2>3, <2>4, <2>6 DEF ApplyBounds
  <1>10. Session!TypeOK
    BY <1>0, RequestsAssumption DEF Session!Init, Session!TypeOK, Session!SessionsAssumption
  <1>11. Prune!TypeOK
    <2>1. MaxChanges \in Nat
      BY RequestsAssumption DEF Prune!DockerAssumption
    <2>2. /\ container \in [Containers -> {"running", "exited", "removed"}]
          /\ kept = Prune!Resources /\ preview = {} /\ removed = {} /\ listed = FALSE
          /\ prune = "idle" /\ withVolumes \in BOOLEAN /\ changes = 0
      BY <1>0 DEF Prune!Init
    <2>3. changes \in 0 .. MaxChanges
      BY <2>1, <2>2
    <2>4. QED
      BY <2>2, <2>3 DEF Prune!TypeOK
  <1>12. Announce!TypeOK
    <2>1. MaxShifts \in Nat
      BY RequestsAssumption DEF Announce!CapabilitiesAssumption
    <2>2. /\ present = {} /\ current = {} /\ shifts = 0 /\ registered \in BOOLEAN
      BY <1>0 DEF Announce!Init
    <2>3. shifts \in 0 .. MaxShifts
      BY <2>1, <2>2
    <2>4. QED
      BY <2>2, <2>3 DEF Announce!TypeOK
  <1>13. QED
    BY <1>1, <1>2, <1>3, <1>4, <1>5, <1>6, <1>7, <1>8, <1>9, <1>10, <1>11, <1>12
       DEF TypesInv

LEMMA TypesStep == TypesInv /\ [Next]_vars => TypesInv'
  <1> SUFFICES ASSUME TypesInv, [Next]_vars
               PROVE  TypesInv'
    OBVIOUS
  <1>1. /\ TasksInv /\ running \in Kinds /\ QueueTypes
        /\ RestoreInv /\ ExecInv /\ BackupInv /\ ApplyInv
        /\ JournalTypes /\ PodTypes /\ ExecBounds /\ ProbeTypes /\ BackupBounds
        /\ RestoreTypes /\ ApplyBounds /\ Session!TypeOK /\ Prune!TypeOK /\ Announce!TypeOK
    BY DEF TypesInv, TasksInv
  <1>2. TasksInv'
    BY <1>1, TasksStep
  <1>3. running' \in Kinds
    BY <1>1 DEF Next, DeliverOne, Rest, vars
  <1> USE DEF TypesInv, Rest
  <1>4. CASE DeliverOne \/ (OtherSend /\ Rest("queue"))
    <2>1. QueueTypes'
      BY <1>1, <1>4, QueueStepTypes
    <2>2. QED
      BY <1>1, <1>2, <1>3, <1>4, <2>1, TypesRest DEF DeliverOne
  <1>5. CASE Journal!Next /\ Rest("journal")
    BY <1>1, <1>2, <1>3, <1>5, JournalTypesStep, TypesRest
  <1>6. CASE PodLog!Next /\ Rest("pod")
    BY <1>1, <1>2, <1>3, <1>6, PodTypesStep, TypesRest
  <1>7. CASE Exec!Next /\ Rest("exec")
    BY <1>1, <1>2, <1>3, <1>7, ExecTypesStep, TypesRest
  <1>8. CASE Probe!Next /\ Rest("probe")
    BY <1>1, <1>2, <1>3, <1>8, ProbeTypesStep, TypesRest
  <1>9. CASE Backup!Next /\ Rest("backup")
    BY <1>1, <1>2, <1>3, <1>9, BackupTypesStep, TypesRest
  <1>10. CASE Restoring!Next /\ Rest("restore")
    BY <1>1, <1>2, <1>3, <1>10, RestoreTypesStep, TypesRest
  <1>11. CASE Apply!Next /\ Rest("apply")
    BY <1>1, <1>2, <1>3, <1>11, ApplyTypesStep, TypesRest
  <1>12. CASE Session!Next /\ Rest("session")
    BY <1>1, <1>2, <1>3, <1>12, SessionTypesStep, TypesRest
  <1>13. CASE Prune!Next /\ Rest("prune")
    BY <1>1, <1>2, <1>3, <1>13, PruneTypesStep, TypesRest
  <1>14. CASE Announce!Next /\ Rest("capabilities")
    BY <1>1, <1>2, <1>3, <1>14, AnnounceTypesStep, TypesRest
  <1>15. CASE UNCHANGED vars
    <2>1. QueueTypes'
      BY <1>1, <1>15, QueueStepTypes DEF vars
    <2>2. QED
      BY <1>1, <1>2, <1>3, <1>15, <2>1, TypesRest DEF vars
  <1>16. QED
    BY <1>4, <1>5, <1>6, <1>7, <1>8, <1>9, <1>10, <1>11, <1>12, <1>13, <1>14, <1>15 DEF Next

\* The typed state is kept throughout; what the messages mean rests on it.
THEOREM TypeInvariance == Spec => []TypesInv
  <1>1. Spec => Init /\ [][Next]_vars
    BY DEF Spec
  <1>2. QED
    BY <1>1, TypesBegin, TypesStep, PTL

\* Every variable of every kind of task keeps its type, and the queue its bound.
THEOREM Types == Spec => []TypeOK
  <1>1. TypesInv => TypeOK
    <2> SUFFICES ASSUME TypesInv
                 PROVE  TypeOK
      OBVIOUS
    <2> USE DEF TypesInv
    <2>1. Exec!TypeOK
      BY ExecTyped DEF TasksInv
    <2>2. Backup!TypeOK
      <3>1. BackupTypes /\ BackupBounds /\ Parts \in Nat
        BY RequestsAssumption DEF TasksInv, BackupInv, Backup!BackupsAssumption
      <3>2. stored \in [Backups -> 0 .. Parts]
        BY <3>1 DEF BackupTypes, BackupBounds
      <3>3. QED
        BY <3>1, <3>2 DEF BackupTypes, Backup!TypeOK
    <2>3. /\ Journal!TypeOK /\ PodLog!TypeOK /\ Probe!TypeOK /\ Restoring!TypeOK
          /\ Apply!TypeOK /\ Len(queue) <= QueueLength /\ refused \in BOOLEAN
      BY DEF JournalTypes, PodTypes, ProbeTypes, RestoreTypes, ApplyBounds, QueueTypes
    <2>4. QED
      BY <2>1, <2>2, <2>3 DEF TypeOK
  <1>2. QED
    BY <1>1, TypeInvariance, PTL
=============================================================================
