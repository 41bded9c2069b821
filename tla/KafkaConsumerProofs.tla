-------------------------- MODULE KafkaConsumerProofs --------------------------
(***************************************************************************)
(* At-least-once and in-order processing of a partition, for any number of *)
(* processes and messages, any retry limit and any number of crashes,      *)
(* rebalances and outages.                                                 *)
(*                                                                         *)
(* Neither NothingSkipped nor InOrder is inductive: a commit is safe only  *)
(* because the committing process itself settled its message and had read  *)
(* from a committed offset on.  Progress states that for every process.    *)
(*                                                                         *)
(* The counters: CountInv says what the rows and the memories may count    *)
(* (never more than the failures there were), so that no dead letter is    *)
(* early.  RetryInv is an account of the calls of the handler: the lives   *)
(* that a counter has had and what the table remembers of the present one  *)
(* pay for all of them but one call per reading, and every reading but the *)
(* first is paid for by a stop or a rebalance.                             *)
(***************************************************************************)
EXTENDS KafkaConsumer, FiniteSetTheorems, TLAPS

(* Everything before what a reader fetches next is settled, except for the *)
(* message in progress; that one is settled once it is to be committed.    *)
ProgressOf(c) ==
  /\ \A o \in Offsets : o < pos[c] => o \in Settled \/ (pc[c] \in Busy /\ o = cur[c])
  /\ pc[c] \in Busy =>
       /\ cur[c] \in Offsets
       /\ \A o \in Offsets : o < cur[c] => o \in Settled
  /\ pc[c] \in {"commit", "clear", "deadClear", "deadCommit"} => cur[c] \in Settled

Progress == \A c \in Consumers : ProgressOf(c)

IndInv == TypeOK /\ NothingSkipped /\ Progress

(* What a step of one process c may do to the others: nothing is unsettled *)
(* and their readers stay where they are.                                  *)
LEMMA OthersKeep ==
  ASSUME NEW x \in Consumers, ProgressOf(x), Settled \subseteq Settled',
         pos'[x] = pos[x], pc'[x] = pc[x], cur'[x] = cur[x]
  PROVE  ProgressOf(x)'
  BY DEF ProgressOf

(* Initially nothing is committed and nothing was read.                    *)
LEMMA IndInit == Init => IndInv
<1> SUFFICES ASSUME Init PROVE IndInv
  OBVIOUS
<1>1. TypeOK
  BY ConsumerAssumption DEF Init, TypeOK, PCs, Offsets
<1>2. NothingSkipped
  BY ConsumerAssumption DEF Init, NothingSkipped, Offsets
<1>3. ASSUME NEW c \in Consumers PROVE ProgressOf(c)
  <2>1. pos[c] = 0 /\ pc[c] = "idle"
    BY DEF Init
  <2>2. \A o \in Offsets : ~(o < pos[c])
    BY <2>1, ConsumerAssumption DEF Offsets
  <2>3. pc[c] \notin Busy
    BY <2>1 DEF Busy
  <2> QED
    BY <2>1, <2>2, <2>3 DEF ProgressOf
<1> QED
  BY <1>1, <1>2, <1>3 DEF IndInv, Progress

(* Writing a counter of the message in progress keeps the types.           *)
LEMMA CountersType ==
  ASSUME TypeOK, NEW c \in Consumers, NEW o \in Offsets, NEW n \in Nat
  PROVE  /\ rows[o] \in Nat
         /\ mem[c][o] \in Nat
         /\ [rows EXCEPT ![o] = n] \in [Offsets -> Nat]
         /\ [mem EXCEPT ![c][o] = n] \in [Consumers -> [Offsets -> Nat]]
         /\ [failures EXCEPT ![o] = n] \in [Offsets -> Nat]
         /\ failures[o] \in Nat
<1>1. mem \in [Consumers -> [Offsets -> Nat]]
  BY DEF TypeOK
<1> DEFINE row == [mem[c] EXCEPT ![o] = n]
<1>2. row \in [Offsets -> Nat]
  BY <1>1
<1>3. [mem EXCEPT ![c][o] = n] = [mem EXCEPT ![c] = row]
  BY <1>1
<1> HIDE DEF row
<1>4. [mem EXCEPT ![c][o] = n] \in [Consumers -> [Offsets -> Nat]]
  BY <1>1, <1>2, <1>3
<1>5. mem[c][o] \in Nat
  BY <1>1
<1> QED
  BY <1>4, <1>5 DEF TypeOK

(* The message in progress is one of the partition.                        *)
LEMMA CurOffset ==
  ASSUME Progress, NEW c \in Consumers, pc[c] \in Busy
  PROVE  cur[c] \in Offsets
  BY DEF Progress, ProgressOf

(* No step leaves the types; counters only ever count up or are cleared.   *)
LEMMA TypeStep == TypeOK /\ Progress /\ [Next]_vars => TypeOK'
<1> SUFFICES ASSUME TypeOK, Progress, [Next]_vars PROVE TypeOK'
  OBVIOUS
<1> USE ConsumerAssumption
<1> USE DEF PCs, groupVars, counterVars, outcomeVars, budgetVars, Goto
<1>1. ASSUME NEW c \in Consumers, Assign(c) PROVE TypeOK'
  BY <1>1 DEF TypeOK, Assign
<1>2. ASSUME NEW c \in Consumers, Fetch(c) PROVE TypeOK'
  <2>1. pos' \in [Consumers -> 0 .. Length] /\ cur' \in [Consumers -> Nat]
    BY <1>2 DEF TypeOK, Fetch
  <2>2. pc' \in [Consumers -> PCs]
    BY <1>2 DEF TypeOK, Fetch
  <2> QED
    BY <1>2, <2>1, <2>2 DEF TypeOK, Fetch
<1>3. ASSUME NEW c \in Consumers, HandleOK(c) PROVE TypeOK'
  <2>1. cur[c] \in Offsets
    BY <1>3, CurOffset DEF HandleOK, Busy
  <2> QED
    BY <1>3, <2>1 DEF TypeOK, HandleOK
<1>4. ASSUME NEW c \in Consumers, HandleError(c) PROVE TypeOK'
  <2>1. cur[c] \in Offsets
    BY <1>4, CurOffset DEF HandleError, Busy
  <2>2. failures' \in [Offsets -> Nat]
    BY <1>4, <2>1 DEF TypeOK, HandleError
  <2> QED
    BY <1>4, <2>2 DEF TypeOK, HandleError
<1>5. ASSUME NEW c \in Consumers, Inc(c) PROVE TypeOK'
  <2>1. cur[c] \in Offsets
    BY <1>5, CurOffset DEF Inc, Busy
  <2>2. rows' \in [Offsets -> Nat]
    BY <1>5, <2>1 DEF TypeOK, Inc
  <2>3. pc' \in [Consumers -> PCs]
    BY <1>5 DEF TypeOK, Inc, AfterAttempt
  <2> QED
    BY <1>5, <2>2, <2>3 DEF TypeOK, Inc
<1>6. ASSUME NEW c \in Consumers, IncFallback(c) PROVE TypeOK'
  <2>1. cur[c] \in Offsets
    BY <1>6, CurOffset DEF IncFallback, Busy
  <2>2. rows' \in [Offsets -> Nat]
    BY <1>6, <2>1 DEF TypeOK, IncFallback
  <2>3. pc' \in [Consumers -> PCs]
    BY <1>6 DEF TypeOK, IncFallback, AfterAttempt
  <2>4. mem[c][cur[c]] + 1 \in Nat
    BY <2>1, CountersType
  <2>5. mem' = [mem EXCEPT ![c][cur[c]] = mem[c][cur[c]] + 1]
    BY <1>6, <2>1 DEF IncFallback, TypeOK
  <2>6. mem' \in [Consumers -> [Offsets -> Nat]]
    BY <2>1, <2>4, <2>5, CountersType
  <2> QED
    BY <1>6, <2>2, <2>3, <2>6 DEF TypeOK, IncFallback
<1>7. ASSUME NEW c \in Consumers, ClearCounters(c), cur[c] \in Offsets
      PROVE  /\ rows' \in [Offsets -> Nat]
             /\ mem' \in [Consumers -> [Offsets -> Nat]]
             /\ resets' \in [Offsets -> Nat]
             /\ blips' \in 0 .. MaxBlips
  <2>1. mem' \in [Consumers -> [Offsets -> Nat]]
    BY <1>7, CountersType DEF ClearCounters
  <2>2. rows' \in [Offsets -> Nat]
    BY <1>7 DEF ClearCounters, TypeOK
  <2>3. resets' \in [Offsets -> Nat]
    BY <1>7 DEF ClearCounters, TypeOK
  <2>4. blips' \in 0 .. MaxBlips
    BY <1>7 DEF ClearCounters, TypeOK
  <2> QED
    BY <2>1, <2>2, <2>3, <2>4
<1>8. ASSUME NEW c \in Consumers, CommitMessages(c), cur[c] \in Offsets
      PROVE  committed' \in 0 .. Length
  BY <1>8 DEF CommitMessages, Offsets
<1>9. ASSUME NEW c \in Consumers, Commit(c) PROVE TypeOK'
  <2>1. committed' \in 0 .. Length
    BY <1>8, <1>9, CurOffset DEF Commit, Busy
  <2> QED
    BY <1>9, <2>1 DEF TypeOK, Commit
<1>10. ASSUME NEW c \in Consumers, Clear(c) PROVE TypeOK'
  <2>1. /\ rows' \in [Offsets -> Nat]
        /\ mem' \in [Consumers -> [Offsets -> Nat]]
        /\ resets' \in [Offsets -> Nat]
        /\ blips' \in 0 .. MaxBlips
    BY <1>7, <1>10, CurOffset DEF Clear, Busy
  <2> QED
    BY <1>10, <2>1 DEF TypeOK, Clear
<1>11. ASSUME NEW c \in Consumers, PublishDeadLetter(c) PROVE TypeOK'
  <2>1. cur[c] \in Offsets
    BY <1>11, CurOffset DEF PublishDeadLetter, Busy
  <2> QED
    BY <1>11, <2>1 DEF TypeOK, PublishDeadLetter
<1>12. ASSUME NEW c \in Consumers, DeadClear(c) PROVE TypeOK'
  <2>1. /\ rows' \in [Offsets -> Nat]
        /\ mem' \in [Consumers -> [Offsets -> Nat]]
        /\ resets' \in [Offsets -> Nat]
        /\ blips' \in 0 .. MaxBlips
    BY <1>7, <1>12, CurOffset DEF DeadClear, Busy
  <2> QED
    BY <1>12, <2>1 DEF TypeOK, DeadClear
<1>13. ASSUME NEW c \in Consumers, DeadCommit(c) PROVE TypeOK'
  <2>1. committed' \in 0 .. Length
    BY <1>8, <1>13, CurOffset DEF DeadCommit, Busy
  <2> QED
    BY <1>13, <2>1 DEF TypeOK, DeadCommit
<1>14. ASSUME NEW c \in Consumers, Down(c)
       PROVE  /\ pc' \in [Consumers -> PCs]
              /\ cur' \in [Consumers -> Nat]
              /\ pos' \in [Consumers -> 0 .. Length]
              /\ mem' \in [Consumers -> [Offsets -> Nat]]
              /\ assigned' \in Consumers \cup {NoConsumer}
  BY <1>14 DEF Down, TypeOK
<1>15. ASSUME NEW c \in Consumers, DeadLetterError(c) PROVE TypeOK'
  BY <1>14, <1>15 DEF TypeOK, DeadLetterError
<1>16. ASSUME NEW c \in Consumers, Stop(c) PROVE TypeOK'
  BY <1>14, <1>16 DEF TypeOK, Stop
<1>17. ASSUME NEW c \in Consumers, Restart(c) PROVE TypeOK'
  BY <1>17 DEF TypeOK, Restart
<1>18. CASE UNCHANGED vars
  BY <1>18 DEF TypeOK, vars
<1> QED
  BY <1>1, <1>2, <1>3, <1>4, <1>5, <1>6, <1>9, <1>10, <1>11, <1>12, <1>13,
     <1>15, <1>16, <1>17, <1>18 DEF Next, Step

-------------------------------------------------------------------------------
(* A step of process c leaves the readers of the others alone.             *)
LEMMA OnlyOwnReader ==
  ASSUME TypeOK, NEW c \in Consumers, NEW x \in Consumers \ {c},
         Assign(c) \/ Fetch(c) \/ Step(c) \/ Stop(c) \/ Restart(c)
  PROVE  pos'[x] = pos[x] /\ pc'[x] = pc[x] /\ cur'[x] = cur[x]
<1> USE DEF TypeOK, Goto, groupVars
<1>1. CASE Assign(c) \/ Fetch(c) \/ Restart(c)
  BY <1>1 DEF Assign, Fetch, Restart
<1>2. CASE HandleOK(c) \/ HandleError(c)
  BY <1>2 DEF HandleOK, HandleError
<1>3. CASE Inc(c) \/ IncFallback(c)
  BY <1>3 DEF Inc, IncFallback, AfterAttempt
<1>4. CASE Commit(c) \/ Clear(c) \/ DeadClear(c) \/ DeadCommit(c) \/ PublishDeadLetter(c)
  BY <1>4 DEF Commit, Clear, DeadClear, DeadCommit, PublishDeadLetter
<1>5. CASE DeadLetterError(c) \/ Stop(c)
  BY <1>5 DEF DeadLetterError, Stop, Down
<1> QED
  BY <1>1, <1>2, <1>3, <1>4, <1>5 DEF Step

(* What is settled stays settled.                                          *)
LEMMA SettledGrows ==
  ASSUME NEW c \in Consumers,
         Assign(c) \/ Fetch(c) \/ Step(c) \/ Stop(c) \/ Restart(c)
  PROVE  Settled \subseteq Settled'
  BY DEF Step, Settled, Assign, Fetch, Restart, HandleOK, HandleError, Inc,
         IncFallback, Commit, Clear, PublishDeadLetter, DeadClear, DeadCommit,
         DeadLetterError, Stop, outcomeVars

(* The acting process keeps its own Progress.                              *)
LEMMA ActorProgress ==
  ASSUME TypeOK, NothingSkipped, NEW c \in Consumers, ProgressOf(c),
         Assign(c) \/ Fetch(c) \/ Step(c) \/ Stop(c) \/ Restart(c)
  PROVE  ProgressOf(c)'
<1> USE ConsumerAssumption
<1> USE DEF TypeOK, Goto, groupVars, Busy, PCs
<1>s. Settled \subseteq Settled'
  BY SettledGrows
<1>1. CASE Assign(c)
  <2>1. pos'[c] = committed /\ pc'[c] = pc[c] /\ cur'[c] = cur[c]
    BY <1>1 DEF Assign
  <2> QED
    BY <2>1, <1>s DEF ProgressOf, NothingSkipped
<1>2. CASE Fetch(c)
  <2>1. /\ pc[c] = "idle" /\ pos[c] \in Offsets
        /\ pos'[c] = pos[c] + 1 /\ cur'[c] = pos[c]
        /\ pc'[c] \in {"dead", "handle"}
    BY <1>2, SMTT(30) DEF Fetch, Offsets
  <2>2. \A o \in Offsets : o < pos[c] => o \in Settled'
    BY <2>1, <1>s DEF ProgressOf
  <2>a. \A o, p \in Offsets : o < p + 1 => o < p \/ o = p
    BY DEF Offsets
  <2>3. \A o \in Offsets : o < pos'[c] => o < pos[c] \/ o = pos[c]
    BY <2>1, <2>a
  <2> QED
    BY <2>1, <2>2, <2>3 DEF ProgressOf
<1>3. CASE Restart(c)
  <2>1. pos'[c] = pos[c] /\ pc[c] = "down" /\ pc'[c] = "idle"
    BY <1>3 DEF Restart
  <2> QED
    BY <2>1, <1>s DEF ProgressOf
<1>4. CASE HandleOK(c)
  <2>1. /\ pos'[c] = pos[c] /\ cur'[c] = cur[c]
        /\ pc[c] = "handle" /\ pc'[c] = "commit" /\ cur[c] \in Settled'
    BY <1>4 DEF HandleOK, Settled
  <2> QED
    BY <2>1, <1>s DEF ProgressOf
<1>5. CASE HandleError(c) \/ Inc(c) \/ IncFallback(c)
  <2>1. /\ pos'[c] = pos[c] /\ cur'[c] = cur[c]
        /\ pc[c] \in {"handle", "inc"} /\ pc'[c] \in {"handle", "inc", "dead"}
    <3>1. CASE HandleError(c)
      BY <3>1 DEF HandleError
    <3>2. CASE Inc(c)
      BY <3>2 DEF Inc, AfterAttempt
    <3>3. CASE IncFallback(c)
      BY <3>3 DEF IncFallback, AfterAttempt
    <3> QED
      BY <1>5, <3>1, <3>2, <3>3
  <2> QED
    BY <2>1, <1>s DEF ProgressOf
<1>6. CASE Commit(c) \/ Clear(c) \/ DeadClear(c) \/ DeadCommit(c)
  <2>1. /\ pos'[c] = pos[c] /\ cur'[c] = cur[c]
        /\ pc[c] \in {"commit", "clear", "deadClear", "deadCommit"}
        /\ pc'[c] \in {"clear", "idle", "deadCommit"}
    BY <1>6 DEF Commit, Clear, DeadClear, DeadCommit
  <2>2. cur[c] \in Settled
    BY <2>1 DEF ProgressOf
  <2> QED
    BY <2>1, <2>2, <1>s DEF ProgressOf
<1>7. CASE PublishDeadLetter(c)
  <2>1. /\ pos'[c] = pos[c] /\ cur'[c] = cur[c]
        /\ pc[c] = "dead" /\ pc'[c] = "deadClear" /\ cur[c] \in Settled'
    BY <1>7 DEF PublishDeadLetter, Settled
  <2> QED
    BY <2>1, <1>s DEF ProgressOf
<1>8. CASE DeadLetterError(c) \/ Stop(c)
  <2>1. pos'[c] = 0 /\ pc'[c] = "down"
    BY <1>8 DEF DeadLetterError, Stop, Down
  <2>2. \A o \in Offsets : ~(o < pos'[c])
    BY <2>1 DEF Offsets
  <2> QED
    BY <2>1, <2>2 DEF ProgressOf
<1> QED
  BY <1>1, <1>2, <1>3, <1>4, <1>5, <1>6, <1>7, <1>8 DEF Step

(* Every step keeps every process's Progress.                              *)
LEMMA ProgressStep ==
  TypeOK /\ NothingSkipped /\ Progress /\ [Next]_vars => Progress'
<1> SUFFICES ASSUME TypeOK, NothingSkipped, Progress, [Next]_vars,
                    NEW x \in Consumers
             PROVE  ProgressOf(x)'
  BY DEF Progress
<1>0. ProgressOf(x)
  BY DEF Progress
<1>1. ASSUME NEW c \in Consumers,
             Assign(c) \/ Fetch(c) \/ Step(c) \/ Stop(c) \/ Restart(c)
      PROVE  ProgressOf(x)'
  <2>1. CASE x = c
    BY <1>0, <1>1, <2>1, ActorProgress
  <2>2. CASE x # c
    BY <1>0, <1>1, <2>2, OnlyOwnReader, SettledGrows, OthersKeep
  <2> QED
    BY <2>1, <2>2
<1>2. CASE UNCHANGED vars
  <2>1. /\ pos'[x] = pos[x] /\ pc'[x] = pc[x] /\ cur'[x] = cur[x]
        /\ Settled \subseteq Settled'
    BY <1>2 DEF vars, Settled
  <2> QED
    BY <1>0, <2>1, OthersKeep
<1> QED
  BY <1>1, <1>2 DEF Next

(* A commit covers only settled messages: its own and those before it.     *)
LEMMA SkipStep ==
  TypeOK /\ NothingSkipped /\ Progress /\ [Next]_vars => NothingSkipped'
<1> SUFFICES ASSUME TypeOK, NothingSkipped, Progress, [Next]_vars
             PROVE  NothingSkipped'
  OBVIOUS
<1> USE DEF groupVars, outcomeVars
<1>1. ASSUME NEW c \in Consumers, Commit(c) \/ DeadCommit(c)
      PROVE  NothingSkipped'
  <2>1. /\ pc[c] \in {"commit", "deadCommit"} /\ committed' = cur[c] + 1
        /\ Settled' = Settled
    BY <1>1 DEF Commit, DeadCommit, CommitMessages, Settled
  <2>2. /\ cur[c] \in Offsets /\ cur[c] \in Settled
        /\ \A o \in Offsets : o < cur[c] => o \in Settled
    BY <2>1 DEF Progress, ProgressOf, Busy, PCs
  <2>3. \A o \in Offsets : o < committed' => o < cur[c] \/ o = cur[c]
    BY <2>1, <2>2, ConsumerAssumption DEF Offsets
  <2> QED
    BY <2>1, <2>2, <2>3 DEF NothingSkipped
<1>2. ASSUME NEW c \in Consumers,
             Assign(c) \/ Fetch(c) \/ Step(c) \/ Stop(c) \/ Restart(c),
             ~(Commit(c) \/ DeadCommit(c))
      PROVE  NothingSkipped'
  <2>1. committed' = committed
    BY <1>2 DEF Step, Assign, Fetch, Restart, HandleOK, HandleError, Inc,
         IncFallback, Clear, PublishDeadLetter, DeadClear, DeadLetterError,
         Stop
  <2> QED
    BY <1>2, <2>1, SettledGrows DEF NothingSkipped
<1>3. CASE UNCHANGED vars
  BY <1>3 DEF vars, NothingSkipped, Settled
<1> QED
  BY <1>1, <1>2, <1>3 DEF Next

(* The invariant is kept by every step.                                    *)
LEMMA IndStep == IndInv /\ [Next]_vars => IndInv'
  BY TypeStep, ProgressStep, SkipStep DEF IndInv

(* The invariant holds throughout.                                         *)
LEMMA Inductive == Spec => []IndInv
  BY IndInit, IndStep, PTL DEF Spec

(* The variables of the delivery loop keep their types; in particular the  *)
(* group offset never leaves the partition.                                *)
THEOREM TypeCorrect == Spec => []TypeOK
  BY Inductive, PTL DEF IndInv

(* At-least-once: no offset is committed past a message that was neither   *)
(* handled nor dead-lettered, whatever crashes, rebalances and late        *)
(* commits of slow processes happen.                                       *)
THEOREM AtLeastOnce == Spec => []NothingSkipped
  BY Inductive, PTL DEF IndInv

(* A process works on a message only when all earlier ones are settled.    *)
THEOREM SequentialProcessing == Spec => []InOrder
<1>1. IndInv => InOrder
  BY DEF IndInv, Progress, ProgressOf, InOrder
<1> QED
  BY <1>1, Inductive, PTL

-------------------------------------------------------------------------------
(* No early dead letter.  A failure is counted by the process that saw it, *)
(* and until then that process is at "inc": the row and the processes that *)
(* have yet to count account for no more than the real failures, and so    *)
(* does the memory of every process on its own.                            *)
Counting(o) == {c \in Consumers : pc[c] = "inc" /\ cur[c] = o}

RowsOK ==
  \A o \in Offsets : /\ IsFiniteSet(Counting(o))
                     /\ rows[o] + Cardinality(Counting(o)) <= failures[o]

MemOK ==
  \A c \in Consumers, o \in Offsets :
    mem[c][o] + (IF pc[c] = "inc" /\ cur[c] = o THEN 1 ELSE 0) <= failures[o]

(* Whoever is about to publish has a message that is not the event, or one *)
(* that failed often enough.                                               *)
DueOK ==
  \A c \in Consumers : pc[c] = "dead" =>
    cur[c] \in Mistyped \cup Garbled \/ failures[cur[c]] >= MaxAttempts

CountInv == RowsOK /\ MemOK /\ DueOK /\ NoEarlyDeadLetter

(* Nobody has failed and nothing is counted.                               *)
LEMMA CountInit == Init => CountInv
<1> SUFFICES ASSUME Init PROVE CountInv
  OBVIOUS
<1>1. \A o \in Offsets : Counting(o) = {}
  BY DEF Init, Counting
<1>2. RowsOK
  BY <1>1, FS_EmptySet DEF Init, RowsOK
<1>3. MemOK
  BY DEF Init, MemOK
<1>4. DueOK /\ NoEarlyDeadLetter
  BY DEF Init, DueOK, NoEarlyDeadLetter
<1> QED
  BY <1>2, <1>3, <1>4 DEF CountInv

(* Who has yet to count after a step of c: only c may join or leave.       *)
LEMMA CountingStep ==
  ASSUME TypeOK, TypeOK', NEW c \in Consumers, NEW o \in Offsets,
         Assign(c) \/ Fetch(c) \/ Step(c) \/ Stop(c) \/ Restart(c)
  PROVE  Counting(o)' = IF pc'[c] = "inc" /\ cur'[c] = o THEN Counting(o) \cup {c} ELSE Counting(o) \ {c}
<1>1. \A x \in Consumers \ {c} : pc'[x] = pc[x] /\ cur'[x] = cur[x]
  BY OnlyOwnReader
<1> QED
  BY <1>1 DEF Counting

(* What a step of c does to its own position and to the counters of one    *)
(* message: a failure sends c to "inc", and only there c writes the row or *)
(* its memory, once for that failure.                                      *)
Counted(c, o) ==
  \/ /\ pc[c] = "handle" /\ cur[c] = o /\ pc'[c] = "inc" /\ cur'[c] = o
     /\ failures'[o] = failures[o] + 1 /\ rows'[o] = rows[o] /\ mem'[c][o] = mem[c][o]
  \/ /\ pc[c] = "inc" /\ cur[c] = o /\ pc'[c] # "inc"
     /\ failures'[o] = failures[o]
     /\ rows'[o] <= rows[o] + 1 /\ mem'[c][o] <= mem[c][o] + 1
  \/ /\ pc'[c] = "inc" /\ cur'[c] = o <=> pc[c] = "inc" /\ cur[c] = o
     /\ failures'[o] = failures[o] /\ rows'[o] <= rows[o] /\ mem'[c][o] <= mem[c][o]

(* What a step of a process does to the counters of a message.             *)
LEMMA CountedStep ==
  ASSUME TypeOK, Progress, NEW c \in Consumers, NEW o \in Offsets,
         Assign(c) \/ Fetch(c) \/ Step(c) \/ Stop(c) \/ Restart(c)
  PROVE  Counted(c, o) /\ \A x \in Consumers \ {c} : mem'[x] = mem[x]
<1> USE DEF TypeOK, Goto, groupVars, counterVars, outcomeVars
<1>0. /\ mem \in [Consumers -> [Offsets -> Nat]]
      /\ rows[o] \in Nat /\ mem[c][o] \in Nat /\ failures[o] \in Nat
  OBVIOUS
<1>a. pc[c] \in Busy => cur[c] \in Offsets
  BY CurOffset
<1> USE DEF Busy, PCs
<1>1. CASE Assign(c) \/ Fetch(c) \/ Restart(c)
  BY <1>0, <1>1 DEF Assign, Fetch, Restart, Counted
<1>2. CASE HandleOK(c) \/ PublishDeadLetter(c) \/ Commit(c) \/ DeadCommit(c)
  BY <1>0, <1>2 DEF HandleOK, PublishDeadLetter, Commit, DeadCommit, Counted
<1>3. CASE HandleError(c)
  BY <1>0, <1>a, <1>3 DEF HandleError, Counted
<1>4. CASE Inc(c)
  <2>1. /\ pc[c] = "inc" /\ pc'[c] # "inc" /\ cur' = cur /\ mem' = mem /\ failures' = failures
        /\ rows' = [rows EXCEPT ![cur[c]] = @ + 1]
    BY <1>4 DEF Inc, AfterAttempt
  <2> QED
    BY <1>0, <1>a, <2>1 DEF Counted
<1>5. CASE IncFallback(c)
  <2>1. /\ pc[c] = "inc" /\ pc'[c] # "inc" /\ cur' = cur /\ failures' = failures
        /\ rows' = rows \/ rows' = [rows EXCEPT ![cur[c]] = @ + 1]
        /\ mem' = [mem EXCEPT ![c][cur[c]] = @ + 1]
    BY <1>5 DEF IncFallback, AfterAttempt
  <2>2. cur[c] \in Offsets
    BY <1>a, <2>1
  <2>3. rows'[o] = (IF o = cur[c] THEN rows'[o] ELSE rows[o]) /\ rows'[o] <= rows[o] + 1
    BY <1>0, <2>1, <2>2
  <2>4. mem'[c][o] = IF o = cur[c] THEN mem[c][o] + 1 ELSE mem[c][o]
    BY <1>0, <2>1, <2>2
  <2>5. \A x \in Consumers \ {c} : mem'[x] = mem[x]
    BY <1>0, <2>1
  <2> QED
    BY <1>0, <2>1, <2>3, <2>4, <2>5 DEF Counted
<1>6. CASE Clear(c) \/ DeadClear(c)
  <2>1. /\ pc[c] \in {"clear", "deadClear"} /\ pc'[c] # "inc" /\ cur' = cur /\ failures' = failures
        /\ rows' = rows \/ rows' = [rows EXCEPT ![cur[c]] = 0]
        /\ mem' = [mem EXCEPT ![c][cur[c]] = 0]
    BY <1>6 DEF Clear, DeadClear, ClearCounters
  <2>2. cur[c] \in Offsets
    BY <1>a, <2>1
  <2>3. rows'[o] <= rows[o]
    BY <1>0, <2>1, <2>2
  <2>4. mem'[c][o] = IF o = cur[c] THEN 0 ELSE mem[c][o]
    BY <1>0, <2>1, <2>2
  <2>5. \A x \in Consumers \ {c} : mem'[x] = mem[x]
    BY <1>0, <2>1
  <2> QED
    BY <1>0, <2>1, <2>3, <2>4, <2>5 DEF Counted
<1>7. CASE DeadLetterError(c) \/ Stop(c)
  <2>1. /\ pc'[c] = "down" /\ failures' = failures /\ rows' = rows
        /\ mem' = [mem EXCEPT ![c] = [k \in Offsets |-> 0]]
    BY <1>7 DEF DeadLetterError, Stop, Down
  <2>2. mem'[c][o] = 0 /\ \A x \in Consumers \ {c} : mem'[x] = mem[x]
    BY <1>0, <2>1
  <2> QED
    BY <1>0, <2>1, <2>2 DEF Counted
<1> QED
  BY <1>1, <1>2, <1>3, <1>4, <1>5, <1>6, <1>7 DEF Step

(* A process that has yet to count is one of those that account for the    *)
(* failures: the row is behind by one at least.                            *)
LEMMA Behind ==
  ASSUME TypeOK, RowsOK, NEW c \in Consumers, NEW o \in Offsets, c \in Counting(o)
  PROVE  rows[o] + 1 <= failures[o]
<1>1. IsFiniteSet(Counting(o)) /\ rows[o] + Cardinality(Counting(o)) <= failures[o]
  BY DEF RowsOK
<1>2. Cardinality(Counting(o)) \in Nat /\ Cardinality(Counting(o)) # 0
  BY <1>1, FS_CardinalityType, FS_EmptySet
<1>3. rows[o] \in Nat /\ failures[o] \in Nat
  BY DEF TypeOK
<1> DEFINE n == Cardinality(Counting(o))
<1> HIDE DEF n
<1>4. n \in Nat /\ n # 0 /\ rows[o] + n <= failures[o]
  BY <1>1, <1>2 DEF n
<1> QED
  BY <1>3, <1>4

(* The table never counts more failures of a message than there were.      *)
LEMMA RowsStep ==
  ASSUME TypeOK, TypeOK', Progress, RowsOK, NEW c \in Consumers,
         Assign(c) \/ Fetch(c) \/ Step(c) \/ Stop(c) \/ Restart(c)
  PROVE  RowsOK'
<1> SUFFICES ASSUME NEW o \in Offsets
             PROVE  /\ IsFiniteSet(Counting(o)')
                    /\ rows'[o] + Cardinality(Counting(o)') <= failures'[o]
  BY DEF RowsOK
<1> DEFINE S == Counting(o)
           joins == pc'[c] = "inc" /\ cur'[c] = o
<1>1. /\ IsFiniteSet(S) /\ rows[o] + Cardinality(S) <= failures[o]
      /\ rows[o] \in Nat /\ failures[o] \in Nat /\ rows'[o] \in Nat /\ failures'[o] \in Nat
  BY DEF RowsOK, TypeOK
<1>2. Counting(o)' = IF joins THEN S \cup {c} ELSE S \ {c}
  BY CountingStep
<1>3. c \in S <=> pc[c] = "inc" /\ cur[c] = o
  BY DEF Counting
<1>4. Cardinality(S) \in Nat
  BY <1>1, FS_CardinalityType
<1>5. Counted(c, o)
  BY CountedStep
<1> HIDE DEF S
<1>6. /\ IsFiniteSet(S \cup {c}) /\ IsFiniteSet(S \ {c})
      /\ Cardinality(S \cup {c}) = IF c \in S THEN Cardinality(S) ELSE Cardinality(S) + 1
      /\ Cardinality(S \ {c}) = IF c \in S THEN Cardinality(S) - 1 ELSE Cardinality(S)
  BY <1>1, FS_AddElement, FS_RemoveElement
<1>7. IsFiniteSet(Counting(o)')
  BY <1>2, <1>6
<1>8. CASE /\ pc[c] = "handle" /\ joins
           /\ failures'[o] = failures[o] + 1 /\ rows'[o] = rows[o]
  BY <1>1, <1>2, <1>3, <1>4, <1>6, <1>7, <1>8
<1>9. CASE /\ c \in S /\ ~joins
           /\ failures'[o] = failures[o] /\ rows'[o] <= rows[o] + 1
  BY <1>1, <1>2, <1>4, <1>6, <1>7, <1>9
<1>10. CASE /\ joins <=> c \in S
            /\ failures'[o] = failures[o] /\ rows'[o] <= rows[o]
  BY <1>1, <1>2, <1>4, <1>6, <1>7, <1>10
<1> QED
  BY <1>3, <1>5, <1>8, <1>9, <1>10 DEF Counted

(* Nor does the memory of a process.                                       *)
LEMMA MemStep ==
  ASSUME TypeOK, TypeOK', Progress, MemOK, NEW c \in Consumers,
         Assign(c) \/ Fetch(c) \/ Step(c) \/ Stop(c) \/ Restart(c)
  PROVE  MemOK'
<1> SUFFICES ASSUME NEW x \in Consumers, NEW o \in Offsets
             PROVE  mem'[x][o] + (IF pc'[x] = "inc" /\ cur'[x] = o THEN 1 ELSE 0) <= failures'[o]
  BY DEF MemOK
<1>1. /\ mem[x][o] \in Nat /\ mem'[x][o] \in Nat /\ failures[o] \in Nat /\ failures'[o] \in Nat
      /\ mem[x][o] + (IF pc[x] = "inc" /\ cur[x] = o THEN 1 ELSE 0) <= failures[o]
  BY DEF TypeOK, MemOK
<1>2. Counted(c, o) /\ \A y \in Consumers \ {c} : mem'[y] = mem[y]
  BY CountedStep
<1>3. CASE x = c
  BY <1>1, <1>2, <1>3 DEF Counted
<1>4. CASE x # c
  <2>1. mem'[x] = mem[x] /\ pc'[x] = pc[x] /\ cur'[x] = cur[x]
    BY <1>2, <1>4, OnlyOwnReader
  <2>2. failures'[o] >= failures[o]
    BY <1>1, <1>2 DEF Counted
  <2> QED
    BY <1>1, <2>1, <2>2
<1> QED
  BY <1>3, <1>4

(* A message is due for the dead-letter topic for a counter that reached   *)
(* the limit: the row, or the memory of the process.                       *)
LEMMA DueStep ==
  ASSUME TypeOK, TypeOK', Progress, RowsOK, MemOK, DueOK, NEW c \in Consumers,
         Assign(c) \/ Fetch(c) \/ Step(c) \/ Stop(c) \/ Restart(c)
  PROVE  DueOK'
<1> SUFFICES ASSUME NEW x \in Consumers, pc'[x] = "dead"
             PROVE  cur'[x] \in Mistyped \cup Garbled \/ failures'[cur'[x]] >= MaxAttempts
  BY DEF DueOK
<1>0. \A o \in Offsets : failures[o] \in Nat /\ failures'[o] \in Nat /\ rows[o] \in Nat /\ mem[c][o] \in Nat
  BY DEF TypeOK
<1>1. \A o \in Offsets : failures'[o] >= failures[o]
  BY <1>0, CountedStep DEF Counted
<1>2. ASSUME pc[x] = "dead", cur'[x] = cur[x]
      PROVE  cur'[x] \in Mistyped \cup Garbled \/ failures'[cur'[x]] >= MaxAttempts
  <2>1. cur[x] \in Offsets
    BY <1>2, CurOffset DEF Busy, PCs
  <2> QED
    BY <1>0, <1>1, <1>2, <2>1, ConsumerAssumption DEF DueOK
<1>3. CASE x # c
  BY <1>2, <1>3, OnlyOwnReader
<1>4. CASE x = c
  <2> USE DEF Goto, groupVars, outcomeVars, TypeOK
  <2>1. CASE Assign(c)
    BY <1>2, <1>4, <2>1 DEF Assign
  <2>2. CASE Fetch(c)
    BY <1>4, <2>2 DEF Fetch
  <2>3. CASE Inc(c)
    <3>1. /\ pc[c] = "inc" /\ cur' = cur /\ failures' = failures
          /\ rows[cur[c]] + 1 >= MaxAttempts
      BY <1>4, <2>3 DEF Inc, AfterAttempt
    <3>2. cur[c] \in Offsets
      BY <3>1, CurOffset DEF Busy, PCs
    <3>3. rows[cur[c]] + 1 <= failures[cur[c]]
      BY <3>1, <3>2, Behind DEF Counting
    <3> QED
      BY <1>0, <1>4, <3>1, <3>2, <3>3, ConsumerAssumption
  <2>4. CASE IncFallback(c)
    <3>1. /\ pc[c] = "inc" /\ cur' = cur /\ failures' = failures
          /\ mem[c][cur[c]] + 1 >= MaxAttempts
      BY <1>4, <2>4 DEF IncFallback, AfterAttempt
    <3>2. cur[c] \in Offsets
      BY <3>1, CurOffset DEF Busy, PCs
    <3>3. mem[c][cur[c]] + 1 <= failures[cur[c]]
      BY <3>1, <3>2 DEF MemOK
    <3> QED
      BY <1>0, <1>4, <3>1, <3>2, <3>3, ConsumerAssumption
  <2>5. CASE HandleOK(c) \/ HandleError(c) \/ Commit(c) \/ Clear(c) \/ DeadClear(c) \/ DeadCommit(c)
    BY <1>4, <2>5 DEF HandleOK, HandleError, Commit, Clear, DeadClear, DeadCommit
  <2>6. CASE PublishDeadLetter(c) \/ DeadLetterError(c) \/ Stop(c) \/ Restart(c)
    BY <1>4, <2>6 DEF PublishDeadLetter, DeadLetterError, Stop, Down, Restart
  <2> QED
    BY <2>1, <2>2, <2>3, <2>4, <2>5, <2>6 DEF Step
<1> QED
  BY <1>3, <1>4

(* Only a message that is due is published to the dead-letter topic.       *)
LEMMA EarlyStep ==
  ASSUME TypeOK, TypeOK', Progress, DueOK, NoEarlyDeadLetter, NEW c \in Consumers,
         Assign(c) \/ Fetch(c) \/ Step(c) \/ Stop(c) \/ Restart(c)
  PROVE  NoEarlyDeadLetter'
<1>0. \A o \in Offsets : failures[o] \in Nat /\ failures'[o] \in Nat
  BY DEF TypeOK
<1>1. \A o \in Offsets : failures'[o] >= failures[o]
  BY <1>0, CountedStep DEF Counted
<1>2. ASSUME NEW o \in dead
      PROVE  o \in Mistyped \/ failures'[o] >= MaxAttempts
  BY <1>0, <1>1, <1>2, ConsumerAssumption DEF NoEarlyDeadLetter, TypeOK
<1>3. CASE PublishDeadLetter(c)
  <2>1. /\ pc[c] = "dead" /\ cur[c] \notin Garbled /\ dead' = dead \cup {cur[c]}
        /\ failures' = failures
    BY <1>3 DEF PublishDeadLetter
  <2> QED
    BY <1>2, <2>1 DEF DueOK, NoEarlyDeadLetter
<1>4. CASE ~PublishDeadLetter(c)
  <2>1. dead' = dead
    BY <1>4 DEF Step, Assign, Fetch, Restart, HandleOK, HandleError, Inc, IncFallback, Commit,
                Clear, DeadClear, DeadCommit, DeadLetterError, Stop, outcomeVars
  <2> QED
    BY <1>2, <2>1 DEF NoEarlyDeadLetter
<1> QED
  BY <1>3, <1>4

(* The invariant about the counters is inductive.                          *)
LEMMA CountStep == TypeOK /\ TypeOK' /\ Progress /\ CountInv /\ [Next]_vars => CountInv'
<1> SUFFICES ASSUME TypeOK, TypeOK', Progress, CountInv, [Next]_vars PROVE CountInv'
  OBVIOUS
<1>1. ASSUME NEW c \in Consumers,
             Assign(c) \/ Fetch(c) \/ Step(c) \/ Stop(c) \/ Restart(c)
      PROVE  CountInv'
  <2>0. RowsOK /\ MemOK /\ DueOK /\ NoEarlyDeadLetter
    BY DEF CountInv
  <2>1. RowsOK'
    BY <1>1, <2>0, RowsStep, Zenon
  <2>2. MemOK'
    BY <1>1, <2>0, MemStep, Zenon
  <2>3. DueOK'
    BY <1>1, <2>0, DueStep, Zenon
  <2>4. NoEarlyDeadLetter'
    BY <1>1, <2>0, EarlyStep, Zenon
  <2> QED
    BY <2>1, <2>2, <2>3, <2>4 DEF CountInv
<1>2. CASE UNCHANGED vars
  BY <1>2 DEF vars, CountInv, RowsOK, MemOK, DueOK, NoEarlyDeadLetter, Counting
<1> QED
  BY <1>1, <1>2 DEF Next

(* A message is dead-lettered only after MaxAttempts real failures, or     *)
(* because it is not the event, although processes count the failures of a *)
(* message that others retry too, in the table or in their own memory.     *)
THEOREM DeadLettersAreDue == Spec => []NoEarlyDeadLetter
<1>1. IndInv /\ CountInv /\ [Next]_vars => (IndInv /\ CountInv)'
  BY IndStep, CountStep DEF IndInv
<1>2. Init => IndInv /\ CountInv
  BY IndInit, CountInit
<1>3. CountInv => NoEarlyDeadLetter
  BY DEF CountInv
<1> QED
  BY <1>1, <1>2, <1>3, PTL DEF Spec
-------------------------------------------------------------------------------
(* Retries.  A message is read again only if somebody paid for it with a   *)
(* stop or a move; each reading costs one call beside the retries that the *)
(* counter allows, and clears the counter at most once.                    *)
Acts(c) == Assign(c) \/ Fetch(c) \/ Step(c) \/ Stop(c) \/ Restart(c)

(* A process with one of these has read a message and not committed it.    *)
Uncommitted == {"handle", "inc", "commit", "dead", "deadClear", "deadCommit"}

(* It has the partition and read its message in this assignment.           *)
InTurn(c) == c = assigned /\ pos[c] = cur[c] + 1

(* The processes whose commit may set the group back to o or before it.    *)
Stale(o) ==
  {c \in Consumers : pc[c] \in Uncommitted /\ cur[c] < o /\ ~InTurn(c)}

(* The commit that the holder of the partition owes will get past o.       *)
WillPass(o) == /\ pc[assigned] \in Uncommitted
               /\ cur[assigned] >= o
               /\ cur[assigned] \notin Garbled

(* The partition is read from o or before it, or will be as soon as its    *)
(* holder ends, even if that costs nothing (a garbled message).            *)
Again(o) == IF assigned = NoConsumer THEN committed <= o
            ELSE pos[assigned] <= o \/ (committed <= o /\ ~WillPass(o))

(* Readings of o to come that nobody has to pay for any more, and how many *)
(* there can have been so far.                                             *)
Owed(o) == Cardinality(Stale(o)) + (IF Again(o) THEN 1 ELSE 0)

Readings(o) == 1 + stops + moves - Owed(o)

(* The processes that are to call the handler with o, and those that read  *)
(* o and may still clear its counter.                                      *)
Calling(o) == {c \in Consumers : pc[c] = "handle" /\ cur[c] = o}

Clearing(o) ==
  {c \in Consumers : /\ cur[c] = o
                     /\ pc[c] \in {"handle", "inc", "commit", "clear", "dead", "deadClear"}}

(* What every life of a counter is worth.                                  *)
Worth(o) == (MaxAttempts - 1) * resets[o]

(* The failures that the table remembers, below the limit.                 *)
Remembered(o) == IF rows[o] < MaxAttempts THEN rows[o] ELSE MaxAttempts - 1

(* Failures and calls under way are paid for by the lives that a counter   *)
(* has had, what the table remembers of the present one, the readings and  *)
(* the failures of the table; every cleared counter by a reading.  A       *)
(* counter is cleared for a settled message, and what is not a message is  *)
(* never handled.                                                          *)
PaidOK ==
  \A o \in Offsets \ Garbled :
    /\ IsFiniteSet(Stale(o)) /\ IsFiniteSet(Calling(o)) /\ IsFiniteSet(Clearing(o))
    /\ failures[o] + Cardinality(Calling(o))
         <= Worth(o) + Remembered(o) + Readings(o) + blips
    /\ resets[o] + Cardinality(Clearing(o)) <= Readings(o)

EarnedOK == \A o \in Offsets : o \in Settled \/ resets[o] = 0

UnreadOK ==
  /\ \A o \in Garbled : failures[o] = 0 /\ resets[o] = 0
  /\ \A c \in Consumers : pc[c] \notin {"down", "idle", "dead"} => cur[c] \notin Garbled

RetryInv == PaidOK /\ EarnedOK /\ UnreadOK

(* Arithmetic of the retry limit.                                          *)
LEMMA Times ==
  ASSUME NEW m \in Nat, NEW a \in Int, NEW b \in Int
  PROVE  /\ m * a \in Int
         /\ m * (a + 1) = m * a + m
         /\ m * (a - 1) = m * a - m
         /\ a <= b => m * a <= m * b
  OBVIOUS

(* The numbers of the invariant.                                           *)
LEMMA RetryTypes ==
  ASSUME TypeOK, NEW o \in Offsets, IsFiniteSet(Stale(o))
  PROVE  /\ MaxAttempts \in Nat /\ MaxAttempts >= 1
         /\ failures[o] \in Nat /\ rows[o] \in Nat
         /\ stops \in Nat /\ moves \in Nat /\ blips \in Nat
         /\ Remembered(o) \in Nat /\ Remembered(o) <= MaxAttempts - 1
         /\ Cardinality(Stale(o)) \in Nat /\ Owed(o) \in Nat
         /\ Readings(o) \in Int /\ Readings(o) <= 1 + stops + moves
<1>1. /\ MaxAttempts \in Nat /\ MaxAttempts >= 1
      /\ failures[o] \in Nat /\ rows[o] \in Nat
      /\ stops \in Nat /\ moves \in Nat /\ blips \in Nat
  BY ConsumerAssumption DEF TypeOK
<1>2. Remembered(o) \in Nat /\ Remembered(o) <= MaxAttempts - 1
  BY <1>1 DEF Remembered
<1>3. Cardinality(Stale(o)) \in Nat
  BY FS_CardinalityType
<1>4. Owed(o) \in Nat
  BY <1>3 DEF Owed
<1> QED
  BY <1>1, <1>2, <1>3, <1>4 DEF Readings

(* A finite set that only c may join or leave.                             *)
LEMMA OneElement ==
  ASSUME NEW S, NEW T, NEW c, IsFiniteSet(S),
         T = S \cup {c} \/ T = S \ {c}
  PROVE  /\ IsFiniteSet(T)
         /\ Cardinality(S) \in Nat /\ Cardinality(T) \in Nat
         /\ c \in S /\ c \notin T => Cardinality(T) = Cardinality(S) - 1
         /\ c \notin S /\ c \in T => Cardinality(T) = Cardinality(S) + 1
         /\ (c \in S <=> c \in T) => Cardinality(T) = Cardinality(S)
<1>1. CASE T = S \cup {c}
  BY <1>1, FS_AddElement, FS_CardinalityType
<1>2. CASE T = S \ {c}
  BY <1>2, FS_RemoveElement, FS_CardinalityType
<1> QED
  BY <1>1, <1>2

(* What a step of c does to the group: how a message in progress may be    *)
(* committed, and who has the partition.                                   *)
LEMMA GroupStep ==
  ASSUME TypeOK, Progress, NEW c \in Consumers, Acts(c)
  PROVE  \/ /\ UNCHANGED <<committed, assigned, pos, cur, stops, moves>>
            /\ pc[c] \in Uncommitted <=> pc'[c] \in Uncommitted
         \/ /\ pc[c] \in Uncommitted /\ pc'[c] \notin Uncommitted
            /\ committed' = cur[c] + 1
            /\ UNCHANGED <<assigned, pos, cur, stops, moves>>
         \/ Fetch(c) \/ Assign(c) \/ Stop(c) \/ DeadLetterError(c)
<1> USE DEF groupVars, counterVars, outcomeVars, budgetVars, Goto, Uncommitted, TypeOK
<1>1. CASE HandleOK(c) \/ HandleError(c) \/ PublishDeadLetter(c) \/ Restart(c)
  BY <1>1 DEF HandleOK, HandleError, PublishDeadLetter, Restart
<1>2. CASE Inc(c) \/ IncFallback(c)
  BY <1>2 DEF Inc, IncFallback, AfterAttempt
<1>3. CASE Clear(c) \/ DeadClear(c)
  BY <1>3 DEF Clear, DeadClear
<1>4. CASE Commit(c) \/ DeadCommit(c)
  BY <1>4 DEF Commit, DeadCommit, CommitMessages
<1> QED
  BY <1>1, <1>2, <1>3, <1>4 DEF Acts, Step

(* A commit pays back one reading, or sets the group back no further than  *)
(* it was.                                                                 *)
LEMMA OwedCommit ==
  ASSUME TypeOK, Progress, NEW c \in Consumers, NEW o \in Offsets,
         IsFiniteSet(Stale(o)),
         \A x \in Consumers \ {c} : pc'[x] = pc[x],
         pc[c] \in Uncommitted, pc'[c] \notin Uncommitted,
         committed' = cur[c] + 1, UNCHANGED <<assigned, pos, cur>>
  PROVE  IsFiniteSet(Stale(o)') /\ Owed(o)' <= Owed(o)
<1>1. Stale(o)' = Stale(o) \ {c}
  BY DEF Stale, InTurn
<1>2. o \in Int /\ cur[c] \in Nat /\ c # NoConsumer
  BY ConsumerAssumption DEF TypeOK, Offsets
<1>3. CASE c \in Stale(o)
  <2>1. /\ IsFiniteSet(Stale(o)') /\ Cardinality(Stale(o)) \in Nat
        /\ Cardinality(Stale(o)') = Cardinality(Stale(o)) - 1
    BY <1>1, <1>3, OneElement
  <2> QED
    BY <2>1 DEF Owed
<1>4. CASE c \notin Stale(o)
  <2>1. /\ IsFiniteSet(Stale(o)') /\ Cardinality(Stale(o)) \in Nat
        /\ Cardinality(Stale(o)') = Cardinality(Stale(o))
    BY <1>1, <1>4, OneElement
  <2>2. cur[c] >= o \/ InTurn(c)
    BY <1>2, <1>4 DEF Stale
  <2>3. Again(o)' => Again(o)
    <3>1. CASE cur[c] >= o
      <4>1. ~(committed' <= o)
        BY <1>2, <3>1
      <4> QED
        BY <4>1 DEF Again
    <3>2. CASE InTurn(c) /\ ~(cur[c] >= o)
      <4>1. assigned # NoConsumer /\ pos[assigned] <= o
        BY <1>2, <3>2 DEF InTurn
      <4> QED
        BY <4>1 DEF Again
    <3> QED
      BY <2>2, <3>1, <3>2
  <2> QED
    BY <2>1, <2>3 DEF Owed
<1> QED
  BY <1>3, <1>4

(* Reading o uses up a reading; reading another message costs nothing.     *)
LEMMA OwedFetch ==
  ASSUME TypeOK, NEW c \in Consumers, NEW o \in Offsets \ Garbled,
         IsFiniteSet(Stale(o)), Fetch(c),
         \A x \in Consumers \ {c} :
           pc'[x] = pc[x] /\ cur'[x] = cur[x] /\ pos'[x] = pos[x]
  PROVE  /\ IsFiniteSet(Stale(o)') /\ Owed(o)' <= Owed(o)
         /\ pos[c] = o => Owed(o)' <= Owed(o) - 1
<1>1. /\ pc[c] = "idle" /\ assigned = c /\ assigned' = c /\ committed' = committed
      /\ cur'[c] = pos[c] /\ pos'[c] = pos[c] + 1
      /\ pc'[c] \in {"handle", "dead"}
  BY DEF Fetch, TypeOK, Goto
<1>2. c # NoConsumer /\ o \in Int /\ pos[c] \in Int /\ committed \in Int
  BY ConsumerAssumption DEF TypeOK, Offsets
<1>3. Stale(o)' = Stale(o)
  BY <1>1 DEF Stale, InTurn, Uncommitted
<1>4. Cardinality(Stale(o)) \in Nat
  BY FS_CardinalityType
<1>5. Again(o) <=> pos[c] <= o \/ committed <= o
  BY <1>1, <1>2 DEF Again, WillPass, Uncommitted
<1>6. Again(o)' => pos[c] + 1 <= o \/ (committed <= o /\ pos[c] # o)
  BY <1>1, <1>2 DEF Again, WillPass, Uncommitted
<1> QED
  BY <1>2, <1>3, <1>4, <1>5, <1>6 DEF Owed

(* A rebalance costs one reading, unless nobody had the partition.         *)
LEMMA OwedAssign ==
  ASSUME TypeOK, NEW c \in Consumers, NEW o \in Offsets,
         IsFiniteSet(Stale(o)), Assign(c)
  PROVE  /\ IsFiniteSet(Stale(o)')
         /\ Owed(o)' <= Owed(o) + (moves' - moves)
<1>1. /\ UNCHANGED <<committed, cur, pc>> /\ assigned' = c
      /\ pos' = [pos EXCEPT ![c] = committed]
      /\ \/ assigned = NoConsumer /\ moves' = moves
         \/ assigned # NoConsumer /\ moves' = moves + 1
  BY DEF Assign
<1>2. /\ NoConsumer \notin Consumers
      /\ c # NoConsumer /\ o \in Int /\ committed \in Int /\ moves \in Int
      /\ pos'[c] = committed /\ \A x \in Consumers \ {c} : pos'[x] = pos[x]
  BY <1>1, ConsumerAssumption DEF TypeOK, Offsets
<1>3. Again(o)' <=> committed <= o
  BY <1>1, <1>2 DEF Again
<1>4. Cardinality(Stale(o)) \in Nat
  BY FS_CardinalityType
<1>5. CASE assigned = NoConsumer
  <2>1. Stale(o)' \subseteq Stale(o)
    BY <1>1, <1>2, <1>5 DEF Stale, InTurn
  <2>2. /\ IsFiniteSet(Stale(o)') /\ Cardinality(Stale(o)') \in Nat
        /\ Cardinality(Stale(o)') <= Cardinality(Stale(o))
    BY <2>1, FS_Subset, FS_CardinalityType
  <2>3. Again(o) <=> committed <= o
    BY <1>5 DEF Again
  <2> QED
    BY <1>1, <1>2, <1>3, <1>4, <1>5, <2>2, <2>3 DEF Owed
<1>6. CASE assigned # NoConsumer
  <2>1. Stale(o)' \subseteq Stale(o) \cup {assigned}
    BY <1>1, <1>2 DEF Stale, InTurn
  <2>2. CASE assigned \in Stale(o)' /\ assigned \notin Stale(o)
    <3>1. /\ pc[assigned] \in Uncommitted /\ cur[assigned] < o
          /\ InTurn(assigned)
      BY <1>1, <2>2 DEF Stale
    <3>2. cur[assigned] \in Nat /\ assigned \in Consumers
      BY <1>6 DEF TypeOK
    <3>3. pos[assigned] <= o
      BY <1>2, <3>1, <3>2 DEF InTurn
    <3>4. Again(o)
      BY <1>6, <3>3 DEF Again
    <3>5. /\ IsFiniteSet(Stale(o) \cup {assigned})
          /\ Cardinality(Stale(o) \cup {assigned}) = Cardinality(Stale(o)) + 1
      BY <2>2, FS_AddElement
    <3>6. /\ IsFiniteSet(Stale(o)') /\ Cardinality(Stale(o)') \in Nat
          /\ Cardinality(Stale(o)') <= Cardinality(Stale(o)) + 1
      BY <2>1, <3>5, FS_Subset, FS_CardinalityType
    <3> QED
      BY <1>1, <1>2, <1>4, <1>6, <3>4, <3>6 DEF Owed
  <2>3. CASE ~(assigned \in Stale(o)' /\ assigned \notin Stale(o))
    <3>1. Stale(o)' \subseteq Stale(o)
      BY <2>1, <2>3
    <3>2. /\ IsFiniteSet(Stale(o)') /\ Cardinality(Stale(o)') \in Nat
          /\ Cardinality(Stale(o)') <= Cardinality(Stale(o))
      BY <3>1, FS_Subset, FS_CardinalityType
    <3> QED
      BY <1>1, <1>2, <1>4, <1>6, <3>2 DEF Owed
  <2> QED
    BY <2>2, <2>3
<1> QED
  BY <1>5, <1>6

(* The end of a process costs one reading at most; that of the holder of   *)
(* the partition at a garbled message costs none.                          *)
LEMMA OwedDown ==
  ASSUME TypeOK, NEW c \in Consumers, NEW o \in Offsets,
         IsFiniteSet(Stale(o)), Down(c), committed' = committed
  PROVE  /\ IsFiniteSet(Stale(o)')
         /\ Owed(o)' <= Owed(o) + 1
         /\ cur[c] \in Garbled => Owed(o)' <= Owed(o)
<1>1. /\ pc'[c] = "down"
      /\ \A x \in Consumers \ {c} :
           pc'[x] = pc[x] /\ cur'[x] = cur[x] /\ pos'[x] = pos[x]
      /\ assigned' = IF assigned = c THEN NoConsumer ELSE assigned
  BY DEF Down, Goto, TypeOK
<1>2. c # NoConsumer /\ assigned \in Consumers \cup {NoConsumer}
      /\ NoConsumer \notin Consumers
  BY ConsumerAssumption DEF TypeOK
<1>3. Stale(o)' = Stale(o) \ {c}
  BY <1>1, <1>2 DEF Stale, InTurn, Uncommitted
<1>4. /\ IsFiniteSet(Stale(o)') /\ Cardinality(Stale(o)') \in Nat
      /\ Cardinality(Stale(o)) \in Nat
      /\ Cardinality(Stale(o)') <= Cardinality(Stale(o))
  BY <1>3, OneElement
<1>5. cur[c] \in Garbled /\ Again(o)' => Again(o)
  <2>1. CASE assigned = c
    BY <1>1, <1>2, <2>1 DEF Again, WillPass
  <2>2. CASE assigned = NoConsumer
    BY <1>1, <1>2, <2>2 DEF Again
  <2>3. CASE assigned \in Consumers \ {c}
    BY <1>1, <1>2, <2>3 DEF Again, WillPass
  <2> QED
    BY <1>2, <2>1, <2>2, <2>3
<1> QED
  BY <1>4, <1>5 DEF Owed

(* Every reading is paid for.                                              *)
LEMMA ReadingsStep ==
  ASSUME TypeOK, TypeOK', Progress, NEW c \in Consumers, Acts(c),
         NEW o \in Offsets \ Garbled, IsFiniteSet(Stale(o))
  PROVE  /\ IsFiniteSet(Stale(o)')
         /\ Readings(o)' >= Readings(o)
         /\ Fetch(c) /\ pos[c] = o => Readings(o)' >= Readings(o) + 1
<1>1. \A x \in Consumers \ {c} :
        pc'[x] = pc[x] /\ cur'[x] = cur[x] /\ pos'[x] = pos[x]
  BY OnlyOwnReader DEF Acts
<1>2. /\ stops \in Int /\ moves \in Int /\ stops' \in Int /\ moves' \in Int
      /\ Owed(o) \in Int
  BY RetryTypes DEF TypeOK
<1> DEFINE Goal == /\ IsFiniteSet(Stale(o)')
                   /\ Readings(o)' >= Readings(o)
                   /\ Fetch(c) /\ pos[c] = o => Readings(o)' >= Readings(o) + 1
<1>3. ASSUME IsFiniteSet(Stale(o)'), ~Fetch(c),
             Owed(o)' <= Owed(o) + (stops' - stops) + (moves' - moves)
      PROVE  Goal
  <2>1. Owed(o)' \in Int
    BY <1>3, RetryTypes, FS_CardinalityType DEF Owed
  <2> QED
    BY <1>2, <1>3, <2>1 DEF Readings
<1>4. CASE Fetch(c)
  <2>1. /\ IsFiniteSet(Stale(o)') /\ Owed(o)' <= Owed(o)
        /\ pos[c] = o => Owed(o)' <= Owed(o) - 1
    BY <1>1, <1>4, OwedFetch
  <2>2. Owed(o)' \in Int
    BY <2>1, FS_CardinalityType DEF Owed
  <2>3. stops' = stops /\ moves' = moves
    BY <1>4 DEF Fetch, budgetVars
  <2> QED
    BY <1>2, <2>1, <2>2, <2>3 DEF Readings
<1>5. CASE Assign(c)
  <2>1. ~Fetch(c)
    BY <1>5 DEF Assign, Fetch, Goto, TypeOK
  <2>2. stops' = stops
    BY <1>5 DEF Assign
  <2> QED
    BY <1>2, <1>3, <1>5, <2>1, <2>2, OwedAssign
<1>6. CASE Stop(c)
  <2>1. Down(c) /\ committed' = committed /\ stops' = stops + 1 /\ moves' = moves
    BY <1>6 DEF Stop
  <2>2. ~Fetch(c)
    BY <2>1 DEF Down, Fetch, Goto, TypeOK
  <2> QED
    BY <1>2, <1>3, <2>1, <2>2, OwedDown
<1>7. CASE DeadLetterError(c)
  <2>1. /\ Down(c) /\ committed' = committed /\ cur[c] \in Garbled
        /\ stops' = stops /\ moves' = moves /\ pc[c] = "dead"
    BY <1>7 DEF DeadLetterError, budgetVars
  <2>2. ~Fetch(c)
    BY <2>1 DEF Fetch
  <2> QED
    BY <1>2, <1>3, <2>1, <2>2, OwedDown
<1>8. CASE /\ UNCHANGED <<committed, assigned, pos, cur, stops, moves>>
           /\ pc[c] \in Uncommitted <=> pc'[c] \in Uncommitted
           /\ ~Fetch(c)
  <2>1. \A x \in Consumers : pc[x] \in Uncommitted <=> pc'[x] \in Uncommitted
    BY <1>1, <1>8
  <2>2. Stale(o)' = Stale(o)
    BY <1>8, <2>1 DEF Stale, InTurn
  <2>3. assigned \in Consumers \cup {NoConsumer}
    BY DEF TypeOK
  <2>4. Again(o)' <=> Again(o)
    BY <1>8, <2>1, <2>3 DEF Again, WillPass
  <2>5. Owed(o)' = Owed(o)
    BY <2>2, <2>4 DEF Owed
  <2> QED
    BY <1>2, <1>3, <1>8, <2>2, <2>5
<1>9. CASE /\ pc[c] \in Uncommitted /\ pc'[c] \notin Uncommitted
           /\ committed' = cur[c] + 1
           /\ UNCHANGED <<assigned, pos, cur, stops, moves>>
  <2>1. ~Fetch(c)
    BY <1>9 DEF Fetch, Uncommitted
  <2> QED
    BY <1>1, <1>2, <1>3, <1>9, <2>1, OwedCommit
<1> QED
  BY <1>4, <1>5, <1>6, <1>7, <1>8, <1>9, GroupStep

(* The sets of the invariant change by the process that moves.             *)
LEMMA SetsStep ==
  ASSUME TypeOK, TypeOK', NEW c \in Consumers, Acts(c), NEW o \in Offsets,
         IsFiniteSet(Calling(o)), IsFiniteSet(Clearing(o))
  PROVE  /\ IsFiniteSet(Calling(o)') /\ IsFiniteSet(Clearing(o)')
         /\ Cardinality(Calling(o)) \in Nat /\ Cardinality(Clearing(o)) \in Nat
         /\ Cardinality(Calling(o)') =
              Cardinality(Calling(o)) - (IF c \in Calling(o) THEN 1 ELSE 0)
                                      + (IF c \in Calling(o)' THEN 1 ELSE 0)
         /\ Cardinality(Clearing(o)') =
              Cardinality(Clearing(o)) - (IF c \in Clearing(o) THEN 1 ELSE 0)
                                       + (IF c \in Clearing(o)' THEN 1 ELSE 0)
<1>1. \A x \in Consumers \ {c} : pc'[x] = pc[x] /\ cur'[x] = cur[x]
  BY OnlyOwnReader DEF Acts
<1>2. Calling(o)' = Calling(o) \cup {c} \/ Calling(o)' = Calling(o) \ {c}
  BY <1>1 DEF Calling
<1>3. Clearing(o)' = Clearing(o) \cup {c} \/ Clearing(o)' = Clearing(o) \ {c}
  BY <1>1 DEF Clearing
<1>4. /\ IsFiniteSet(Calling(o)') /\ Cardinality(Calling(o)) \in Nat
      /\ c \in Calling(o) /\ c \notin Calling(o)'
           => Cardinality(Calling(o)') = Cardinality(Calling(o)) - 1
      /\ c \notin Calling(o) /\ c \in Calling(o)'
           => Cardinality(Calling(o)') = Cardinality(Calling(o)) + 1
      /\ (c \in Calling(o) <=> c \in Calling(o)')
           => Cardinality(Calling(o)') = Cardinality(Calling(o))
  BY <1>2, OneElement
<1>5. /\ IsFiniteSet(Clearing(o)') /\ Cardinality(Clearing(o)) \in Nat
      /\ c \in Clearing(o) /\ c \notin Clearing(o)'
           => Cardinality(Clearing(o)') = Cardinality(Clearing(o)) - 1
      /\ c \notin Clearing(o) /\ c \in Clearing(o)'
           => Cardinality(Clearing(o)') = Cardinality(Clearing(o)) + 1
      /\ (c \in Clearing(o) <=> c \in Clearing(o)')
           => Cardinality(Clearing(o)') = Cardinality(Clearing(o))
  BY <1>3, OneElement
<1> QED
  BY <1>4, <1>5

(* What a step of c does to the account of o, where h says whether c is to *)
(* call the handler with o and k whether it may still clear the counter:   *)
(* it reads o; it fails, counts or leaves; or it clears the counter.       *)
Reads(c, o) ==
  /\ Fetch(c) /\ pos[c] = o
  /\ failures'[o] = failures[o] /\ resets'[o] = resets[o]
  /\ rows'[o] = rows[o] /\ blips' = blips
  /\ c \notin Calling(o) /\ c \notin Clearing(o)

Counts(c, o) ==
  /\ resets'[o] = resets[o]
  /\ c \in Clearing(o)' => c \in Clearing(o)
  /\ failures'[o] + (IF c \in Calling(o)' THEN 1 ELSE 0) + Remembered(o) + blips
       <= failures[o] + (IF c \in Calling(o) THEN 1 ELSE 0) + Remembered(o)' + blips'

Clears(c, o) ==
  /\ resets'[o] = resets[o] + 1
  /\ c \in Clearing(o) /\ c \notin Clearing(o)' /\ c \notin Calling(o)'
  /\ failures'[o] = failures[o] /\ blips' = blips

LEMMA CostStep ==
  ASSUME TypeOK, TypeOK', Progress, NEW c \in Consumers, Acts(c), NEW o \in Offsets
  PROVE  Reads(c, o) \/ Counts(c, o) \/ Clears(c, o)
<1>0. /\ MaxAttempts \in Nat /\ MaxAttempts >= 1
      /\ failures[o] \in Nat /\ rows[o] \in Nat /\ blips \in Nat /\ resets[o] \in Nat
      /\ failures'[o] \in Nat /\ rows'[o] \in Nat /\ blips' \in Nat
      /\ pc \in [Consumers -> PCs] /\ cur \in [Consumers -> Nat]
      /\ pos \in [Consumers -> 0 .. Length]
      /\ rows \in [Offsets -> Nat] /\ failures \in [Offsets -> Nat]
      /\ resets \in [Offsets -> Nat]
  BY ConsumerAssumption DEF TypeOK
<1>a. pc[c] \in Busy => cur[c] \in Offsets
  BY CurOffset
<1>b. /\ rows' = rows => Remembered(o)' = Remembered(o)
      /\ Remembered(o) \in Nat /\ Remembered(o)' \in Nat
      /\ rows'[o] >= rows[o] => Remembered(o)' >= Remembered(o)
      /\ rows'[o] = rows[o] + 1 /\ rows[o] + 1 < MaxAttempts
           => Remembered(o)' = Remembered(o) + 1
  BY <1>0 DEF Remembered
<1>c. ASSUME failures' = failures, rows' = rows, resets' = resets, blips' = blips,
             c \in Calling(o)' => c \in Calling(o),
             c \in Clearing(o)' => c \in Clearing(o)
      PROVE  Counts(c, o)
  BY <1>0, <1>b, <1>c DEF Counts
<1>1. CASE HandleOK(c) \/ PublishDeadLetter(c) \/ Commit(c)
  <2>1. /\ failures' = failures /\ rows' = rows /\ resets' = resets /\ blips' = blips
        /\ cur' = cur /\ pc[c] \in {"handle", "dead", "commit"}
        /\ pc'[c] \in {"commit", "deadClear", "clear"}
    BY <1>0, <1>1 DEF HandleOK, PublishDeadLetter, Commit, counterVars,
                      outcomeVars, budgetVars, Goto
  <2> QED
    BY <1>c, <2>1 DEF Calling, Clearing
<1>2. CASE Assign(c) \/ Restart(c) \/ DeadCommit(c)
  <2>1. /\ failures' = failures /\ rows' = rows /\ resets' = resets /\ blips' = blips
        /\ cur' = cur /\ pc'[c] \in {pc[c], "idle"}
    BY <1>0, <1>2 DEF Assign, Restart, DeadCommit, counterVars,
                      outcomeVars, budgetVars, Goto
  <2> QED
    BY <1>c, <2>1 DEF Calling, Clearing
<1>3. CASE Fetch(c)
  <2>1. /\ failures' = failures /\ rows' = rows /\ resets' = resets /\ blips' = blips
        /\ pc[c] = "idle" /\ cur'[c] = pos[c]
    BY <1>0, <1>3 DEF Fetch, counterVars, outcomeVars, budgetVars, Goto
  <2>2. c \notin Calling(o) /\ c \notin Clearing(o)
    BY <2>1 DEF Calling, Clearing
  <2>3. pos[c] # o => c \notin Calling(o)' /\ c \notin Clearing(o)'
    BY <2>1 DEF Calling, Clearing
  <2> QED
    BY <1>3, <1>c, <2>1, <2>2, <2>3 DEF Reads
<1>4. CASE HandleError(c)
  <2>1. /\ pc[c] = "handle" /\ pc'[c] = "inc" /\ cur' = cur
        /\ rows' = rows /\ resets' = resets /\ blips' = blips
        /\ failures' = [failures EXCEPT ![cur[c]] = @ + 1]
    BY <1>0, <1>4 DEF HandleError, counterVars, budgetVars, Goto
  <2>2. cur[c] \in Offsets
    BY <1>a, <2>1 DEF Busy, PCs
  <2>3. /\ c \in Calling(o) <=> cur[c] = o
        /\ c \notin Calling(o)'
        /\ c \in Clearing(o) <=> c \in Clearing(o)'
    BY <2>1 DEF Calling, Clearing
  <2>4. failures'[o] = failures[o] + (IF cur[c] = o THEN 1 ELSE 0)
    BY <1>0, <2>1, <2>2
  <2> QED
    BY <1>0, <1>b, <2>1, <2>3, <2>4 DEF Counts
<1>5. CASE Inc(c)
  <2>1. /\ pc[c] = "inc" /\ cur' = cur /\ failures' = failures /\ blips' = blips
        /\ resets' = resets /\ rows' = [rows EXCEPT ![cur[c]] = @ + 1]
        /\ \/ rows[cur[c]] + 1 >= MaxAttempts /\ pc'[c] = "dead"
           \/ rows[cur[c]] + 1 < MaxAttempts /\ pc'[c] = "handle"
    BY <1>0, <1>5 DEF Inc, AfterAttempt, outcomeVars, budgetVars, Goto
  <2>2. cur[c] \in Offsets
    BY <1>a, <2>1 DEF Busy, PCs
  <2>3. /\ c \notin Calling(o)
        /\ c \in Calling(o)' <=> cur[c] = o /\ pc'[c] = "handle"
        /\ c \in Clearing(o)' => c \in Clearing(o)
    BY <2>1 DEF Calling, Clearing
  <2>4. rows'[o] = rows[o] + (IF cur[c] = o THEN 1 ELSE 0)
    BY <1>0, <2>1, <2>2
  <2>5. CASE cur[c] = o /\ pc'[c] = "handle"
    <3>1. Remembered(o)' = Remembered(o) + 1
      BY <1>b, <2>1, <2>4, <2>5
    <3> QED
      BY <1>0, <1>b, <2>1, <2>3, <3>1 DEF Counts
  <2>6. CASE ~(cur[c] = o /\ pc'[c] = "handle")
    <3>1. Remembered(o)' >= Remembered(o)
      BY <1>0, <1>b, <2>4
    <3> QED
      BY <1>0, <1>b, <2>1, <2>3, <2>6, <3>1 DEF Counts
  <2> QED
    BY <2>5, <2>6
<1>6. CASE IncFallback(c)
  <2>1. /\ pc[c] = "inc" /\ cur' = cur /\ failures' = failures
        /\ blips' = blips + 1 /\ resets' = resets
        /\ rows' = rows \/ rows' = [rows EXCEPT ![cur[c]] = @ + 1]
    BY <1>0, <1>6 DEF IncFallback, outcomeVars
  <2>2. cur[c] \in Offsets
    BY <1>a, <2>1 DEF Busy, PCs
  <2>3. rows'[o] >= rows[o]
    BY <1>0, <2>1, <2>2
  <2>4. c \in Clearing(o)' => c \in Clearing(o)
    BY <2>1 DEF Clearing
  <2>5. Remembered(o)' >= Remembered(o)
    BY <1>b, <2>3
  <2> QED
    BY <1>0, <1>b, <2>1, <2>4, <2>5 DEF Counts
<1>7. CASE Clear(c) \/ DeadClear(c)
  <2>1. /\ pc[c] \in {"clear", "deadClear"} /\ pc'[c] \in {"idle", "deadCommit"}
        /\ cur' = cur /\ failures' = failures
        /\ \/ /\ rows' = [rows EXCEPT ![cur[c]] = 0] /\ blips' = blips
              /\ resets' = [resets EXCEPT ![cur[c]] = @ + 1]
           \/ blips' = blips + 1 /\ rows' = rows /\ resets' = resets
    BY <1>0, <1>7 DEF Clear, DeadClear, ClearCounters, outcomeVars, Goto
  <2>2. cur[c] \in Offsets
    BY <1>a, <2>1 DEF Busy, PCs
  <2>3. /\ c \notin Calling(o) /\ c \notin Calling(o)' /\ c \notin Clearing(o)'
        /\ cur[c] = o => c \in Clearing(o)
    BY <2>1 DEF Calling, Clearing
  <2>4. CASE cur[c] = o /\ resets' # resets
    <3>1. resets'[o] = resets[o] + 1 /\ blips' = blips
      BY <1>0, <2>1, <2>4
    <3> QED
      BY <2>1, <2>3, <2>4, <3>1 DEF Clears
  <2>5. CASE ~(cur[c] = o /\ resets' # resets)
    <3>1. resets'[o] = resets[o] /\ rows'[o] = rows[o] /\ blips' >= blips
      BY <1>0, <2>1, <2>2, <2>5
    <3>2. Remembered(o)' >= Remembered(o)
      BY <1>0, <1>b, <3>1
    <3> QED
      BY <1>0, <1>b, <2>1, <2>3, <3>1, <3>2 DEF Counts
  <2> QED
    BY <2>4, <2>5
<1>8. CASE Stop(c) \/ DeadLetterError(c)
  <2>1. /\ pc'[c] = "down" /\ failures' = failures /\ rows' = rows /\ blips' = blips
        /\ resets' = resets
    BY <1>0, <1>8 DEF Stop, DeadLetterError, Down, outcomeVars, budgetVars, Goto
  <2> QED
    BY <1>c, <2>1 DEF Calling, Clearing
<1> QED
  BY <1>1, <1>2, <1>3, <1>4, <1>5, <1>6, <1>7, <1>8 DEF Acts, Step

(* Nothing was read yet, and the first reading is owed to every message.   *)
LEMMA RetryInit == Init => RetryInv
<1> SUFFICES ASSUME Init PROVE RetryInv
  OBVIOUS
<1>1. ASSUME NEW o \in Offsets \ Garbled
      PROVE  /\ IsFiniteSet(Stale(o)) /\ IsFiniteSet(Calling(o))
             /\ IsFiniteSet(Clearing(o))
             /\ failures[o] + Cardinality(Calling(o))
                  <= Worth(o) + Remembered(o) + Readings(o) + blips
             /\ resets[o] + Cardinality(Clearing(o)) <= Readings(o)
  <2>1. Stale(o) = {} /\ Calling(o) = {} /\ Clearing(o) = {}
    BY DEF Init, Stale, Calling, Clearing, Uncommitted
  <2>2. Cardinality({}) = 0 /\ IsFiniteSet({})
    BY FS_EmptySet
  <2>3. Again(o)
    BY ConsumerAssumption DEF Init, Again, Offsets
  <2>4. Readings(o) = 0
    BY <2>1, <2>2, <2>3 DEF Init, Readings, Owed
  <2>5. failures[o] = 0 /\ rows[o] = 0 /\ blips = 0 /\ resets[o] = 0
    BY DEF Init
  <2>6. Worth(o) = 0
    BY <2>5, ConsumerAssumption DEF Worth
  <2>7. Remembered(o) = 0
    BY <2>5, ConsumerAssumption DEF Remembered
  <2> QED
    BY <2>1, <2>2, <2>4, <2>5, <2>6, <2>7
<1>2. PaidOK
  BY <1>1 DEF PaidOK
<1>3. EarnedOK /\ UnreadOK
  BY ConsumerAssumption DEF Init, EarnedOK, UnreadOK
<1> QED
  BY <1>2, <1>3 DEF RetryInv

(* A counter is cleared only by a process whose message is settled, and    *)
(* nothing is unsettled.                                                   *)
LEMMA EarnedStep ==
  ASSUME TypeOK, TypeOK', Progress, EarnedOK, NEW c \in Consumers, Acts(c)
  PROVE  EarnedOK'
<1>1. Settled \subseteq Settled'
  BY SettledGrows DEF Acts
<1>2. CASE Clear(c) \/ DeadClear(c)
  <2>1. /\ pc[c] \in {"clear", "deadClear"}
        /\ resets' = resets \/ resets' = [resets EXCEPT ![cur[c]] = @ + 1]
    BY <1>2 DEF Clear, DeadClear, ClearCounters
  <2>2. cur[c] \in Settled
    BY <2>1 DEF Progress, ProgressOf
  <2>3. resets \in [Offsets -> Nat]
    BY DEF TypeOK
  <2>4. \A o \in Offsets : resets'[o] = resets[o] \/ o \in Settled
    BY <2>1, <2>2, <2>3
  <2> QED
    BY <1>1, <2>4 DEF EarnedOK
<1>3. CASE ~(Clear(c) \/ DeadClear(c))
  <2>1. resets' = resets
    BY <1>3, Zenon DEF Acts, Step, Assign, Fetch, Restart, HandleOK, HandleError, Inc,
                IncFallback, Commit, PublishDeadLetter, DeadCommit, DeadLetterError,
                Stop, counterVars
  <2> QED
    BY <1>1, <2>1 DEF EarnedOK
<1> QED
  BY <1>2, <1>3

(* What is not a message never reaches the handler.                        *)
LEMMA UnreadStep ==
  ASSUME TypeOK, Progress, UnreadOK, NEW c \in Consumers, Acts(c)
  PROVE  UnreadOK'
<1>1. \A x \in Consumers \ {c} : pc'[x] = pc[x] /\ cur'[x] = cur[x]
  BY OnlyOwnReader DEF Acts
<1>2. pc'[c] \notin {"down", "idle", "dead"} => cur'[c] \notin Garbled
  <2> USE DEF TypeOK, Goto, UnreadOK, PCs
  <2>1. CASE Fetch(c)
    BY <2>1 DEF Fetch
  <2>2. CASE Assign(c) \/ Restart(c)
    BY <2>2 DEF Assign, Restart
  <2>3. CASE HandleOK(c) \/ HandleError(c)
    BY <2>3 DEF HandleOK, HandleError
  <2>4. CASE Inc(c) \/ IncFallback(c)
    BY <2>4 DEF Inc, IncFallback, AfterAttempt
  <2>5. CASE Commit(c) \/ Clear(c) \/ PublishDeadLetter(c) \/ DeadClear(c)
               \/ DeadCommit(c)
    BY <2>5 DEF Commit, Clear, PublishDeadLetter, DeadClear, DeadCommit
  <2>6. CASE DeadLetterError(c) \/ Stop(c)
    BY <2>6 DEF DeadLetterError, Stop, Down
  <2> QED
    BY <2>1, <2>2, <2>3, <2>4, <2>5, <2>6 DEF Acts, Step
<1>3. \A o \in Garbled : failures'[o] = failures[o] /\ resets'[o] = resets[o]
  <2>1. CASE HandleError(c) \/ Clear(c) \/ DeadClear(c)
    <3>1. /\ pc[c] \in {"handle", "clear", "deadClear"} /\ cur[c] \notin Garbled
          /\ failures' = failures \/ failures' = [failures EXCEPT ![cur[c]] = @ + 1]
          /\ resets' = resets \/ resets' = [resets EXCEPT ![cur[c]] = @ + 1]
      BY <2>1 DEF HandleError, Clear, DeadClear, ClearCounters, counterVars, outcomeVars, UnreadOK
    <3>2. failures \in [Offsets -> Nat] /\ resets \in [Offsets -> Nat]
      BY DEF TypeOK
    <3> QED
      BY <3>1, <3>2, ConsumerAssumption
  <2>2. CASE ~(HandleError(c) \/ Clear(c) \/ DeadClear(c))
    <3>1. failures' = failures /\ resets' = resets
      BY <2>2, Zenon DEF Acts, Step, Assign, Fetch, Restart, HandleOK, Inc, IncFallback,
                  Commit, PublishDeadLetter, DeadCommit,
                  DeadLetterError, Stop, outcomeVars, counterVars
    <3> QED
      BY <3>1
  <2> QED
    BY <2>1, <2>2
<1> QED
  BY <1>1, <1>2, <1>3 DEF UnreadOK

(* Whatever a step costs was paid for.                                     *)
LEMMA PaidStep ==
  ASSUME TypeOK, TypeOK', Progress, PaidOK, NEW c \in Consumers, Acts(c)
  PROVE  PaidOK'
<1> SUFFICES ASSUME NEW o \in Offsets \ Garbled
             PROVE  /\ IsFiniteSet(Stale(o)') /\ IsFiniteSet(Calling(o)')
                    /\ IsFiniteSet(Clearing(o)')
                    /\ failures'[o] + Cardinality(Calling(o)')
                         <= Worth(o)' + Remembered(o)' + Readings(o)' + blips'
                    /\ resets'[o] + Cardinality(Clearing(o)') <= Readings(o)'
  BY DEF PaidOK
<1> DEFINE F == Cardinality(Calling(o))
           F1 == Cardinality(Calling(o)')
           K == Cardinality(Clearing(o))
           K1 == Cardinality(Clearing(o)')
<1>1. /\ IsFiniteSet(Stale(o)) /\ IsFiniteSet(Calling(o)) /\ IsFiniteSet(Clearing(o))
      /\ failures[o] + F <= Worth(o) + Remembered(o) + Readings(o) + blips
      /\ resets[o] + K <= Readings(o)
  BY DEF PaidOK
<1>2. /\ IsFiniteSet(Stale(o)')
      /\ Readings(o)' >= Readings(o)
      /\ Fetch(c) /\ pos[c] = o => Readings(o)' >= Readings(o) + 1
  BY <1>1, ReadingsStep
<1>3. /\ IsFiniteSet(Calling(o)') /\ IsFiniteSet(Clearing(o)')
      /\ F \in Nat /\ K \in Nat
      /\ F1 = F - (IF c \in Calling(o) THEN 1 ELSE 0) + (IF c \in Calling(o)' THEN 1 ELSE 0)
      /\ K1 = K - (IF c \in Clearing(o) THEN 1 ELSE 0) + (IF c \in Clearing(o)' THEN 1 ELSE 0)
  BY <1>1, SetsStep
<1>4. /\ MaxAttempts \in Nat /\ MaxAttempts >= 1
      /\ failures[o] \in Nat /\ blips \in Nat
      /\ Remembered(o) \in Nat /\ Remembered(o) <= MaxAttempts - 1
      /\ Readings(o) \in Int
  BY <1>1, RetryTypes
<1>5. /\ failures'[o] \in Nat /\ blips' \in Nat /\ resets[o] \in Nat /\ resets'[o] \in Nat
      /\ Remembered(o)' \in Nat
      /\ Readings(o)' \in Int
  <2>1. failures'[o] \in Nat /\ rows'[o] \in Nat /\ blips' \in Nat
        /\ stops' \in Nat /\ moves' \in Nat /\ resets[o] \in Nat /\ resets'[o] \in Nat
    BY ConsumerAssumption DEF TypeOK
  <2>2. Owed(o)' \in Int
    BY <1>2, FS_CardinalityType DEF Owed
  <2> QED
    BY <2>1, <2>2, ConsumerAssumption DEF Remembered, Readings
<1>6. /\ Worth(o) \in Int /\ Worth(o)' \in Int
      /\ resets'[o] = resets[o] => Worth(o)' = Worth(o)
      /\ resets'[o] = resets[o] + 1 => Worth(o)' = Worth(o) + (MaxAttempts - 1)
  <2>1. PICK m \in Nat : m = MaxAttempts - 1
    BY <1>4
  <2>2. Worth(o) = m * resets[o] /\ Worth(o)' = m * resets'[o]
    BY <2>1 DEF Worth
  <2>3. m * resets[o] \in Int /\ m * resets'[o] \in Int
        /\ m * (resets[o] + 1) = m * resets[o] + m
    BY <1>5, Times
  <2> QED
    BY <2>1, <2>2, <2>3
<1> HIDE DEF F, F1, K, K1
<1>7. CASE Reads(c, o)
  <2>1. Remembered(o)' = Remembered(o)
    BY <1>7 DEF Reads, Remembered
  <2>2. F1 <= F + 1 /\ K1 <= K + 1 /\ F1 \in Int /\ K1 \in Int
    BY <1>3, <1>7 DEF Reads
  <2>3. Readings(o)' >= Readings(o) + 1
    BY <1>2, <1>7 DEF Reads
  <2>4. failures'[o] = failures[o] /\ resets'[o] = resets[o] /\ blips' = blips
    BY <1>7 DEF Reads
  <2> QED
    BY <1>1, <1>2, <1>3, <1>4, <1>5, <1>6, <2>1, <2>2, <2>3, <2>4 DEF F, F1, K, K1
<1>8. CASE Counts(c, o)
  <2>1. /\ resets'[o] = resets[o] /\ K1 <= K /\ K1 \in Int
    BY <1>3, <1>8 DEF Counts
  <2>2. failures'[o] + F1 + Remembered(o) + blips <= failures[o] + F + Remembered(o)' + blips'
    BY <1>3, <1>4, <1>5, <1>8 DEF Counts
  <2>3. F1 \in Int
    BY <1>3
  <2> QED
    BY <1>1, <1>2, <1>3, <1>4, <1>5, <1>6, <2>1, <2>2, <2>3 DEF F, F1, K, K1
<1>9. CASE Clears(c, o)
  <2>1. /\ resets'[o] = resets[o] + 1 /\ K1 = K - 1 /\ F1 <= F /\ F1 \in Int
        /\ failures'[o] = failures[o] /\ blips' = blips
    BY <1>3, <1>9 DEF Clears
  <2>2. Worth(o)' = Worth(o) + (MaxAttempts - 1)
    BY <1>6, <2>1
  <2> QED
    BY <1>1, <1>2, <1>3, <1>4, <1>5, <1>6, <2>1, <2>2 DEF F, F1, K, K1
<1> QED
  BY <1>7, <1>8, <1>9, CostStep

(* The invariant is inductive.                                             *)
LEMMA RetryStep == IndInv /\ IndInv' /\ RetryInv /\ [Next]_vars => RetryInv'
<1> SUFFICES ASSUME IndInv, IndInv', RetryInv, [Next]_vars PROVE RetryInv'
  OBVIOUS
<1>1. ASSUME NEW c \in Consumers, Acts(c) PROVE RetryInv'
  BY <1>1, PaidStep, EarnedStep, UnreadStep DEF IndInv, RetryInv
<1>2. CASE UNCHANGED vars
  BY <1>2 DEF vars, RetryInv, PaidOK, EarnedOK, UnreadOK, Stale, InTurn, Calling, Clearing,
              Worth, Readings, Owed, Again, WillPass, Remembered, Uncommitted, Settled
<1> QED
  BY <1>1, <1>2 DEF Next, Acts

(* RetriesBounded: MaxAttempts - 1 retries for every life of the durable   *)
(* counter, one call for every reading of the message, of which there is   *)
(* one more than stops and moves, and one for every failure of the counter *)
(* table (HandleWithRetries, PostgresAttemptStore); the counter begins a   *)
(* new life only when the message is settled, at most once per reading.    *)
THEOREM RetriesArePaidFor == Spec => []RetriesBounded
<1>1. ASSUME IndInv, RetryInv PROVE RetriesBounded
  <2> SUFFICES ASSUME NEW o \in Offsets
               PROVE  /\ failures[o] <= (MaxAttempts - 1) * (1 + resets[o])
                                          + (1 + stops + moves) + blips
                      /\ resets[o] <= IF o \in Settled THEN 1 + stops + moves ELSE 0
    BY DEF RetriesBounded
  <2>0. /\ MaxAttempts \in Nat /\ MaxAttempts >= 1 /\ blips \in Nat
        /\ stops \in Nat /\ moves \in Nat /\ resets[o] \in Nat /\ failures[o] \in Nat
    BY <1>1, ConsumerAssumption DEF IndInv, TypeOK
  <2>1. CASE o \in Garbled
    <3>1. failures[o] = 0 /\ resets[o] = 0
      BY <1>1, <2>1 DEF RetryInv, UnreadOK
    <3> QED
      BY <2>0, <3>1
  <2>2. CASE o \notin Garbled
    <3>1. /\ IsFiniteSet(Stale(o)) /\ IsFiniteSet(Calling(o)) /\ IsFiniteSet(Clearing(o))
          /\ failures[o] + Cardinality(Calling(o))
               <= Worth(o) + Remembered(o) + Readings(o) + blips
          /\ resets[o] + Cardinality(Clearing(o)) <= Readings(o)
          /\ o \in Settled \/ resets[o] = 0
      BY <1>1, <2>2 DEF RetryInv, PaidOK, EarnedOK
    <3>2. /\ Cardinality(Calling(o)) \in Nat /\ Cardinality(Clearing(o)) \in Nat
      BY <3>1, FS_CardinalityType
    <3>3. /\ Remembered(o) \in Nat /\ Remembered(o) <= MaxAttempts - 1
          /\ Readings(o) \in Int /\ Readings(o) <= 1 + stops + moves
      BY <1>1, <3>1, RetryTypes DEF IndInv
    <3>4. PICK m \in Nat : m = MaxAttempts - 1
      BY <2>0
    <3>5. m * (resets[o] + 1) = m * resets[o] + m /\ m * resets[o] \in Int
          /\ resets[o] + 1 = 1 + resets[o]
      BY <2>0, Times
    <3>6. Worth(o) = m * resets[o]
      BY <3>4 DEF Worth
    <3>7. failures[o] <= m * (1 + resets[o]) + (1 + stops + moves) + blips
      BY <2>0, <3>1, <3>2, <3>3, <3>4, <3>5, <3>6
    <3>8. resets[o] <= IF o \in Settled THEN 1 + stops + moves ELSE 0
      BY <2>0, <3>1, <3>2, <3>3
    <3> QED
      BY <3>4, <3>7, <3>8
  <2> QED
    BY <2>1, <2>2
<1> QED
  BY <1>1, IndInit, IndStep, RetryInit, RetryStep, PTL DEF Spec
================================================================================
