---------------------------- MODULE Runner_proofs ----------------------------
(***************************************************************************)
(* The inductive invariant of Runner, and what follows from it: no job     *)
(* that comes due between passes lacks a timer, a stopped runner starts    *)
(* nothing, and a drain does what was owed unless older jobs block it.     *)
(***************************************************************************)
EXTENDS Runner, FiniteSetTheorems, WellFoundedInduction, TLAPS

-----------------------------------------------------------------------------
(* The invariant.                                                           *)

PassedDue == \A j \in passed : due[j] = 0

\* Some answer or timer is no later than any job it should be there for.
Heard ==
    phase = "idle" /\ ~stopped
        => \A j \in Free(status) \ (passed \cup unheard) :
              \E w \in asking \cup {waking, poll} : w <= due[j]

StoppedQuiet == stopped => waking = Poll

\* What a drain is owed has not run since, which would have made it wait again.
OwedDue ==
    \A c \in Callers : \A j \in owed[c] :
        due[j] = 0 /\ status[j] \notin {"unmade", "gone"}

\* What is leased is in the pass's hands, which are empty before it claims.
InHand ==
    /\ \A j \in Jobs : status[j] = "leased" => j \in leased
    /\ phase \in {"idle", "claiming"} => leased = {}

\* What the pass a drain waits for has attempted is not owed it any more.
NotYetTried ==
    \A c \in Callers : caller[c] = "joined" => owed[c] \cap attempted = {}

\* What a claim made at the last look could have taken.
Within == Free(status) \cup {j \in passed : status[j] = "lapsed"}

\* A job that is owed and was not claimed has a whole batch before it.
Behind ==
    \A c \in Callers :
        caller[c] = "joined" /\ phase = "sorting"
            => \A j \in owed[c] \cap Within :
                  Cardinality(leased) = Batch /\ \A k \in leased : k < j

IInv ==
    /\ TypeOK /\ PassedDue /\ Heard /\ StoppedQuiet
    /\ OwedDue /\ InHand /\ NotYetTried /\ Behind

-----------------------------------------------------------------------------
\* A set of natural numbers that is not empty has a least.
LEMMA Least ==
  ASSUME NEW T, T \subseteq Nat, T # {}
  PROVE  \E m \in T : \A n \in T : m <= n
<1>1. PICK m \in T : \A n \in T : ~(<<n, m>> \in OpToRel(<, Nat))
  BY NatLessThanWellFounded, WFMin
<1>2. \A n \in T : ~(n < m)
  BY <1>1 DEF OpToRel
<1> QED
  BY <1>2

\* What is asked is answered no later than any of the jobs it is asked about,
\* or else those come after a poll.
LEMMA SoonestCovers ==
  ASSUME NEW S \in SUBSET Jobs, NEW d \in [Jobs -> Nat], NEW j \in S
  PROVE  d[j] >= Poll \/ \E w \in Soonest(S, d) : w <= d[j]
<1> DEFINE T == {d[k] : k \in S}
<1>1. T \subseteq Nat /\ T # {}
  OBVIOUS
<1>2. PICK m \in T : \A n \in T : m <= n
  <2> HIDE DEF T
  <2> QED
    BY <1>1, Least
<1>3. PICK k \in S : m = d[k]
  BY <1>2
<1>4. \A l \in S : d[k] <= d[l]
  BY <1>2, <1>3
<1>5. CASE d[k] < Poll
  BY <1>4, <1>5 DEF Soonest
<1>6. CASE ~(d[k] < Poll)
  BY <1>4, <1>6, RunnerAssumption
<1> QED
  BY <1>5, <1>6

LEMMA SoonestSmall ==
  ASSUME NEW S \in SUBSET Jobs, NEW d \in [Jobs -> Nat]
  PROVE  Soonest(S, d) \subseteq 0..Poll
BY RunnerAssumption DEF Soonest

LEMMA LessType == \A n \in Nat : Less(n) \in Nat /\ Less(n) <= n
BY DEF Less

LEMMA LessMonotone == \A m, n \in Nat : m <= n => Less(m) <= Less(n)
BY DEF Less

LEMMA InitInv == Init => IInv
<1> SUFFICES ASSUME Init PROVE IInv
  OBVIOUS
<1> USE RunnerAssumption
<1>1. PICK made \in SUBSET Jobs :
        /\ status = [j \in Jobs |-> IF j \in made THEN "free" ELSE "unmade"]
        /\ due \in [Jobs -> {0} \cup Windows]
        /\ unheard = made
  BY DEF Init
<1>2. TypeOK
  <2>1. status \in [Jobs -> Stages] /\ due \in [Jobs -> Nat] /\ unheard \subseteq Jobs
    <3>1. {0} \cup Windows \subseteq Nat
      OBVIOUS
    <3>2. due \in [Jobs -> Nat]
      BY <1>1, <3>1
    <3> QED
      BY <1>1, <3>2 DEF Stages
  <2>2. /\ poll \in 0..Poll /\ waking \in 0..Poll /\ asking \subseteq 0..Poll
        /\ faults \in 0..Faults
    BY DEF Init
  <2>3. /\ caller \in [Callers -> {"none", "queued", "joined"}]
        /\ owed \in [Callers -> SUBSET Jobs]
    BY DEF Init
  <2> QED
    BY <2>1, <2>2, <2>3 DEF Init, TypeOK
<1>3. Free(status) \subseteq unheard
  BY <1>1 DEF Free
<1> QED
  BY <1>2, <1>3 DEF Init, IInv, PassedDue, Heard, StoppedQuiet, OwedDue, InHand,
     NotYetTried, Behind

-----------------------------------------------------------------------------
(* Types, by action.                                                        *)

LEMMA EndsTypes ==
  ASSUME TypeOK, NEW s \in [Jobs -> Stages], Ends(s)
  PROVE  /\ asking' \subseteq 0..Poll
         /\ leased' \subseteq Jobs
         /\ caller' \in [Callers -> {"none", "queued", "joined"}]
         /\ phase' \in {"idle", "claiming"}
         /\ attempted' \subseteq Jobs
         /\ passed' \subseteq Jobs
         /\ moved' \in BOOLEAN
<1>1. Soonest(Free(s) \ passed, due) \subseteq 0..Poll
  BY SoonestSmall DEF TypeOK, Free
<1>2. asking' \subseteq 0..Poll
  BY <1>1 DEF Ends, Asks, SinceLook, TypeOK
<1> QED
  BY <1>2 DEF Ends, Begins, Looks, looks, TypeOK

LookTypes ==
    /\ phase' \in {"idle", "claiming", "sorting", "performing"}
    /\ attempted' \subseteq Jobs
    /\ passed' \subseteq Jobs
    /\ moved' \in BOOLEAN

LEMMA TicksTypes == TypeOK /\ Ticks => LookTypes
<1> SUFFICES ASSUME TypeOK, Ticks PROVE LookTypes
  OBVIOUS
<1>1. CASE phase = "idle" /\ ~stopped
  BY <1>1 DEF Ticks, Begins, Looks, LookTypes
<1>2. CASE ~(phase = "idle" /\ ~stopped)
  BY <1>2 DEF Ticks, looks, LookTypes, TypeOK
<1> QED
  BY <1>1, <1>2

LEMMA TypesStep == TypeOK /\ [Next]_vars => TypeOK'
<1> SUFFICES ASSUME TypeOK, [Next]_vars PROVE TypeOK'
  OBVIOUS
<1> USE RunnerAssumption
<1>1. CASE \E j \in Jobs, w \in Windows : Make(j, w)
  <2>1. PICK j \in Jobs, w \in Windows : Make(j, w)
    BY <1>1
  <2>2. status' \in [Jobs -> Stages] /\ due' \in [Jobs -> Nat]
    BY <2>1 DEF Make, Waits, TypeOK, Stages
  <2>3. Soonest({k \in Free(status') : due'[k] > 0}, due') \subseteq 0..Poll
    BY <2>2, SoonestSmall DEF Free
  <2>4. asking' \subseteq 0..Poll
    BY <2>1, <2>3 DEF Make, Wake, Asks, TypeOK
  <2> QED
    BY <2>1, <2>2, <2>4 DEF Make, Waits, TypeOK, pass, drains
<1>2. CASE \E j \in Jobs : Cancel(j)
  BY <1>2 DEF Cancel, Done, TypeOK, Stages, looks, pass, timers
<1>3. CASE \E c \in Callers : AskToDrain(c)
  <2>1. PICK c \in Callers : AskToDrain(c)
    BY <1>3
  <2>2. LookTypes
    BY <2>1 DEF AskToDrain, Begins, Looks, looks, LookTypes, TypeOK
  <2>3. /\ caller' \in [Callers -> {"none", "queued", "joined"}]
        /\ owed' \in [Callers -> SUBSET Jobs]
    BY <2>1 DEF AskToDrain, Joins, Outstanding, TypeOK
  <2> QED
    BY <2>1, <2>2, <2>3 DEF AskToDrain, LookTypes, TypeOK, queue, timers
<1>4. CASE Stop
  BY <1>4 DEF Stop, TypeOK, queue, looks, pass, drains
<1>5. CASE Claim
  <2>1. PICK taken \in SUBSET {j \in Free(status) : due[j] = 0} :
          /\ status' \in [Jobs -> Stages]
          /\ leased' = taken
          /\ owed' \in [Callers -> SUBSET Jobs]
    BY <1>5 DEF Claim, TypeOK, Stages
  <2> QED
    BY <1>5, <2>1 DEF Claim, TypeOK, Free, looks, timers
<1>6. CASE Sort
  BY <1>6 DEF Sort, Released, TypeOK, Stages, looks, timers, drains
<1>7. CASE EndPass
  <2>1. Released \in [Jobs -> Stages]
    BY DEF Released, TypeOK, Stages
  <2> QED
    BY <1>7, <2>1, EndsTypes DEF EndPass, TypeOK
<1>8. CASE \E j \in Jobs : Concludes(j)
  <2>1. PICK j \in Jobs : Concludes(j)
    BY <1>8
  <2>2. status' \in [Jobs -> Stages] /\ passed' \subseteq Jobs /\ moved' \in BOOLEAN
    BY <2>1 DEF Concludes, Looks, looks, TypeOK, Stages
  <2>3. /\ leased' \subseteq Jobs /\ attempted' \subseteq Jobs
        /\ phase' \in {"claiming", "performing"}
        /\ owed' \in [Callers -> SUBSET Jobs]
    BY <2>1 DEF Concludes, Performs, Done, TypeOK
  <2> QED
    BY <2>1, <2>2, <2>3 DEF Concludes, Performs, TypeOK, timers
<1>9. CASE \E j \in Jobs, b \in Backoffs : Fails(j, b)
  <2>1. PICK j \in Jobs, b \in Backoffs : Fails(j, b)
    BY <1>9
  <2>2. status' \in [Jobs -> Stages] /\ due' \in [Jobs -> Nat] /\ faults' \in 0..Faults
    BY <2>1 DEF Fails, Fault, TypeOK, Stages
  <2>3. passed' \subseteq Jobs /\ moved' \in BOOLEAN
    BY <2>1 DEF Fails, Looks, Waits, TypeOK
  <2>4. /\ leased' \subseteq Jobs /\ attempted' \subseteq Jobs
        /\ phase' \in {"claiming", "performing"}
        /\ owed' \in [Callers -> SUBSET Jobs]
    BY <2>1 DEF Fails, Performs, Done, TypeOK
  <2> QED
    BY <2>1, <2>2, <2>3, <2>4 DEF Fails, Performs, TypeOK, timers
<1>10. CASE Throws
  <2>1. status' \in [Jobs -> Stages]
    BY <1>10 DEF Throws, TypeOK, Stages
  <2> QED
    BY <1>10, <2>1, EndsTypes DEF Throws, Fault, TypeOK
<1>11. CASE PollFires
  BY <1>11, TicksTypes DEF PollFires, LookTypes, TypeOK, queue, drains
<1>12. CASE WakeFires
  BY <1>12, TicksTypes DEF WakeFires, LookTypes, TypeOK, queue, drains
<1>13. CASE \E w \in asking : Answered(w)
  BY <1>13 DEF Answered, TypeOK, queue, looks, pass, drains
<1>14. CASE Tick
  <2>1. due' \in [Jobs -> Nat] /\ poll' \in 0..Poll /\ waking' \in 0..Poll
    BY <1>14, LessType DEF Tick, TypeOK, Less
  <2> QED
    BY <1>14, <2>1 DEF Tick, TypeOK, pass, drains
<1>15. CASE \E j \in Jobs : LeaseLapses(j)
  BY <1>15 DEF LeaseLapses, TypeOK, Stages, pass, timers, drains
<1>16. CASE UNCHANGED vars
  BY <1>16 DEF vars, queue, looks, pass, timers, drains, TypeOK
<1> QED
  BY <1>1, <1>2, <1>3, <1>4, <1>5, <1>6, <1>7, <1>8, <1>9, <1>10, <1>11, <1>12, <1>13,
     <1>14, <1>15, <1>16 DEF Next, Others, Passes, Timers, Time

-----------------------------------------------------------------------------
(* What is due.                                                             *)

LEMMA TicksDue == PassedDue /\ Ticks /\ UNCHANGED due => PassedDue'
<1> SUFFICES ASSUME PassedDue, Ticks, UNCHANGED due PROVE PassedDue'
  OBVIOUS
<1>1. CASE phase = "idle" /\ ~stopped
  BY <1>1 DEF Ticks, Begins, Looks, PassedDue
<1>2. CASE ~(phase = "idle" /\ ~stopped)
  BY <1>2 DEF Ticks, looks, PassedDue
<1> QED
  BY <1>1, <1>2

LEMMA EndsDue ==
  ASSUME PassedDue, NEW s, Ends(s), UNCHANGED due
  PROVE  PassedDue'
BY DEF Ends, Begins, Looks, looks, PassedDue

LEMMA PassedDueStep == TypeOK /\ PassedDue /\ [Next]_vars => PassedDue'
<1> SUFFICES ASSUME TypeOK, PassedDue, [Next]_vars PROVE PassedDue'
  OBVIOUS
<1>1. CASE \E j \in Jobs, w \in Windows : Make(j, w)
  BY <1>1 DEF Make, Waits, PassedDue, TypeOK
<1>2. CASE \E j \in Jobs : Cancel(j)
  BY <1>2 DEF Cancel, looks, PassedDue
<1>3. CASE \E c \in Callers : AskToDrain(c)
  BY <1>3 DEF AskToDrain, Begins, Looks, looks, queue, PassedDue
<1>4. CASE Stop
  BY <1>4 DEF Stop, queue, looks, PassedDue
<1>5. CASE Claim \/ Sort
  BY <1>5 DEF Claim, Sort, looks, PassedDue
<1>6. CASE EndPass
  BY <1>6, EndsDue DEF EndPass
<1>7. CASE \E j \in Jobs : Concludes(j)
  BY <1>7 DEF Concludes, Looks, looks, PassedDue
<1>8. CASE \E j \in Jobs, b \in Backoffs : Fails(j, b)
  <2>1. PICK j \in Jobs, b \in Backoffs : Fails(j, b)
    BY <1>8
  <2>2. CASE leased' = {}
    BY <2>1, <2>2 DEF Fails, Looks, PassedDue
  <2>3. CASE leased' # {}
    BY <2>1, <2>3 DEF Fails, Waits, PassedDue, TypeOK
  <2> QED
    BY <2>2, <2>3
<1>9. CASE Throws
  BY <1>9, EndsDue DEF Throws
<1>10. CASE PollFires \/ WakeFires
  BY <1>10, TicksDue DEF PollFires, WakeFires, queue
<1>11. CASE \E w \in asking : Answered(w)
  BY <1>11 DEF Answered, queue, looks, PassedDue
<1>12. CASE Tick
  BY <1>12 DEF Tick, Less, PassedDue, TypeOK
<1>13. CASE \E j \in Jobs : LeaseLapses(j)
  BY <1>13 DEF LeaseLapses, PassedDue
<1>14. CASE UNCHANGED vars
  BY <1>14 DEF vars, queue, looks, PassedDue
<1> QED
  BY <1>1, <1>2, <1>3, <1>4, <1>5, <1>6, <1>7, <1>8, <1>9, <1>10, <1>11, <1>12, <1>13, <1>14
     DEF Next, Others, Passes, Timers, Time

LEMMA OwedDueStep == TypeOK /\ OwedDue /\ [Next]_vars => OwedDue'
<1> SUFFICES ASSUME TypeOK, OwedDue, [Next]_vars PROVE OwedDue'
  OBVIOUS
<1>1. CASE \E j \in Jobs, w \in Windows : Make(j, w)
  BY <1>1 DEF Make, Waits, drains, OwedDue, TypeOK
<1>2. CASE \E j \in Jobs : Cancel(j)
  BY <1>2 DEF Cancel, Done, OwedDue, TypeOK
<1>3. CASE \E c \in Callers : AskToDrain(c)
  BY <1>3 DEF AskToDrain, Outstanding, queue, OwedDue, TypeOK
<1>4. CASE Stop
  BY <1>4 DEF Stop, queue, drains, OwedDue
<1>5. CASE Claim
  <2> SUFFICES ASSUME NEW c \in Callers, NEW j \in owed'[c]
               PROVE  j \in owed[c] /\ status'[j] \in {"leased", status[j]}
    BY <1>5 DEF Claim, OwedDue, TypeOK
  <2> QED
    BY <1>5 DEF Claim, TypeOK
<1>6. CASE Sort
  BY <1>6 DEF Sort, Released, drains, OwedDue, TypeOK
<1>7. CASE EndPass
  BY <1>7 DEF EndPass, Released, OwedDue, TypeOK
<1>8. CASE \E j \in Jobs : Concludes(j)
  BY <1>8 DEF Concludes, Performs, Done, OwedDue, TypeOK
<1>9. CASE \E j \in Jobs, b \in Backoffs : Fails(j, b)
  BY <1>9 DEF Fails, Performs, Done, OwedDue, TypeOK
<1>10. CASE Throws
  BY <1>10 DEF Throws, OwedDue, TypeOK
<1>11. CASE PollFires \/ WakeFires
  BY <1>11 DEF PollFires, WakeFires, queue, drains, OwedDue
<1>12. CASE \E w \in asking : Answered(w)
  BY <1>12 DEF Answered, queue, drains, OwedDue
<1>13. CASE Tick
  BY <1>13 DEF Tick, Less, drains, OwedDue, TypeOK
<1>14. CASE \E j \in Jobs : LeaseLapses(j)
  BY <1>14 DEF LeaseLapses, drains, OwedDue, TypeOK
<1>15. CASE UNCHANGED vars
  BY <1>15 DEF vars, queue, drains, OwedDue
<1> QED
  BY <1>1, <1>2, <1>3, <1>4, <1>5, <1>6, <1>7, <1>8, <1>9, <1>10, <1>11, <1>12, <1>13,
     <1>14, <1>15 DEF Next, Others, Passes, Timers, Time

LEMMA InHandStep == TypeOK /\ InHand /\ [Next]_vars => InHand'
<1> SUFFICES ASSUME TypeOK, InHand, [Next]_vars PROVE InHand'
  OBVIOUS
<1>1. CASE \E j \in Jobs, w \in Windows : Make(j, w)
  BY <1>1 DEF Make, pass, InHand, TypeOK
<1>2. CASE \E j \in Jobs : Cancel(j) \/ LeaseLapses(j)
  BY <1>2 DEF Cancel, LeaseLapses, pass, InHand, TypeOK
<1>3. CASE \E c \in Callers : AskToDrain(c)
  BY <1>3 DEF AskToDrain, Begins, queue, InHand
<1>4. CASE Stop \/ Tick \/ \E w \in asking : Answered(w)
  BY <1>4 DEF Stop, Tick, Answered, queue, pass, InHand
<1>5. CASE Claim
  BY <1>5 DEF Claim, InHand, TypeOK
<1>6. CASE Sort
  BY <1>6 DEF Sort, Released, Again, InHand, TypeOK
<1>7. CASE EndPass
  BY <1>7 DEF EndPass, Ends, Released, Again, InHand, TypeOK
<1>8. CASE \E j \in Jobs : Concludes(j) \/ \E b \in Backoffs : Fails(j, b)
  BY <1>8 DEF Concludes, Fails, Performs, InHand, TypeOK
<1>9. CASE Throws
  BY <1>9 DEF Throws, Ends, InHand, TypeOK
<1>10. CASE PollFires \/ WakeFires
  BY <1>10 DEF PollFires, WakeFires, Ticks, Begins, queue, InHand
<1>11. CASE UNCHANGED vars
  BY <1>11 DEF vars, queue, pass, InHand
<1> QED
  BY <1>1, <1>2, <1>3, <1>4, <1>5, <1>6, <1>7, <1>8, <1>9, <1>10, <1>11
     DEF Next, Others, Passes, Timers, Time

LEMMA NotYetTriedStep == TypeOK /\ NotYetTried /\ [Next]_vars => NotYetTried'
<1> SUFFICES ASSUME TypeOK, NotYetTried, [Next]_vars PROVE NotYetTried'
  OBVIOUS
<1>1. CASE \E j \in Jobs, w \in Windows : Make(j, w)
  BY <1>1 DEF Make, pass, drains, NotYetTried
<1>2. CASE \E j \in Jobs : Cancel(j) \/ LeaseLapses(j)
  BY <1>2 DEF Cancel, Done, LeaseLapses, pass, drains, NotYetTried
<1>3. CASE \E c \in Callers : AskToDrain(c)
  BY <1>3 DEF AskToDrain, Joins, Begins, NotYetTried, TypeOK
<1>4. CASE Stop \/ Tick \/ Sort \/ \E w \in asking : Answered(w)
  BY <1>4 DEF Stop, Tick, Sort, Answered, pass, drains, NotYetTried
<1>5. CASE Claim
  BY <1>5 DEF Claim, NotYetTried, TypeOK
<1>6. CASE EndPass \/ Throws
  BY <1>6 DEF EndPass, Throws, Ends, Begins, NotYetTried
<1>7. CASE \E j \in Jobs : Concludes(j) \/ \E b \in Backoffs : Fails(j, b)
  BY <1>7 DEF Concludes, Fails, Performs, Done, NotYetTried
<1>8. CASE PollFires \/ WakeFires
  BY <1>8 DEF PollFires, WakeFires, Ticks, Begins, drains, NotYetTried
<1>9. CASE UNCHANGED vars
  BY <1>9 DEF vars, pass, drains, NotYetTried
<1> QED
  BY <1>1, <1>2, <1>3, <1>4, <1>5, <1>6, <1>7, <1>8, <1>9
     DEF Next, Others, Passes, Timers, Time

LEMMA QuietStep == StoppedQuiet /\ [Next]_vars => StoppedQuiet'
BY DEF StoppedQuiet, Next, Others, Passes, Timers, Time, Make, Cancel, AskToDrain, Stop,
       Claim, Sort, EndPass, Concludes, Fails, Performs, Throws, PollFires, WakeFires,
       Answered, Runs, Tick, LeaseLapses, vars, timers

-----------------------------------------------------------------------------
(* What a pass leaves.                                                      *)

LEMMA BehindStep == TypeOK /\ OwedDue /\ Behind /\ [Next]_vars => Behind'
<1> SUFFICES ASSUME TypeOK, OwedDue, Behind, [Next]_vars,
                    NEW c \in Callers, caller'[c] = "joined", phase' = "sorting",
                    NEW j \in owed'[c] \cap Within'
             PROVE  Cardinality(leased') = Batch /\ \A k \in leased' : k < j
  BY DEF Behind
<1> USE RunnerAssumption
<1> DEFINE Same == /\ phase = "sorting" /\ caller[c] = "joined" /\ leased' = leased
                   /\ j \in owed[c] \cap Within
<1>0. SUFFICES ASSUME ~Claim PROVE Same
  <2>1. CASE Claim
    <3> DEFINE all == {k \in Free(status) : due[k] = 0}
    <3>1. PICK taken \in SUBSET all, ended \in SUBSET Jobs :
            /\ ended = {k \in Owed \ Free(status) :
                          Cardinality(taken) < Batch \/ \E i \in taken : k < i}
            /\ Oldest(taken, all)
            /\ leased' = taken
            /\ status' = [k \in Jobs |-> IF k \in taken THEN "leased"
                                          ELSE IF k \in ended THEN "gone" ELSE status[k]]
            /\ owed' = [d \in Callers |-> owed[d] \ ended]
            /\ UNCHANGED passed
      BY <2>1 DEF Claim, Owed, Free, looks
    <3>2. j \in owed[c] \ ended /\ j \in Jobs /\ due[j] = 0
      BY <3>1 DEF OwedDue, TypeOK
    <3>3. CASE status'[j] = "free"
      <4>1. j \in all \ taken
        BY <3>1, <3>2, <3>3 DEF Free
      <4> QED
        BY <3>1, <4>1 DEF Oldest
    <3>4. CASE status'[j] = "lapsed"
      <4>1. j \in Owed \ Free(status)
        BY <3>1, <3>2, <3>4 DEF Owed, Free
      <4>2. ~(Cardinality(taken) < Batch) /\ \A k \in taken : ~(j < k) /\ k # j
        BY <3>1, <3>2, <4>1
      <4>3. taken \subseteq Nat /\ j \in Nat
        BY <3>1, <3>2 DEF Free
      <4>4. Cardinality(taken) \in Nat
        BY <3>1, FS_Subset, FS_CardinalityType DEF Free
      <4> QED
        BY <3>1, <4>2, <4>3, <4>4 DEF Oldest
    <3> QED
      BY <3>3, <3>4 DEF Within, Free
  <2>2. CASE ~Claim
    BY <1>0, <2>2 DEF Behind
  <2> QED
    BY <2>1, <2>2
<1>1. CASE \E i \in Jobs, w \in Windows : Make(i, w)
  <2>1. PICK i \in Jobs, w \in Windows : Make(i, w)
    BY <1>1
  <2>2. j \in owed[c] /\ j # i
    BY <2>1 DEF Make, drains, OwedDue
  <2> QED
    BY <2>1, <2>2 DEF Make, Waits, drains, pass, Within, Free, TypeOK
<1>2. CASE \E i \in Jobs : Cancel(i)
  BY <1>2 DEF Cancel, Done, looks, pass, Within, Free, TypeOK
<1>3. CASE \E d \in Callers : AskToDrain(d)
  <2>1. PICK d \in Callers : AskToDrain(d)
    BY <1>3
  <2>2. phase = "sorting"
    BY <2>1 DEF AskToDrain, Begins
  <2>3. c # d
    BY <2>1, <2>2 DEF AskToDrain, Joins, TypeOK
  <2> QED
    BY <2>1, <2>2, <2>3 DEF AskToDrain, queue, looks, Within, Free, TypeOK
<1>4. CASE Stop \/ \E w \in asking : Answered(w)
  BY <1>4 DEF Stop, Answered, queue, looks, pass, drains, Within, Free
<1>5. CASE Sort
  BY <1>5 DEF Sort
<1>6. CASE EndPass \/ Throws
  BY <1>6 DEF EndPass, Throws, Ends, Begins
<1>7. CASE \E i \in Jobs : Concludes(i) \/ \E b \in Backoffs : Fails(i, b)
  BY <1>7 DEF Concludes, Fails, Performs
<1>8. CASE PollFires \/ WakeFires
  BY <1>8 DEF PollFires, WakeFires, Ticks, Begins, queue, looks, drains, Within, Free
<1>9. CASE Tick
  BY <1>9 DEF Tick, pass, drains, Within, Free
<1>10. CASE \E i \in Jobs : LeaseLapses(i)
  BY <1>10 DEF LeaseLapses, pass, drains, Within, Free, TypeOK
<1>11. CASE UNCHANGED vars
  BY <1>11 DEF vars, queue, looks, pass, drains, Within, Free
<1> QED
  BY <1>0, <1>1, <1>2, <1>3, <1>4, <1>5, <1>6, <1>7, <1>8, <1>9, <1>10, <1>11
     DEF Next, Others, Passes, Timers, Time

-----------------------------------------------------------------------------
(* Nothing that comes due is left without a timer.                          *)

\* The end of a pass asks about whatever its last look did not see.
LEMMA EndsHeard ==
  ASSUME TypeOK, Ends(status'), status' \in [Jobs -> Stages],
         UNCHANGED <<due, poll, waking, stopped, unheard>>
  PROVE  Heard'
<1> SUFFICES ASSUME phase' = "idle", ~stopped,
                    NEW j \in Free(status') \ (passed' \cup unheard)
             PROVE  \E w \in asking' \cup {waking, poll} : w <= due[j]
  BY DEF Heard
<1> DEFINE S == Free(status') \ passed
<1>1. j \in S /\ asking' = asking \cup Soonest(S, due)
  BY DEF Ends, Begins, looks, Asks, SinceLook
<1>2. S \in SUBSET Jobs
  BY DEF Free
<1>3. due[j] >= Poll \/ \E w \in Soonest(S, due) : w <= due[j]
  <2> HIDE DEF S
  <2> QED
    BY <1>1, <1>2, SoonestCovers DEF TypeOK
<1>4. poll <= Poll /\ due[j] \in Nat /\ poll \in Nat /\ Poll \in Nat
  BY RunnerAssumption DEF TypeOK, Free
<1> QED
  BY <1>1, <1>3, <1>4

LEMMA HeardStep == TypeOK /\ Heard /\ [Next]_vars => Heard'
<1> SUFFICES ASSUME TypeOK, Heard, [Next]_vars PROVE Heard'
  OBVIOUS
<1> USE RunnerAssumption
<1>1. TypeOK'
  BY TypesStep
<1>2. CASE \E j \in Jobs, w \in Windows : Make(j, w)
  <2>1. PICK j \in Jobs, w \in Windows : Make(j, w)
    BY <1>2
  <2> SUFFICES ASSUME phase' = "idle", ~stopped',
                      NEW i \in Free(status') \ (passed' \cup unheard')
               PROVE  \E u \in asking' \cup {waking', poll'} : u <= due'[i]
    BY DEF Heard
  <2>2. /\ phase = "idle" /\ ~stopped /\ waking' = waking /\ poll' = poll
        /\ due' \in [Jobs -> Nat] /\ i \in Jobs /\ poll \in Nat /\ poll <= Poll
    BY <2>1, <1>1 DEF Make, pass, Free, TypeOK
  <2> DEFINE S == {k \in Free(status') : due'[k] > 0}
  <2>3. asking' = asking \cup Soonest(S, due')
    BY <2>1, <2>2 DEF Make, Wake, Asks
  <2>4. CASE i = j
    <3>1. i \in S /\ S \in SUBSET Jobs
      BY <2>1, <2>2, <2>4 DEF Make, Waits, Free, TypeOK
    <3>2. due'[i] >= Poll \/ \E u \in Soonest(S, due') : u <= due'[i]
      <4> HIDE DEF S
      <4> QED
        BY <2>2, <3>1, SoonestCovers
    <3> QED
      BY <2>2, <2>3, <3>2
  <2>5. CASE i # j
    <3>1. i \in Free(status) \ (passed \cup unheard) /\ due'[i] = due[i]
      BY <2>1, <2>2, <2>5 DEF Make, Waits, Free, TypeOK
    <3> QED
      BY <2>2, <2>3, <3>1 DEF Heard
  <2> QED
    BY <2>4, <2>5
<1>3. CASE \E j \in Jobs : Cancel(j)
  <2>1. Free(status') \subseteq Free(status)
    BY <1>3 DEF Cancel, Free, TypeOK
  <2>2. UNCHANGED <<due, passed, phase, poll, waking, asking, stopped, unheard>>
    BY <1>3 DEF Cancel, looks, pass, timers
  <2> QED
    BY <2>1, <2>2 DEF Heard
<1>4. CASE \E c \in Callers : AskToDrain(c)
  BY <1>4 DEF AskToDrain, Begins, Heard
<1>5. CASE Stop
  BY <1>5 DEF Stop, Heard
<1>6. CASE Claim \/ Sort
  BY <1>6 DEF Claim, Sort, Heard
<1>7. CASE EndPass \/ Throws
  <2>1. Ends(status') /\ UNCHANGED <<due, poll, waking, stopped, unheard>>
    BY <1>7 DEF EndPass, Throws
  <2> QED
    BY <1>1, <2>1, EndsHeard DEF TypeOK
<1>8. CASE \E j \in Jobs : Concludes(j) \/ \E b \in Backoffs : Fails(j, b)
  BY <1>8 DEF Concludes, Fails, Performs, Heard
<1>9. CASE PollFires \/ WakeFires
  BY <1>9 DEF PollFires, WakeFires, Ticks, Begins, Heard
<1>10. CASE \E w \in asking : Answered(w)
  <2>1. PICK w \in asking : Answered(w)
    BY <1>10
  <2> SUFFICES ASSUME phase' = "idle", ~stopped',
                      NEW i \in Free(status') \ (passed' \cup unheard')
               PROVE  \E u \in asking' \cup {waking', poll'} : u <= due'[i]
    BY DEF Heard
  <2>2. /\ phase = "idle" /\ ~stopped /\ poll' = poll /\ due' = due
        /\ asking' = asking \ {w} /\ i \in Free(status) \ (passed \cup unheard)
    BY <2>1 DEF Answered, queue, looks, pass
  <2>3. /\ w \in Nat /\ waking \in Nat /\ waking' \in Nat /\ due[i] \in Nat
        /\ waking' <= waking /\ waking' <= w
    BY <2>1, <2>2 DEF Answered, Runs, Sooner, TypeOK, Free
  <2>4. PICK u \in asking \cup {waking, poll} : u <= due[i]
    BY <2>2 DEF Heard
  <2>5. CASE u \in {w, waking}
    BY <2>2, <2>3, <2>4, <2>5
  <2>6. CASE u \notin {w, waking}
    BY <2>2, <2>4, <2>6
  <2> QED
    BY <2>5, <2>6
<1>11. CASE Tick
  <2> SUFFICES ASSUME phase' = "idle", ~stopped',
                      NEW i \in Free(status') \ (passed' \cup unheard')
               PROVE  \E u \in asking' \cup {waking', poll'} : u <= due'[i]
    BY DEF Heard
  <2>1. /\ phase = "idle" /\ ~stopped /\ asking = {}
        /\ i \in Free(status) \ (passed \cup unheard)
        /\ due'[i] = Less(due[i]) /\ poll' = Less(poll)
        /\ due[i] \in Nat /\ poll \in Nat /\ poll <= Poll /\ waking \in Nat
    BY <1>11 DEF Tick, Turns, pass, Free, TypeOK
  <2>2. PICK u \in {waking, poll} : u <= due[i]
    BY <2>1 DEF Heard
  <2>3. CASE poll <= due[i]
    BY <2>1, <2>3, LessMonotone
  <2>4. CASE u = waking /\ waking # Poll
    <3>1. waking' = Less(waking)
      BY <1>11, <2>4 DEF Tick
    <3> QED
      BY <2>1, <2>2, <2>4, <3>1, LessMonotone
  <2> QED
    BY <2>1, <2>2, <2>3, <2>4
<1>12. CASE \E j \in Jobs : LeaseLapses(j)
  <2>1. Free(status') \ passed' \subseteq Free(status) \ passed
    BY <1>12 DEF LeaseLapses, Free, TypeOK
  <2>2. UNCHANGED <<due, phase, poll, waking, asking, stopped, unheard>>
    BY <1>12 DEF LeaseLapses, pass, timers
  <2> QED
    BY <2>1, <2>2 DEF Heard
<1>13. CASE UNCHANGED vars
  BY <1>13 DEF vars, queue, looks, pass, timers, Heard
<1> QED
  BY <1>2, <1>3, <1>4, <1>5, <1>6, <1>7, <1>8, <1>9, <1>10, <1>11, <1>12, <1>13
     DEF Next, Others, Passes, Timers, Time

-----------------------------------------------------------------------------
LEMMA Invariance == Spec => []IInv
<1>1. IInv /\ [Next]_vars => IInv'
  BY TypesStep, PassedDueStep, HeardStep, QuietStep, OwedDueStep, InHandStep,
     NotYetTriedStep, BehindStep DEF IInv
<1> QED
  BY InitInv, <1>1, PTL DEF Spec

\* Every variable of the runner keeps its type.
THEOREM Types == Spec => []TypeOK
<1>1. IInv => TypeOK
  BY DEF IInv
<1> QED
  BY Invariance, <1>1, PTL

\* runner.ts, wake: however passes, failures, timers and answers fall together,
\* between passes a job that is to come due has a timer no later than itself.
THEOREM AwaitedAlways == Spec => []Awaited
<1>1. IInv => Awaited
  <2> SUFFICES ASSUME IInv, phase = "idle", asking = {}, ~stopped,
                      NEW j \in Free(status) \ (passed \cup unheard)
               PROVE  waking <= due[j] \/ poll <= due[j]
    BY DEF Awaited
  <2>1. \E w \in {waking, poll} : w <= due[j]
    BY DEF IInv, Heard
  <2> QED
    BY <2>1
<1> QED
  BY Invariance, <1>1, PTL

\* runner.ts, drain: a drain that is answered did everything due when it was
\* asked, but for jobs left leased by a pass that threw whose leases had not
\* lapsed by the claim, and those behind a whole batch of older ones it attempted.
THEOREM DrainsDo == Spec => DrainDoes
<1> DEFINE Does == \A c \in Callers :
                     caller[c] = "joined" /\ caller'[c] = "none" /\ faults' = faults
                       => \A j \in owed[c] :
                             \/ status[j] = "left"
                             \/ status[j] = "lapsed" /\ j \notin passed
                             \/ Blocked(j, attempted)
<1>1. IInv /\ [Next]_vars => [Does]_vars
  <2> SUFFICES ASSUME IInv, Next,
                      NEW c \in Callers,
                      caller[c] = "joined", caller'[c] = "none", faults' = faults,
                      NEW j \in owed[c],
                      status[j] # "left",
                      ~(status[j] = "lapsed" /\ j \notin passed)
               PROVE  Blocked(j, attempted)
    OBVIOUS
  <2> USE RunnerAssumption
  <2>1. EndPass
    <3>1. faults \in Nat
      BY DEF IInv, TypeOK
    <3>2. ~Throws
      BY <3>1 DEF Throws, Fault
    <3>3. ~\E d \in Callers : AskToDrain(d)
      <4> SUFFICES ASSUME NEW d \in Callers, AskToDrain(d) PROVE FALSE
        OBVIOUS
      <4>1. CASE d = c
        BY <4>1 DEF AskToDrain
      <4>2. CASE d # c
        BY <4>2 DEF AskToDrain, IInv, TypeOK
      <4> QED
        BY <4>1, <4>2
    <3>4. caller' # caller
      OBVIOUS
    <3> QED
      BY <3>2, <3>3, <3>4
         DEF Next, Others, Passes, Timers, Time, Make, Cancel, Stop, Claim, Sort, Concludes,
             Fails, Performs, PollFires, WakeFires, Answered, Tick, LeaseLapses, drains
  <2>2. /\ Cardinality(leased) = Batch /\ \A k \in leased : k < j
        /\ leased \subseteq attempted
    <3>1. leased \subseteq attempted
      BY <2>1 DEF EndPass, Again
    <3>2. j \in Jobs /\ status[j] \in {"free", "leased", "lapsed"}
      BY DEF IInv, TypeOK, OwedDue, Stages
    <3>3. status[j] # "leased"
      BY <3>1, <3>2 DEF IInv, InHand, NotYetTried
    <3>4. j \in Within
      BY <3>2, <3>3 DEF Within, Free
    <3> QED
      BY <2>1, <3>1, <3>4 DEF EndPass, IInv, Behind
  <2> DEFINE before == {k \in attempted : k < j}
  <2>3. leased \subseteq before
    BY <2>2
  <2>4. IsFiniteSet(before)
    <3>1. before \subseteq Jobs
      BY DEF IInv, TypeOK
    <3> QED
      BY <3>1, FS_Subset
  <2>5. Cardinality(leased) <= Cardinality(before)
    BY <2>3, <2>4, FS_Subset
  <2>6. Cardinality(before) >= Batch
    BY <2>2, <2>5, <2>4, FS_CardinalityType
  <2> QED
    BY <2>6 DEF Blocked
<1> QED
  BY Invariance, <1>1, PTL DEF Spec, DrainDoes

\* runner.ts, stop: a stopped runner between passes hears out what it had asked
\* without setting a timer, so that only a drain starts a pass.
THEOREM StaysStopped == Spec => StoppedStays
<1>1. IInv /\ [Next]_vars
        => [stopped /\ phase = "idle" /\ drains' = drains
              => phase' = "idle" /\ waking' = Poll]_vars
  <2> SUFFICES ASSUME IInv, Next, stopped, phase = "idle", drains' = drains
               PROVE  phase' = "idle" /\ waking' = Poll
    OBVIOUS
  <2>1. waking = Poll
    BY DEF IInv, StoppedQuiet
  <2>2. ~PollFires /\ ~WakeFires
    <3>1. ~PollFires
      BY DEF PollFires
    <3>2. ~(waking < Poll)
      BY <2>1, RunnerAssumption
    <3> QED
      BY <3>1, <3>2 DEF WakeFires
  <2>3. ~\E c \in Callers : AskToDrain(c)
    BY DEF AskToDrain, Joins, drains, IInv, TypeOK
  <2> QED
    BY <2>1, <2>2, <2>3
       DEF Next, Others, Passes, Timers, Time, Make, Cancel, Stop, Claim, Sort, EndPass,
           Concludes, Fails, Performs, Throws, Answered, Runs, Tick, LeaseLapses, pass, timers
<1> QED
  BY Invariance, <1>1, PTL DEF Spec, StoppedStays
=============================================================================
