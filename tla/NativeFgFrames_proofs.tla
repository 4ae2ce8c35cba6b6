------------------------- MODULE NativeFgFrames_proofs --------------------------
(***************************************************************************)
(* Theorems about one source frame in native_fg.cpp, for every size of the *)
(* ring of frame owners and of the host's token ring, every number of      *)
(* frames, provider switches and skipped joins: frames own their ring      *)
(* entries, the next token is free, joins end with their own Present, and  *)
(* what is generated was begun in the session that generates it.           *)
(***************************************************************************)
EXTENDS NativeFgFrames, TLAPS

-------------------------------------------------------------------------------
\* The ring.

\* Division with remainder.
LEMMA DivMod == \A a \in Nat : /\ a = Ring * (a \div Ring) + (a % Ring)
                               /\ a % Ring \in 0 .. (Ring - 1) /\ a \div Ring \in Nat
  BY RingAssumption

\* Two multiples of the ring's size differ by the size.
LEMMA MultiplesApart == ASSUME NEW x \in Int, NEW y \in Int, x < y PROVE Ring * y >= Ring * x + Ring
  BY RingAssumption

\* Their order is the order of their factors.
LEMMA MultiplesOrdered == ASSUME NEW x \in Int, NEW y \in Int, Ring * x < Ring * y PROVE x < y
  BY RingAssumption

\* Two frames less than a ring apart have entries of their own.
LEMMA EntriesDiffer ==
  ASSUME NEW a \in Nat, NEW b \in Nat, a < b, b < a + Ring
  PROVE  a % Ring # b % Ring
  <1> SUFFICES ASSUME a % Ring = b % Ring PROVE FALSE
    OBVIOUS
  <1> DEFINE x == a \div Ring
             y == b \div Ring
  <1>1. a = Ring * x + (a % Ring) /\ b = Ring * y + (b % Ring) /\ x \in Nat /\ y \in Nat
    BY DivMod
  <1>2. a % Ring \in Int
    BY DivMod
  <1> HIDE DEF x, y
  <1>3. Ring * x \in Int /\ Ring * y \in Int
    BY <1>1, RingAssumption
  <1>4. Ring * x < Ring * y /\ Ring * y < Ring * x + Ring
    BY <1>1, <1>2, <1>3, RingAssumption
  <1>5. x < y
    BY <1>1, <1>4, MultiplesOrdered
  <1> QED BY <1>1, <1>3, <1>4, <1>5, MultiplesApart, RingAssumption

-------------------------------------------------------------------------------
\* The threads: what each variable but the rings is.

ThreadTypes ==
    /\ host \in BOOLEAN /\ threaded \in BOOLEAN
    /\ game \in [at : GameAt, id : Nat, gen : Nat, ok : BOOLEAN]
    /\ rhi \in [at : RhiAt, id : Nat \ {0}, then : RhiAt]
    /\ presentedThrough \in Nat /\ signalled \in BOOLEAN /\ joinSkip \in 0 .. Skip
    /\ generation \in Nat \ {0} /\ hostPaced \in BOOLEAN
    /\ paces \in 0 .. Skip

RingTypes ==
    /\ cpu \in [0 .. (Ring - 1) -> [stage : Stages, failed : BOOLEAN, ended : BOOLEAN]]
    /\ frames \in [0 .. (Ring - 1) -> Owner]
    /\ begun \in [0 .. (Ring - 1) -> Nat]

PoolTypes ==
    /\ tokens \in [0 .. (Tokens - 1) -> [id : Nat, markers : SUBSET Markers]]
    /\ cursor \in 0 .. (Tokens - 1)

\* An entry of the ring.
LEMMA Index == \A id \in Nat : id % Ring \in 0 .. (Ring - 1)
  BY RingAssumption

\* The initial values.
LEMMA InitTypes == Init => ThreadTypes /\ RingTypes /\ PoolTypes
  <1> SUFFICES ASSUME Init PROVE ThreadTypes /\ RingTypes /\ PoolTypes
    OBVIOUS
  <1>1. ThreadTypes
    <2>1. host \in BOOLEAN /\ threaded \in BOOLEAN /\ hostPaced \in BOOLEAN /\ signalled \in BOOLEAN
      BY DEF Init
    <2>2. game \in [at : GameAt, id : Nat, gen : Nat, ok : BOOLEAN]
      BY DEF Init, GameAt
    <2>3. rhi \in [at : RhiAt, id : Nat \ {0}, then : RhiAt]
      BY DEF Init, RhiAt
    <2> QED BY <2>1, <2>2, <2>3, SkipAssumption DEF Init, ThreadTypes
  <1>2. RingTypes
    BY RingAssumption DEF Init, RingTypes, NewCpu, NewOwner, Owner, Stages
  <1>3. PoolTypes
    BY RingAssumption DEF Init, PoolTypes, Free
  <1> QED BY <1>1, <1>2, <1>3

\* The threads' steps.
LEMMA ThreadTypesStep == ThreadTypes /\ [Next]_vars => ThreadTypes'
  <1> SUFFICES ASSUME ThreadTypes, [Next]_vars PROVE ThreadTypes'
    OBVIOUS
  <1> USE SkipAssumption DEF ThreadTypes, GameAt, RhiAt, fixed, ledger, joins, pool, session, history
  <1>1. CASE FrameBegin
    <2>1. PICK next \in Nat : game' = [game EXCEPT !.at = "begun", !.id = next]
      <3>1. game.id + 1 \in Nat
        OBVIOUS
      <3> QED BY <1>1, <3>1, Zenon DEF FrameBegin
    <2>2. UNCHANGED <<fixed, rhi, joins, session, paces>>
      BY <1>1 DEF FrameBegin
    <2>3. game' \in [at : GameAt, id : Nat, gen : Nat, ok : BOOLEAN]
      BY <2>1
    <2> QED BY <2>2, <2>3
  <1>2. CASE PassUnjoined
    BY <1>2 DEF PassUnjoined
  <1>3. CASE StartJoin
    BY <1>3 DEF StartJoin
  <1>4. CASE Wake
    BY <1>4 DEF Wake, WakeTo
  <1>5. CASE TimeOut
    BY <1>5 DEF TimeOut, TimeOutThen
  <1>6. CASE Answer
    BY <1>6 DEF Answer, AnswerAt
  <1>7. CASE CallBegin
    <2>1. PICK at \in {"slept", "sleeping"}, ok \in BOOLEAN, gen \in {0, generation} :
                 game' = [game EXCEPT !.at = at, !.ok = ok, !.gen = gen]
      BY <1>7, Zenon DEF CallBegin
    <2>2. UNCHANGED <<fixed, rhi, joins, session, paces>>
      BY <1>7 DEF CallBegin
    <2>3. gen \in Nat
      BY <2>1
    <2>4. game' \in [at : GameAt, id : Nat, gen : Nat, ok : BOOLEAN]
      BY <2>1, <2>3
    <2> QED BY <2>2, <2>4
  <1>8. CASE SleepReturns
    <2>1. PICK ok \in BOOLEAN : game' = [game EXCEPT !.at = "slept", !.ok = ok]
      BY <1>8 DEF SleepReturns
    <2>2. UNCHANGED <<fixed, rhi, joins, session, paces>>
      BY <1>8 DEF SleepReturns
    <2> QED BY <2>1, <2>2
  <1>9. CASE RecordBegin
    BY <1>9 DEF RecordBegin, RecordWith
  <1>10. CASE Simulate
    BY <1>10 DEF Simulate
  <1>11. CASE FrameEndRefused
    BY <1>11 DEF FrameEndRefused
  <1>12. CASE FrameEnd
    BY <1>12 DEF FrameEnd
  <1>13. CASE RecordEnd
    BY <1>13 DEF RecordEnd
  <1>14. CASE GameRaise
    BY <1>14 DEF GameRaise, Raised
  <1>15. CASE GameSignal
    BY <1>15 DEF GameSignal
  <1>16. CASE Submission
    BY <1>16 DEF Submission
  <1>17. CASE NoSubmission
    BY <1>17 DEF NoSubmission
  <1>18. CASE PresentBegin
    BY <1>18 DEF PresentBegin
  <1>19. CASE Send
    BY <1>19 DEF Send
  <1>20. CASE PresentEnd
    BY <1>20 DEF PresentEnd, Completing
  <1>21. CASE SwitchStart
    BY <1>21 DEF SwitchStart
  <1>22. CASE SwitchEnd
    <2>1. generation' \in {generation, generation + 1} /\ hostPaced' \in BOOLEAN
      BY <1>22 DEF SwitchEnd
    <2>2. UNCHANGED <<fixed, game, joins, paces>> /\ rhi' = [rhi EXCEPT !.at = "switched"]
      BY <1>22 DEF SwitchEnd
    <2> QED BY <2>1, <2>2
  <1>23. CASE WindowEnd
    BY <1>23 DEF WindowEnd, Completing
  <1>24. CASE RhiFrameEnd
    <2>1. PICK next \in Nat \ {0} : rhi' = [rhi EXCEPT !.at = "raise", !.then = "open", !.id = next]
      <3>1. rhi.id + 1 \in Nat \ {0}
        OBVIOUS
      <3>2. rhi' = [rhi EXCEPT !.at = "raise", !.then = "open", !.id = rhi.id + 1]
        BY <1>24 DEF RhiFrameEnd, RhiFrameEndIf, Completing
      <3> QED BY <3>1, <3>2, Zenon
    <2>2. UNCHANGED <<fixed, game, joins, session, paces>>
      BY <1>24 DEF RhiFrameEnd, RhiFrameEndIf
    <2>3. rhi' \in [at : RhiAt, id : Nat \ {0}, then : RhiAt]
      BY <2>1
    <2> QED BY <2>2, <2>3
  <1>25. CASE RhiRaise
    BY <1>25 DEF RhiRaise, Raised
  <1>26. CASE RhiSignal
    BY <1>26 DEF RhiSignal
  <1>27. CASE UNCHANGED vars
    BY <1>27 DEF vars
  <1> QED
    BY <1>1, <1>2, <1>3, <1>4, <1>5, <1>6, <1>7, <1>8, <1>9, <1>10, <1>11, <1>12, <1>13, <1>14,
       <1>15, <1>16, <1>17, <1>18, <1>19, <1>20, <1>21, <1>22, <1>23, <1>24, <1>25, <1>26, <1>27
    DEF Next, GameRuns, RhiRuns

\* What may be changed in an entry.
LEMMA EntryChanged ==
  ASSUME NEW entry \in Owner, NEW flag \in BOOLEAN, NEW gen \in Nat
  PROVE  /\ [entry EXCEPT !.gen = gen, !.failed = flag] \in Owner
         /\ [entry EXCEPT !.ended = TRUE, !.failed = flag] \in Owner
         /\ [entry EXCEPT !.failed = flag] \in Owner
         /\ [entry EXCEPT !.submitted = TRUE] \in Owner
  BY DEF Owner

\* The rings' steps.
LEMMA RingTypesStep == ThreadTypes /\ RingTypes /\ [Next]_vars => RingTypes'
  <1> SUFFICES ASSUME ThreadTypes, RingTypes, [Next]_vars PROVE RingTypes'
    OBVIOUS
  <1>0. ASSUME NEW id \in Nat, NEW entry \in Owner, WithFrame(id, entry)
        PROVE  frames' \in [0 .. (Ring - 1) -> Owner]
    BY <1>0, Index DEF RingTypes, WithFrame, EntryOf
  <1>e. \A id \in Nat : EntryOf(id) \in Owner
    BY Index DEF EntryOf, RingTypes
  <1>r. game.id \in Nat /\ rhi.id \in Nat /\ game.gen \in Nat /\ game.ok \in BOOLEAN /\ generation \in Nat
    BY DEF ThreadTypes
  <1> USE DEF fixed, ledger, joins, pool, session, history
  <1>1. CASE FrameBegin
    <2>1. game.id + 1 \in Nat
      BY <1>r
    <2>2. cpu' \in [0 .. (Ring - 1) -> [stage : Stages, failed : BOOLEAN, ended : BOOLEAN]]
      BY <1>1, <2>1, Index DEF FrameBegin, RingTypes, NewCpu, Stages
    <2>3. PICK acquired \in BOOLEAN : Entered(game.id + 1, acquired)
      BY <1>1 DEF FrameBegin
    <2>4. NewOwner(game.id + 1, ~acquired) \in Owner
      BY <2>1 DEF NewOwner, Owner
    <2>5. frames' \in [0 .. (Ring - 1) -> Owner]
      BY <2>1, <2>3, <2>4, Index DEF Entered, EnteredOver, RingTypes
    <2>6. begun' \in [0 .. (Ring - 1) -> Nat]
      BY <1>1, <2>1, Index DEF FrameBegin, RingTypes
    <2> QED BY <2>2, <2>5, <2>6 DEF RingTypes
  <1>2. CASE CallBegin \/ SleepReturns
    <2>1. cpu' = cpu /\ frames' = frames
      BY <1>2 DEF CallBegin, SleepReturns
    <2>2. begun' = begun \/ begun' = [begun EXCEPT ![game.id % Ring] = generation]
      BY <1>2 DEF CallBegin, SleepReturns
    <2> QED BY <2>1, <2>2, <1>r, Index DEF RingTypes
  <1>3. CASE RecordBegin
    <2>1. [EntryOf(game.id) EXCEPT !.gen = game.gen, !.failed = @ \/ ~game.ok] \in Owner
      <3>1. (EntryOf(game.id).failed \/ ~game.ok) \in BOOLEAN
        BY Zenon
      <3> QED BY <1>e, <1>r, <3>1, EntryChanged
    <2> QED BY <1>3, <1>0, <1>r, <2>1 DEF RecordBegin, RecordWith, RingTypes
  <1>4. CASE Simulate
    BY <1>4, <1>r, Index DEF Simulate, RingTypes, Stages
  <1>5. CASE FrameEndRefused
    BY <1>5, <1>r, Index DEF FrameEndRefused, RingTypes, Stages
  <1>6. CASE FrameEnd
    BY <1>6, <1>r, Index DEF FrameEnd, RingTypes, Stages
  <1>7. CASE RecordEnd
    <2>1. [EntryOf(game.id) EXCEPT !.ended = TRUE, !.failed = @ \/ Partial(game.id)] \in Owner
      <3>1. (EntryOf(game.id).failed \/ Partial(game.id)) \in BOOLEAN
        BY Zenon
      <3> QED BY <1>e, <1>r, <3>1, EntryChanged
    <2> QED BY <1>7, <1>0, <1>r, <2>1 DEF RecordEnd, RingTypes
  <1>8. CASE Submission
    <2>0. /\ \A k \in DOMAIN frames : frames[k] \in Owner
          /\ DOMAIN frames = 0 .. (Ring - 1)
      BY DEF RingTypes
    <2>1. frames' \in [0 .. (Ring - 1) -> Owner]
      <3>1. ASSUME NEW k \in DOMAIN frames
            PROVE  /\ [frames[k] EXCEPT !.failed = TRUE] \in Owner
                   /\ [EntryOf(rhi.id) EXCEPT !.submitted = TRUE] \in Owner
        BY <1>e, <1>r, <2>0, EntryChanged
      <3> QED BY <1>8, <2>0, <3>1 DEF Submission
    <2> QED BY <1>8, <2>1 DEF Submission, RingTypes
  <1>9. CASE WindowEnd
    <2>1. [EntryOf(rhi.id) EXCEPT !.failed = TRUE] \in Owner
      BY <1>e, <1>r DEF Owner
    <2> QED BY <1>9, <1>0, <1>r, <2>1 DEF WindowEnd, RingTypes
  <1>10. CASE UNCHANGED <<cpu, frames, begun>>
    BY <1>10 DEF RingTypes
  <1>11. \/ FrameBegin \/ CallBegin \/ SleepReturns \/ RecordBegin \/ Simulate \/ FrameEndRefused
         \/ FrameEnd \/ RecordEnd \/ Submission \/ WindowEnd \/ UNCHANGED <<cpu, frames, begun>>
    BY DEF Next, GameRuns, RhiRuns, vars, PassUnjoined, StartJoin, Wake, WakeTo, TimeOut, TimeOutThen,
           Answer, AnswerAt, GameRaise, GameSignal, NoSubmission, PresentBegin, Send, PresentEnd,
           SwitchStart, SwitchEnd, RhiFrameEnd, RhiFrameEndIf, RhiRaise, RhiSignal
  <1> QED
    BY <1>1, <1>2, <1>3, <1>4, <1>5, <1>6, <1>7, <1>8, <1>9, <1>10, <1>11

\* The token ring's steps.
LEMMA PoolTypesStep == ThreadTypes /\ PoolTypes /\ [Next]_vars => PoolTypes'
  <1> SUFFICES ASSUME ThreadTypes, PoolTypes, [Next]_vars PROVE PoolTypes'
    OBVIOUS
  <1> DEFINE Token == [id : Nat, markers : SUBSET Markers]
  <1>0. Free \in Token
    BY DEF Free
  <1>1. ASSUME NEW id, NEW markers \in SUBSET Markers
        PROVE  Marked(id, markers) \in [0 .. (Tokens - 1) -> Token]
    BY <1>0 DEF Marked, PoolTypes
  <1>2. ASSUME NEW ids
        PROVE  Released(ids) \in [0 .. (Tokens - 1) -> Token]
    BY <1>0 DEF Released, PoolTypes
  <1> USE DEF fixed, ledger, joins, pool, session, history
  <1>3. CASE FrameBegin
    <2>1. [Free EXCEPT !.id = game.id + 1] \in Token
      BY DEF Free, ThreadTypes
    <2>2. tokens' = tokens \/ tokens' = [tokens EXCEPT ![cursor] = [Free EXCEPT !.id = game.id + 1]]
      BY <1>3 DEF FrameBegin
    <2>3. tokens' \in [0 .. (Tokens - 1) -> Token]
      BY <2>1, <2>2 DEF PoolTypes
    <2>4. cursor' \in {cursor, (cursor + 1) % Tokens}
      BY <1>3 DEF FrameBegin
    <2>5. cursor' \in 0 .. (Tokens - 1)
      BY <2>4, RingAssumption DEF PoolTypes
    <2> QED BY <2>3, <2>5 DEF PoolTypes
  <1>4. CASE Submission
    <2>1. {"submitStart"} \in SUBSET Markers
      BY DEF Markers
    <2>2. Marked(rhi.id, {"submitStart"}) \in [0 .. (Tokens - 1) -> Token]
      BY <1>1, <2>1
    <2>3. tokens' \in [0 .. (Tokens - 1) -> Token]
      BY <1>0, <1>4, <2>2 DEF Submission, PoolTypes
    <2> QED BY <1>4, <2>3 DEF Submission, PoolTypes
  <1>5. CASE cursor' = cursor /\ \/ tokens' = tokens
                                 \/ \E id, markers : markers \in SUBSET Markers /\ tokens' = Marked(id, markers)
                                 \/ \E ids : tokens' = Released(ids)
    BY <1>1, <1>2, <1>5 DEF PoolTypes
  <1>6. CASE Simulate \/ FrameEnd
    BY <1>5, <1>6 DEF Simulate, FrameEnd, GameAbort, Markers
  <1>7. CASE PresentBegin
    BY <1>5, <1>7 DEF PresentBegin, Markers
  <1>8. CASE PresentEnd \/ WindowEnd
    BY <1>5, <1>8 DEF PresentEnd, WindowEnd, Markers
  <1>9. CASE RhiFrameEnd
    BY <1>5, <1>9 DEF RhiFrameEnd, RhiFrameEndIf, Markers
  <1>10. CASE UNCHANGED <<tokens, cursor>>
    BY <1>10, SMTT(30) DEF PoolTypes
  <1>11. \/ FrameBegin \/ Submission \/ Simulate \/ FrameEnd \/ PresentBegin \/ PresentEnd \/ WindowEnd
         \/ RhiFrameEnd \/ UNCHANGED <<tokens, cursor>>
    BY DEF Next, GameRuns, RhiRuns, vars, PassUnjoined, StartJoin, Wake, WakeTo, TimeOut, TimeOutThen,
           Answer, AnswerAt, CallBegin, SleepReturns, RecordBegin, RecordWith, FrameEndRefused, RecordEnd,
           GameRaise, GameSignal, NoSubmission, Send, SwitchStart, SwitchEnd, RhiRaise, RhiSignal
  <1> QED
    BY <1>3, <1>4, <1>6, <1>7, <1>8, <1>9, <1>10, <1>11

TypesInv == ThreadTypes /\ RingTypes /\ PoolTypes

\* Every step keeps the types.
LEMMA TypesStep == TypesInv /\ [Next]_vars => TypesInv'
  BY ThreadTypesStep, RingTypesStep, PoolTypesStep DEF TypesInv

-------------------------------------------------------------------------------
\* The pause after a join that timed out.

\* What is left of the pause and what has passed of it are the whole pause, and more.
PauseInv ==
    /\ game.at = "waiting" => joinSkip = 0
    /\ joinSkip + paces >= Skip

\* Every step keeps the pause.
LEMMA PauseStep == ThreadTypes /\ PauseInv /\ [Next]_vars => PauseInv'
  <1> SUFFICES ASSUME ThreadTypes, PauseInv, [Next]_vars PROVE PauseInv'
    OBVIOUS
  <1> USE SkipAssumption DEF PauseInv, joins, history
  <1>1. CASE PassUnjoined
    <2>1. game'.at = "pacing"
      BY <1>1 DEF PassUnjoined, ThreadTypes
    <2> QED BY <1>1, <2>1 DEF PassUnjoined, ThreadTypes
  <1>2. CASE StartJoin
    BY <1>2 DEF StartJoin
  <1>3. CASE TimeOut
    <2>1. game'.at = "pacing"
      BY <1>3 DEF TimeOut, TimeOutThen, ThreadTypes
    <2> QED BY <1>3, <2>1 DEF TimeOut, TimeOutThen
  <1>4. CASE (game'.at = "waiting" => game.at = "waiting") /\ joinSkip' = joinSkip /\ paces' = paces
    BY <1>4
  <1>5. CASE FrameBegin \/ Wake \/ CallBegin \/ SleepReturns \/ RecordBegin \/ FrameEndRefused \/ FrameEnd \/ RecordEnd
             \/ GameRaise \/ GameSignal
    <2>1. joinSkip' = joinSkip /\ paces' = paces
      BY <1>5 DEF FrameBegin, Wake, WakeTo, CallBegin, SleepReturns, RecordBegin, RecordWith, FrameEndRefused, FrameEnd,
                  RecordEnd, GameRaise, GameSignal
    <2>2. game.at = "waiting" \/ game'.at # "waiting"
      BY <1>5 DEF FrameBegin, Wake, WakeTo, CallBegin, SleepReturns, RecordBegin, RecordWith, FrameEndRefused, FrameEnd,
                  RecordEnd, GameRaise, GameSignal, ThreadTypes
    <2> QED BY <1>4, <2>1, <2>2, SMTT(30)
  <1>6. CASE UNCHANGED <<game, joinSkip, paces>>
    BY <1>6
  <1>7. \/ PassUnjoined \/ StartJoin \/ TimeOut \/ FrameBegin \/ Wake \/ CallBegin \/ SleepReturns \/ RecordBegin
        \/ FrameEndRefused \/ FrameEnd \/ RecordEnd \/ GameRaise \/ GameSignal \/ UNCHANGED <<game, joinSkip, paces>>
    BY DEF Next, GameRuns, RhiRuns, vars, Answer, AnswerAt, Simulate, Submission, NoSubmission, PresentBegin, Send,
           PresentEnd, SwitchStart, SwitchEnd, WindowEnd, RhiFrameEnd, RhiFrameEndIf, RhiRaise, RhiSignal
  <1> QED BY <1>1, <1>2, <1>3, <1>5, <1>6, <1>7

\* A Present that is stuck costs the game thread one bounded wait in every pause.
THEOREM OneWait == Spec => []OneWaitPerPause
  <1>1. Init => PauseInv
    BY SkipAssumption DEF Init, PauseInv
  <1>2. Init => TypesInv
    BY InitTypes DEF TypesInv
  <1>3. TypesInv /\ PauseInv /\ [Next]_vars => (TypesInv /\ PauseInv)'
    BY TypesStep, PauseStep DEF TypesInv
  <1>4. PauseInv /\ TypesInv => OneWaitPerPause
    BY DEF PauseInv, TypesInv, ThreadTypes, OneWaitPerPause
  <1> QED BY <1>1, <1>2, <1>3, <1>4, PTL DEF Spec

-------------------------------------------------------------------------------
\* The order of the threads, and the frames that own their entries.

\* The RHI thread has begun its frame.
RhiBegan ==
    \/ rhi.at \in {"drawn", "presenting", "sending", "returning", "presented", "switching", "switched", "closing"}
    \/ rhi.at \in {"raise", "signal"} /\ rhi.then # "open"

\* The RHI thread is at the game thread's frame or an older one, and behind its pacing boundary.
OrderInv ==
    /\ game.id <= MaxFrame /\ (game.id = 0 => game.at = "between")
    /\ rhi.id <= game.id + 1
    /\ rhi.id = game.id + 1 => game.at \in Closing \union {"running"}
    /\ RhiBegan => Queued
    /\ rhi.then \in {"open", "presented", "closing"}

\* Steps that leave both frames alone, the game thread's going no way back over its boundary.
LEMMA OrderKept ==
  ASSUME ThreadTypes, OrderInv, game'.id = game.id, rhi'.id = rhi.id, rhi'.then = rhi.then,
         game.at \in Closing \union {"running"} => game'.at \in Closing \union {"running"},
         RhiBegan' => RhiBegan, game.at # "between" \/ game'.at = "between"
  PROVE  OrderInv'
  BY DEF OrderInv, Queued, Past, ThreadTypes

\* The game thread's steps within a frame keep the order.
LEMMA GameOrder ==
  ASSUME ThreadTypes, OrderInv,
         \/ PassUnjoined \/ StartJoin \/ Wake \/ TimeOut \/ CallBegin \/ SleepReturns \/ RecordBegin \/ Simulate
         \/ FrameEndRefused \/ FrameEnd \/ RecordEnd \/ GameRaise \/ GameSignal
  PROVE  game'.id = game.id /\ rhi' = rhi /\ OrderInv'
  <1> USE DEF fixed
  <1>1. rhi' = rhi
    BY DEF PassUnjoined, StartJoin, Wake, WakeTo, TimeOut, TimeOutThen, CallBegin, SleepReturns, RecordBegin, RecordWith,
           Simulate, FrameEndRefused, FrameEnd, RecordEnd, GameRaise, GameSignal
  <1>2. game'.id = game.id
    BY DEF PassUnjoined, StartJoin, Wake, WakeTo, TimeOut, TimeOutThen, CallBegin, SleepReturns, RecordBegin, RecordWith,
           Simulate, FrameEndRefused, FrameEnd, RecordEnd, GameRaise, GameSignal, ThreadTypes
  <1>3. /\ game.at \in Closing \union {"running"} => game'.at \in Closing \union {"running"}
        /\ game.at # "between" \/ game'.at = "between"
    BY DEF PassUnjoined, StartJoin, Wake, WakeTo, TimeOut, TimeOutThen, CallBegin, SleepReturns, RecordBegin, RecordWith,
           Simulate, FrameEndRefused, FrameEnd, RecordEnd, GameRaise, GameSignal, ThreadTypes, Closing
  <1> QED BY <1>1, <1>2, <1>3, OrderKept, SMTT(30) DEF RhiBegan

\* The RHI thread's steps within a frame keep the order.
LEMMA RhiOrder ==
  ASSUME ThreadTypes, OrderInv,
         \/ Answer \/ Submission \/ NoSubmission \/ PresentBegin \/ Send \/ PresentEnd \/ SwitchStart \/ SwitchEnd
         \/ WindowEnd \/ RhiRaise \/ RhiSignal
  PROVE  game' = game /\ rhi'.id = rhi.id /\ OrderInv'
  <1> USE DEF fixed, ThreadTypes
  <1>1. game' = game
    BY DEF Answer, AnswerAt, Submission, NoSubmission, PresentBegin, Send, PresentEnd, SwitchStart, SwitchEnd, WindowEnd,
           RhiRaise, RhiSignal
  <1>2. rhi'.id = rhi.id
    BY DEF Answer, AnswerAt, Submission, NoSubmission, PresentBegin, Send, PresentEnd, SwitchStart, SwitchEnd, WindowEnd,
           RhiRaise, RhiSignal, Completing
  <1>3. rhi'.then \in {"open", "presented", "closing"}
    BY DEF Answer, AnswerAt, Submission, NoSubmission, PresentBegin, Send, PresentEnd, SwitchStart, SwitchEnd, WindowEnd,
           RhiRaise, RhiSignal, Completing, OrderInv
  <1>4. RhiBegan' => RhiBegan \/ Queued
    <2>1. CASE Submission \/ NoSubmission
      BY <2>1 DEF Submission, NoSubmission
    <2>2. CASE RhiSignal
      BY <2>2 DEF RhiSignal, RhiBegan
    <2>3. CASE \/ Answer \/ PresentBegin \/ Send \/ PresentEnd \/ SwitchStart \/ SwitchEnd \/ WindowEnd \/ RhiRaise
      BY <2>3 DEF Answer, AnswerAt, PresentBegin, Send, PresentEnd, SwitchStart, SwitchEnd, WindowEnd,
             RhiRaise, RhiBegan, Completing
    <2> QED BY <2>1, <2>2, <2>3
  <1> QED BY <1>1, <1>2, <1>3, <1>4 DEF OrderInv, Queued, Past

\* A new frame of either thread.
LEMMA FrameBeginOrder ==
  ASSUME ThreadTypes, OrderInv, FrameBegin
  PROVE  game'.id = game.id + 1 /\ game'.at = "begun" /\ rhi' = rhi /\ OrderInv' /\ rhi.id <= game.id + 1
  <1>1. game'.id = game.id + 1 /\ game'.at = "begun" /\ rhi' = rhi
    BY DEF FrameBegin, ThreadTypes
  <1>2. game.at = "between" /\ game.id < MaxFrame
    BY DEF FrameBegin
  <1> QED BY <1>1, <1>2, FramesAssumption DEF OrderInv, Queued, Past, RhiBegan, ThreadTypes

\* The RHI thread ends its frame only behind the game thread, so it stays the older of the two.
LEMMA RhiFrameEndOrder ==
  ASSUME ThreadTypes, OrderInv, RhiFrameEnd
  PROVE  rhi'.id = rhi.id + 1 /\ game' = game /\ OrderInv' /\ rhi.id <= game.id
  <1>1. rhi'.id = rhi.id + 1 /\ game' = game /\ rhi'.at = "raise" /\ rhi'.then = "open" /\ RhiBegan
    BY DEF RhiFrameEnd, RhiFrameEndIf, Completing, ThreadTypes, RhiBegan
  <1>2. rhi.id <= game.id /\ (rhi.id < game.id \/ game.at \in Closing \union {"running"})
    BY <1>1 DEF OrderInv, Queued, Past, ThreadTypes
  <1> QED BY <1>1, <1>2 DEF OrderInv, RhiBegan, ThreadTypes

\* No other step begins or ends a frame.
LEMMA OtherSteps ==
  ASSUME Next, ~FrameBegin, ~RhiFrameEnd
  PROVE  \/ PassUnjoined \/ StartJoin \/ Wake \/ TimeOut \/ CallBegin \/ SleepReturns \/ RecordBegin \/ Simulate
         \/ FrameEndRefused \/ FrameEnd \/ RecordEnd \/ GameRaise \/ GameSignal
         \/ Answer \/ Submission \/ NoSubmission \/ PresentBegin \/ Send \/ PresentEnd \/ SwitchStart \/ SwitchEnd
         \/ WindowEnd \/ RhiRaise \/ RhiSignal
  BY DEF Next, GameRuns, RhiRuns

\* Every step keeps the order.
LEMMA OrderStep == ThreadTypes /\ OrderInv /\ [Next]_vars => OrderInv'
  <1> SUFFICES ASSUME ThreadTypes, OrderInv, [Next]_vars PROVE OrderInv'
    OBVIOUS
  <1>1. CASE UNCHANGED vars
    BY <1>1 DEF OrderInv, RhiBegan, Queued, Past, vars
  <1> QED BY <1>1, FrameBeginOrder, RhiFrameEndOrder, OtherSteps, GameOrder, RhiOrder

\* Every frame between the threads owns its entry, and no entry is ahead of the game thread.
RingInv ==
    /\ \A id \in rhi.id .. game.id : Owns(id)
    /\ \A k \in 0 .. (Ring - 1) : frames[k].id <= game.id

\* Steps within a frame leave the entries' owners alone.
LEMMA OwnersKept ==
  ASSUME ThreadTypes, RingTypes, Next, ~FrameBegin
  PROVE  \A k \in 0 .. (Ring - 1) : frames'[k].id = frames[k].id
  <1> USE DEF RingTypes, Owner, ledger
  <1>0. game.id \in Nat /\ rhi.id \in Nat
    BY DEF ThreadTypes
  <1>w. ASSUME NEW id \in Nat, NEW entry, entry.id = EntryOf(id).id, WithFrame(id, entry)
        PROVE  \A k \in 0 .. (Ring - 1) : frames'[k].id = frames[k].id
    BY <1>w, Index DEF WithFrame, EntryOf
  <1>e. \A id \in Nat : EntryOf(id) \in Owner
    BY Index DEF EntryOf
  <1>1. CASE RecordBegin
    <2>1. [EntryOf(game.id) EXCEPT !.gen = game.gen, !.failed = @ \/ ~game.ok].id = EntryOf(game.id).id
      BY <1>0, <1>e
    <2> QED BY <1>0, <1>1, <1>w, <2>1 DEF RecordBegin, RecordWith
  <1>2. CASE RecordEnd
    <2>1. [EntryOf(game.id) EXCEPT !.ended = TRUE, !.failed = @ \/ Partial(game.id)].id = EntryOf(game.id).id
      BY <1>0, <1>e
    <2> QED BY <1>0, <1>2, <1>w, <2>1 DEF RecordEnd
  <1>3. CASE Submission
    BY <1>0, <1>3, Index DEF Submission, EntryOf
  <1>4. CASE WindowEnd
    <2>1. [EntryOf(rhi.id) EXCEPT !.failed = TRUE].id = EntryOf(rhi.id).id
      BY <1>0, <1>e
    <2> QED BY <1>0, <1>4, <1>w, <2>1 DEF WindowEnd
  <1>5. RecordBegin \/ RecordEnd \/ Submission \/ WindowEnd \/ frames' = frames
    BY DEF Next, GameRuns, RhiRuns, PassUnjoined, StartJoin, Wake, WakeTo, TimeOut, TimeOutThen,
           Answer, AnswerAt, CallBegin, SleepReturns, Simulate, FrameEndRefused, FrameEnd,
           GameRaise, GameSignal, NoSubmission, PresentBegin, Send, PresentEnd,
           SwitchStart, SwitchEnd, RhiFrameEnd, RhiFrameEndIf, RhiRaise, RhiSignal
  <1> QED BY <1>1, <1>2, <1>3, <1>4, <1>5

\* Every step keeps the entries.
LEMMA RingStep == ThreadTypes /\ RingTypes /\ OrderInv /\ RingInv /\ [Next]_vars => RingInv'
  <1> SUFFICES ASSUME ThreadTypes, RingTypes, OrderInv, RingInv, [Next]_vars PROVE RingInv'
    OBVIOUS
  <1>0. game.id \in Nat /\ rhi.id \in Nat
    BY DEF ThreadTypes
  <1>1. CASE UNCHANGED vars
    BY <1>1 DEF RingInv, Owns, EntryOf, vars, ledger
  <1>2. CASE Next /\ ~FrameBegin
    <2>1. game'.id = game.id /\ rhi'.id \in {rhi.id, rhi.id + 1}
      BY <1>2, OtherSteps, GameOrder, RhiOrder, RhiFrameEndOrder
    <2>2. \A id \in Nat : Owns(id) => Owns(id)'
      BY <1>2, OwnersKept, Index DEF Owns, EntryOf
    <2> QED BY <1>0, <1>2, <2>1, <2>2, OwnersKept DEF RingInv
  <1>3. CASE FrameBegin
    <2> PICK next \in Nat : next = game.id + 1
      BY <1>0
    <2>1. game'.id = next /\ rhi' = rhi /\ next < rhi.id + Ring
      BY <1>0, <1>3, FrameBeginOrder, RingAssumption DEF FrameBegin
    <2>2. PICK acquired : Entered(next, acquired)
      BY <1>3 DEF FrameBegin
    <2>i. next % Ring \in 0 .. (Ring - 1)
      BY Index
    <2>3. Owns(next)'
      <3>2. CASE Owns(next) /\ ~EntryOf(next).ended
        BY <2>2, <2>i, <3>2 DEF Entered, EnteredOver, Owns, EntryOf, RingTypes
      <3>3. CASE ~Owns(next) \/ EntryOf(next).ended
        <4>1. frames' = [frames EXCEPT ![next % Ring] = NewOwner(next, ~acquired)]
          BY <2>2, <3>3 DEF Entered, EnteredOver
        <4> QED BY <2>i, <4>1 DEF Owns, EntryOf, NewOwner, RingTypes
      <3> QED BY <3>2, <3>3
    <2>4. \A k \in 0 .. (Ring - 1) : k # next % Ring => frames'[k] = frames[k]
      BY <2>2, <2>i DEF Entered, EnteredOver, RingTypes
    <2>5. ASSUME NEW id \in rhi.id .. game.id
          PROVE  Owns(id)'
      <3>1. id \in Nat /\ id < next /\ next < id + Ring
        BY <1>0, <2>1, RingAssumption
      <3>2. id % Ring # next % Ring
        BY <3>1, EntriesDiffer
      <3> QED BY <2>4, <3>1, <3>2, Index DEF RingInv, Owns, EntryOf
    <2>6. ASSUME NEW k \in 0 .. (Ring - 1)
          PROVE  frames'[k].id <= next
      <3>1. CASE k = next % Ring
        BY <2>3, <3>1 DEF Owns, EntryOf
      <3>2. CASE k # next % Ring
        BY <1>0, <2>4, <3>2 DEF RingInv, RingTypes, Owner
      <3> QED BY <3>1, <3>2
    <2>7. \A id \in rhi.id .. next : Owns(id)'
      BY <1>0, <2>3, <2>5
    <2> QED BY <2>1, <2>6, <2>7 DEF RingInv
  <1> QED BY <1>1, <1>2, <1>3

-------------------------------------------------------------------------------
\* What the joins wait for.

\* The frame a raise of the RHI thread is about.
Completed == IF rhi.then = "open" THEN rhi.id - 1 ELSE rhi.id

\* presented_through is a frame that is over, raised by the thread for which it was, and the
\* frame of the game thread is over only behind its pacing boundary.
JoinInv ==
    /\ over \subseteq 1 .. game.id
    /\ game.id \in over => game.at \in Closing \union {"running"}
    /\ game.at = "raise" \/ (game.at = "ending" /\ Partial(game.id)) => game.id \in over
    /\ rhi.at = "raise" => Completed \in over
    /\ presentedThrough \in over \union {0}

\* The RHI thread's frame is over, and is what it raises next.
LEMMA JoinAdds ==
  ASSUME ThreadTypes, JoinInv, NEW id \in 1 .. game.id, over' = over \union {id},
         id = game.id => game.at \in Closing \union {"running"}, rhi'.at = "raise" => Completed' = id,
         UNCHANGED <<game, cpu, presentedThrough>>
  PROVE  JoinInv'
  <1>1. over' \subseteq 1 .. game'.id
    BY DEF JoinInv
  <1>2. game'.id \in over' => game'.at \in Closing \union {"running"}
    BY DEF JoinInv
  <1>3. game'.at = "raise" \/ (game'.at = "ending" /\ Partial(game.id)') => game'.id \in over'
    BY DEF JoinInv, Partial, CpuOf
  <1>4. presentedThrough' \in over' \union {0}
    BY DEF JoinInv
  <1>5. rhi'.at = "raise" => Completed' \in over'
    OBVIOUS
  <1> QED BY <1>1, <1>2, <1>3, <1>4, <1>5, Zenon DEF JoinInv

\* Every step keeps it.
LEMMA JoinStep == ThreadTypes /\ RingTypes /\ OrderInv /\ JoinInv /\ [Next]_vars => JoinInv'
  <1> SUFFICES ASSUME ThreadTypes, RingTypes, OrderInv, JoinInv, [Next]_vars PROVE JoinInv'
    OBVIOUS
  <1>0. game.id \in Nat /\ rhi.id \in Nat \ {0} /\ presentedThrough \in Nat
    BY DEF ThreadTypes
  <1> USE DEF fixed, ledger, joins, pool, session, history
  <1>1. CASE UNCHANGED vars
    BY <1>1 DEF JoinInv, Completed, Partial, CpuOf, vars
  <1>2. CASE FrameBegin
    <2>1. UNCHANGED <<rhi, over, presentedThrough>>
      BY <1>2 DEF FrameBegin
    <2>2. game'.id = game.id + 1 /\ game'.at = "begun"
      BY <1>2, FrameBeginOrder
    <2> QED BY <1>0, <2>1, <2>2 DEF JoinInv, Completed
  <1>3. CASE RhiFrameEnd
    <2>1. rhi'.id = rhi.id + 1 /\ game' = game /\ rhi.id <= game.id
      BY <1>3, RhiFrameEndOrder
    <2>2. rhi'.then = "open" /\ over' = over \union {rhi.id} /\ presentedThrough' = presentedThrough /\ RhiBegan
      BY <1>3 DEF RhiFrameEnd, RhiFrameEndIf, Completing, ThreadTypes, RhiBegan
    <2>3. rhi.id = game.id => game.at \in Closing \union {"running"}
      BY <1>0, <2>2 DEF OrderInv, Queued, Past
    <2>4. Completed' = rhi.id
      BY <1>0, <2>1, <2>2 DEF Completed
    <2>5. cpu' = cpu /\ rhi.id \in 1 .. game.id
      BY <1>0, <1>3, <2>1 DEF RhiFrameEnd, RhiFrameEndIf
    <2> QED BY <2>1, <2>2, <2>3, <2>4, <2>5, JoinAdds
  <1>4. CASE PassUnjoined \/ StartJoin \/ Wake \/ TimeOut \/ CallBegin \/ SleepReturns \/ RecordBegin \/ Simulate
             \/ FrameEndRefused \/ GameSignal
    <2>1. UNCHANGED <<rhi, over, presentedThrough>>
      BY <1>4 DEF PassUnjoined, StartJoin, Wake, WakeTo, TimeOut, TimeOutThen, CallBegin, SleepReturns, RecordBegin,
                  RecordWith, Simulate, FrameEndRefused, GameSignal
    <2>2. game'.id = game.id
      BY <1>4, GameOrder, SMTT(30)
    <2>3. game.at \in Closing \union {"running"} => game'.at \in Closing \union {"running"}
      BY <1>4 DEF PassUnjoined, StartJoin, Wake, WakeTo, TimeOut, TimeOutThen, CallBegin, SleepReturns, RecordBegin,
                  RecordWith, Simulate, FrameEndRefused, GameSignal, ThreadTypes, Closing
    <2>4. game'.at \notin {"raise", "ending"} \/ (game' = game /\ game.at \notin {"raise", "ending"})
      BY <1>4 DEF PassUnjoined, StartJoin, Wake, WakeTo, TimeOut, TimeOutThen, CallBegin, SleepReturns, RecordBegin,
                  RecordWith, Simulate, FrameEndRefused, GameSignal, ThreadTypes
    <2> QED BY <2>1, <2>2, <2>3, <2>4, SMTT(30) DEF JoinInv, Completed
  <1>5. CASE FrameEnd
    <2>1. UNCHANGED <<rhi, presentedThrough>> /\ game'.id = game.id /\ game'.at = "ending" /\ game.id # 0
      BY <1>5 DEF FrameEnd, ThreadTypes, OrderInv
    <2>2. CpuOf(game.id)'.stage = CpuOf(game.id).stage
      BY <1>0, <1>5, <2>1, Index DEF FrameEnd, CpuOf, RingTypes
    <2>3. over' = over \/ over' = over \union {game.id}
      BY <1>5 DEF FrameEnd
    <2>4. Partial(game.id)' => game.id \in over'
      BY <1>5, <2>2 DEF FrameEnd, Partial
    <2>5. Completed' = Completed
      BY <2>1 DEF Completed
    <2>6. over' \subseteq 1 .. game.id /\ over \subseteq over'
      <3>1. game.id \in 1 .. game.id /\ over \subseteq 1 .. game.id
        BY <1>0, <2>1 DEF JoinInv
      <3> QED BY <2>3, <3>1, Zenon
    <2> QED BY <2>1, <2>4, <2>5, <2>6 DEF JoinInv, Closing
  <1>6. CASE RecordEnd
    <2>0. UNCHANGED <<rhi, presentedThrough, over, cpu>> /\ game'.id = game.id
      BY <1>6 DEF RecordEnd, ThreadTypes
    <2>1. game'.at \in {"raise", "between"} /\ (game'.at = "raise" => Partial(game.id)) /\ game.at = "ending"
      BY <1>6 DEF RecordEnd, ThreadTypes
    <2>5. Completed' = Completed
      BY <2>0 DEF Completed
    <2> QED BY <2>0, <2>1, <2>5 DEF JoinInv, Closing
  <1>7. CASE GameRaise
    <2>1. UNCHANGED <<rhi, over>> /\ game'.id = game.id /\ game'.at = "signal" /\ game.at = "raise"
          /\ presentedThrough' \in {presentedThrough, game.id}
      BY <1>7 DEF GameRaise, Raised, ThreadTypes
    <2>2. Completed' = Completed
      BY <2>1 DEF Completed
    <2> QED BY <2>1, <2>2 DEF JoinInv, Closing
  <1>8. CASE Answer \/ Submission \/ NoSubmission \/ PresentBegin \/ Send \/ SwitchStart \/ SwitchEnd \/ RhiSignal
    <2>1. UNCHANGED <<game, over, presentedThrough>>
      BY <1>8 DEF Answer, AnswerAt, Submission, NoSubmission, PresentBegin, Send, SwitchStart, SwitchEnd, RhiSignal
    <2>2. rhi'.at # "raise"
      BY <1>8 DEF Answer, AnswerAt, Submission, NoSubmission, PresentBegin, Send, SwitchStart, SwitchEnd, RhiSignal,
                  ThreadTypes, OrderInv
    <2>3. cpu' = cpu
      BY <1>8 DEF Answer, AnswerAt, Submission, NoSubmission, PresentBegin, Send, SwitchStart, SwitchEnd, RhiSignal
    <2> QED BY <2>1, <2>2, <2>3 DEF JoinInv, Partial, CpuOf
  <1>9. CASE PresentEnd \/ WindowEnd
    <2>1. UNCHANGED <<game, presentedThrough>> /\ RhiBegan /\ rhi'.id = rhi.id
      BY <1>9 DEF PresentEnd, WindowEnd, Completing, RhiBegan, ThreadTypes
    <2>2. \/ over' = over \union {rhi.id} /\ rhi'.at = "raise" /\ rhi'.then # "open"
          \/ over' = over /\ rhi'.at # "raise"
      BY <1>9 DEF PresentEnd, WindowEnd, Completing, ThreadTypes
    <2>3. rhi.id <= game.id /\ (rhi.id = game.id => game.at \in Closing \union {"running"})
      BY <1>0, <2>1 DEF OrderInv, Queued, Past
    <2>4. rhi'.at = "raise" => Completed' = rhi.id
      BY <2>1, <2>2 DEF Completed
    <2>5. cpu' = cpu
      BY <1>9 DEF PresentEnd, WindowEnd
    <2>6. CASE over' = over \union {rhi.id}
      <3>2. rhi.id \in 1 .. game.id
        BY <1>0, <2>3
      <3> QED BY <2>1, <2>3, <2>4, <2>5, <2>6, <3>2, JoinAdds
    <2>7. CASE over' = over /\ rhi'.at # "raise"
      BY <2>1, <2>5, <2>7 DEF JoinInv, Partial, CpuOf
    <2> QED BY <2>2, <2>6, <2>7
  <1>10. CASE RhiRaise
    <2>1. UNCHANGED <<game, over>> /\ rhi'.at = "signal" /\ rhi.at = "raise"
          /\ presentedThrough' \in {presentedThrough, Completed}
      BY <1>10 DEF RhiRaise, Raised, Completed, ThreadTypes
    <2>2. cpu' = cpu
      BY <1>10 DEF RhiRaise
    <2> QED BY <2>1, <2>2 DEF JoinInv, Partial, CpuOf
  <1> QED
    BY <1>1, <1>2, <1>3, <1>4, <1>5, <1>6, <1>7, <1>8, <1>9, <1>10, OtherSteps

-------------------------------------------------------------------------------
\* Theorems on the order of the threads.

FrameOrderInv == TypesInv /\ PauseInv /\ OrderInv /\ RingInv /\ JoinInv

\* It holds at first.
LEMMA FrameOrderInit == Init => FrameOrderInv
  <1> SUFFICES ASSUME Init PROVE FrameOrderInv
    OBVIOUS
  <1>1. TypesInv
    BY InitTypes DEF TypesInv
  <1>2. PauseInv
    BY SkipAssumption DEF Init, PauseInv
  <1>3. OrderInv
    BY FramesAssumption DEF Init, OrderInv, RhiBegan, Closing
  <1>4. RingInv
    BY RingAssumption DEF Init, RingInv, NewOwner
  <1>5. JoinInv
    BY DEF Init, JoinInv
  <1> QED BY <1>1, <1>2, <1>3, <1>4, <1>5 DEF FrameOrderInv

\* Every step keeps it.
LEMMA FrameOrderStep == FrameOrderInv /\ [Next]_vars => FrameOrderInv'
  BY TypesStep, PauseStep, OrderStep, RingStep, JoinStep DEF FrameOrderInv, TypesInv

\* Who is ahead of whom: the game thread, the RHI thread, the completed frames and the entries
\* of the ring they own, with the join's pause and answer; everything below rests on it.
THEOREM FrameOrder == Spec => []FrameOrderInv
  BY FrameOrderInit, FrameOrderStep, PTL DEF Spec

\* Types, and every frame the RHI thread is not done with owns its entry of the ring, whether or
\* not the frame that held the entry before had ended.
THEOREM FramesOwnTheirEntries == Spec => []FramesInv
  <1>1. FrameOrderInv => FramesInv
    <2> SUFFICES ASSUME FrameOrderInv PROVE FramesInv
      OBVIOUS
    <2>1. over \subseteq FrameId
      BY FramesAssumption DEF FrameOrderInv, TypesInv, ThreadTypes, OrderInv, JoinInv, FrameId
    <2>2. TypeOK
      BY <2>1, Zenon DEF FrameOrderInv, TypesInv, ThreadTypes, RingTypes, PoolTypes, TypeOK
    <2> QED BY <2>2 DEF FrameOrderInv, RingInv, FramesInv
  <1> QED BY <1>1, FrameOrder, PTL

\* A join that neither timed out nor was skipped ends with the previous frame's own Present, or
\* when that frame can have none: signals of older frames do not end it.
THEOREM JoinsAreExact == Spec => JoinExact
  <1>1. FrameOrderInv /\ [Next]_vars =>
            [/\ game.at \in {"begun", "waiting"} /\ game'.at = "pacing"
             /\ Joins /\ game.id > 1 /\ joinSkip' = joinSkip
             => game.id - 1 \in over]_vars
    <2> SUFFICES ASSUME FrameOrderInv, Next, game.at \in {"begun", "waiting"}, game'.at = "pacing",
                        Joins, game.id > 1, joinSkip' = joinSkip
                 PROVE  game.id - 1 \in over
      BY Zenon
    <2> USE SkipAssumption DEF FrameOrderInv, TypesInv, ThreadTypes
    <2>1. PassUnjoined \/ Wake \/ TimeOut
      BY DEF Next, GameRuns, RhiRuns, FrameBegin, StartJoin, CallBegin, SleepReturns, RecordBegin, RecordWith, Simulate,
             FrameEndRefused, FrameEnd, RecordEnd, GameRaise, GameSignal, Answer, AnswerAt, Submission, NoSubmission,
             PresentBegin, Send, PresentEnd, SwitchStart, SwitchEnd, WindowEnd, RhiFrameEnd, RhiFrameEndIf, RhiRaise,
             RhiSignal
    <2>2. ~TimeOut
      BY DEF TimeOut, TimeOutThen, PauseInv
    <2>3. Finished
      BY <2>1, <2>2 DEF PassUnjoined, Wake, WakeTo
    <2>4. Previous = game.id - 1
      BY DEF Previous, OrderInv, RingInv, Closing
    <2>5. presentedThrough \in 1 .. game.id /\ presentedThrough # game.id /\ presentedThrough \in over
      BY <2>3, <2>4 DEF Finished, JoinInv, Closing
    <2>6. presentedThrough = game.id - 1
      BY <2>3, <2>4, <2>5 DEF Finished
    <2> QED BY <2>5, <2>6
  <1> QED BY <1>1, FrameOrder, PTL DEF Spec, JoinExact

-------------------------------------------------------------------------------
\* The host's tokens.

\* How many tokens were handed out since the one at index k.
Since(k) == IF k < cursor THEN cursor - 1 - k ELSE cursor - 1 - k + Tokens

\* Without a host no token is held; with one, each belongs to a frame between the threads that
\* is as old as its place behind the cursor says.
TokensInv ==
    \A k \in 0 .. (Tokens - 1) :
        tokens[k].id # 0 => host /\ tokens[k].id \in rhi.id .. game.id /\ tokens[k].id + Since(k) <= game.id

\* Tokens that only become free, while no frame begins or ends.
LEMMA TokensFreed ==
  ASSUME ThreadTypes, TokensInv, UNCHANGED <<host, cursor>>, game'.id = game.id, rhi'.id = rhi.id,
         \A k \in 0 .. (Tokens - 1) : tokens'[k].id \in {tokens[k].id, 0}
  PROVE  TokensInv'
  BY DEF TokensInv, Since, ThreadTypes

\* Marking and releasing change no token's frame but to free it.
LEMMA MarkedFrees ==
  ASSUME PoolTypes, NEW id, NEW markers, NEW k \in 0 .. (Tokens - 1)
  PROVE  Marked(id, markers)[k].id \in {tokens[k].id, 0}
  BY DEF PoolTypes, Marked, Free

\* Releasing frees the tokens of the frames named and leaves the others.
LEMMA ReleasedFrees ==
  ASSUME PoolTypes, NEW ids, NEW k \in 0 .. (Tokens - 1)
  PROVE  Released(ids)[k].id \in {tokens[k].id, 0} /\ (tokens[k].id \in ids => Released(ids)[k].id = 0)
  BY DEF PoolTypes, Released, Free

\* Every step keeps the tokens' order.
LEMMA TokensStep == ThreadTypes /\ PoolTypes /\ OrderInv /\ TokensInv /\ [Next]_vars => TokensInv'
  <1> SUFFICES ASSUME ThreadTypes, PoolTypes, OrderInv, TokensInv, [Next]_vars PROVE TokensInv'
    OBVIOUS
  <1> USE DEF fixed, ledger, joins, pool, session, history
  <1>0. game.id \in Nat /\ rhi.id \in Nat /\ cursor \in 0 .. (Tokens - 1) /\ Tokens \in Nat
    BY RingAssumption DEF ThreadTypes, PoolTypes
  <1>1. CASE UNCHANGED vars
    BY <1>1, TokensFreed DEF vars
  <1>2. CASE Next /\ ~FrameBegin /\ ~RhiFrameEnd
    <2>1. game'.id = game.id /\ rhi'.id = rhi.id
      BY <1>2, OtherSteps, GameOrder, RhiOrder, SMTT(30)
    <2>2. UNCHANGED <<host, cursor>>
      BY <1>2, OtherSteps, ZenonT(40) DEF PassUnjoined, StartJoin, Wake, WakeTo, TimeOut, TimeOutThen, CallBegin, SleepReturns,
             RecordBegin, RecordWith, Simulate, FrameEndRefused, FrameEnd, RecordEnd, GameRaise, GameSignal, Answer,
             AnswerAt, Submission, NoSubmission, PresentBegin, Send, PresentEnd, SwitchStart, SwitchEnd, WindowEnd,
             RhiRaise, RhiSignal
    <2>3. \A k \in 0 .. (Tokens - 1) : tokens'[k].id \in {tokens[k].id, 0}
      <3>1. CASE tokens' = tokens
        BY <3>1
      <3>2. CASE Simulate \/ FrameEnd \/ PresentBegin \/ PresentEnd \/ WindowEnd
        <4>1. tokens' = tokens \/ (\E id, markers : tokens' = Marked(id, markers)) \/ (\E ids : tokens' = Released(ids))
          BY <3>2 DEF Simulate, FrameEnd, GameAbort, PresentBegin, PresentEnd, WindowEnd
        <4> QED BY <4>1, MarkedFrees, ReleasedFrees
      <3>3. CASE Submission
        <4>1. ASSUME NEW k \in 0 .. (Tokens - 1)
              PROVE  tokens'[k] = tokens[k] \/ tokens'[k] = Free \/ tokens'[k] = Marked(rhi.id, {"submitStart"})[k]
          BY <3>3, Zenon DEF Submission, PoolTypes
        <4> QED BY <4>1, MarkedFrees DEF Free
      <3> QED
        BY <1>2, OtherSteps, <3>1, <3>2, <3>3
        DEF PassUnjoined, StartJoin, Wake, WakeTo, TimeOut, TimeOutThen, CallBegin, SleepReturns,
             RecordBegin, RecordWith, FrameEndRefused, RecordEnd, GameRaise, GameSignal, Answer,
             AnswerAt, NoSubmission, Send, SwitchStart, SwitchEnd, RhiRaise, RhiSignal
    <2> QED BY <2>1, <2>2, <2>3, TokensFreed
  <1>3. CASE RhiFrameEnd
    <2>1. rhi'.id = rhi.id + 1 /\ game' = game /\ UNCHANGED <<host, cursor>>
      BY <1>3, RhiFrameEndOrder DEF RhiFrameEnd, RhiFrameEndIf
    <2>2. ASSUME NEW k \in 0 .. (Tokens - 1)
          PROVE  tokens'[k].id \in {tokens[k].id, 0} /\ (tokens'[k].id # 0 => tokens[k].id # rhi.id)
      <3>1. CASE Live(rhi.id) /\ tokens' = Released({rhi.id})
        BY <3>1, ReleasedFrees
      <3>2. CASE ~Live(rhi.id) /\ tokens' = Marked(rhi.id, {"submitEnd"})
        <4>1. tokens[k].id = rhi.id => ~host
          BY <3>2 DEF Live, Held, PoolTypes
        <4>2. tokens[k].id # 0 => host
          BY DEF TokensInv
        <4> QED BY <3>2, <4>1, <4>2, MarkedFrees
      <3> QED BY <1>3, <3>1, <3>2 DEF RhiFrameEnd, RhiFrameEndIf
    <2>3. ASSUME NEW k \in 0 .. (Tokens - 1), tokens'[k].id # 0
          PROVE  /\ host' /\ tokens'[k].id \in rhi'.id .. game'.id
                 /\ tokens'[k].id + Since(k) <= game'.id
      <3>1. tokens'[k].id = tokens[k].id /\ tokens[k].id # rhi.id /\ tokens[k].id # 0
        BY <2>2, <2>3
      <3> QED BY <1>0, <2>1, <3>1 DEF TokensInv
    <2> QED BY <2>1, <2>3 DEF TokensInv, Since
  <1>4. CASE FrameBegin
    <2>1. game'.id = game.id + 1 /\ rhi' = rhi /\ host' = host /\ rhi.id <= game.id + 1
      BY <1>4, FrameBeginOrder DEF FrameBegin
    <2>2. CASE tokens' = tokens /\ cursor' = cursor
      BY <1>0, <2>1, <2>2 DEF TokensInv, Since, PoolTypes
    <2>3. CASE /\ host /\ tokens[cursor].id = 0
               /\ tokens' = [tokens EXCEPT ![cursor] = [Free EXCEPT !.id = game.id + 1]]
               /\ cursor' = (cursor + 1) % Tokens
      <3>1. cursor' = IF cursor + 1 = Tokens THEN 0 ELSE cursor + 1
        BY <1>0, <2>3
      <3>2. ASSUME NEW k \in 0 .. (Tokens - 1), k # cursor
            PROVE  tokens'[k] = tokens[k] /\ Since(k)' = Since(k) + 1
        <4>1. Since(k)' = Since(k) + 1
          BY <1>0, <3>1, <3>2 DEF Since
        <4> QED BY <2>3, <3>2, <4>1 DEF PoolTypes
      <3>3. ASSUME NEW k \in 0 .. (Tokens - 1), k = cursor
            PROVE  tokens'[k].id = game.id + 1 /\ Since(k)' = 0
        <4>1. Since(k)' = 0
          BY <1>0, <3>1, <3>3 DEF Since
        <4> QED BY <1>0, <2>3, <3>3, <4>1 DEF PoolTypes, Free
      <3>4. ASSUME NEW k \in 0 .. (Tokens - 1), tokens'[k].id # 0
            PROVE  /\ host' /\ tokens'[k].id \in rhi'.id .. game'.id
                   /\ tokens'[k].id + Since(k)' <= game'.id
        <4>1. CASE k = cursor
          BY <1>0, <2>1, <2>3, <3>3, <4>1
        <4>2. CASE k # cursor
          <5>1. Since(k) \in Int /\ tokens[k].id \in Nat
            BY <1>0 DEF Since, PoolTypes
          <5> QED BY <1>0, <2>1, <3>2, <3>4, <4>2, <5>1 DEF TokensInv
        <4> QED BY <4>1, <4>2
      <3> QED BY <3>4 DEF TokensInv
    <2> QED BY <1>4, <2>2, <2>3 DEF FrameBegin
  <1> QED BY <1>1, <1>2, <1>3, <1>4

\* The token ring is never full when the engine begins a frame, though markers and aborts of older
\* frames were refused during a switch: every token is given back by the end of its RHI frame.
THEOREM TokensAreReturned == Spec => []TokensReturn
  <1>1. Init => TokensInv
    BY DEF Init, TokensInv, Free
  <1>2. FrameOrderInv /\ TokensInv /\ [Next]_vars => TokensInv'
    BY TokensStep DEF FrameOrderInv, TypesInv
  <1>3. FrameOrderInv /\ TokensInv => TokensReturn
    <2> SUFFICES ASSUME FrameOrderInv, TokensInv PROVE TokensReturn
      OBVIOUS
    <2>0. /\ game.id \in Nat /\ rhi.id \in Nat /\ cursor \in 0 .. (Tokens - 1)
          /\ DOMAIN tokens = 0 .. (Tokens - 1) /\ tokens[cursor].id \in Nat
      BY DEF FrameOrderInv, TypesInv, ThreadTypes, PoolTypes
    <2>1. ASSUME tokens[cursor].id # 0 PROVE game.id + 1 >= rhi.id + InFlight
      <3>1. tokens[cursor].id \in rhi.id .. game.id /\ tokens[cursor].id + Since(cursor) <= game.id
        BY <2>0, <2>1 DEF TokensInv
      <3>2. Since(cursor) = Tokens - 1
        BY <2>0, RingAssumption DEF Since
      <3> QED BY <2>0, <3>1, <3>2, RingAssumption
    <2>2. game.id + 1 < rhi.id + InFlight => tokens[cursor].id = 0
      BY <2>0, <2>1, RingAssumption
    <2> QED BY <2>0, <2>2 DEF TokensReturn, TokensInv
  <1> QED BY <1>1, <1>2, <1>3, FrameOrder, PTL DEF Spec

-------------------------------------------------------------------------------
\* The sessions frames were begun in.

Boundary == {"begun", "waiting", "pacing", "sleeping", "slept"}

\* A frame's entry has no session before its begin was recorded, and then the one its begin was
\* given, unless it has failed.
BegunInv ==
    /\ game.id < rhi.id + Ring
    /\ game.at = "sleeping" => game.gen = generation /\ ~Switching
    /\ game.at = "slept" /\ game.ok => begun[game.id % Ring] = game.gen
    /\ game.at \in Boundary => EntryOf(game.id).gen = 0
    /\ \A id \in rhi.id .. game.id :
           ~EntryOf(id).failed /\ EntryOf(id).gen # 0 => begun[id % Ring] = EntryOf(id).gen

\* Steps that record no begin leave the entries' sessions alone, and no failure is taken back.
LEMMA SessionsKept ==
  ASSUME ThreadTypes, RingTypes, Next, ~FrameBegin, ~RecordBegin
  PROVE  \A k \in 0 .. (Ring - 1) :
             frames'[k].gen = frames[k].gen /\ (frames[k].failed => frames'[k].failed)
  <1> USE DEF RingTypes, Owner, ledger
  <1>0. game.id \in Nat /\ rhi.id \in Nat
    BY DEF ThreadTypes
  <1>e. \A id \in Nat : EntryOf(id) \in Owner
    BY Index DEF EntryOf
  <1>w. ASSUME NEW id \in Nat, NEW entry, entry.gen = EntryOf(id).gen, EntryOf(id).failed => entry.failed,
               WithFrame(id, entry)
        PROVE  \A k \in 0 .. (Ring - 1) :
                   frames'[k].gen = frames[k].gen /\ (frames[k].failed => frames'[k].failed)
    BY <1>w, Index DEF WithFrame, EntryOf
  <1>1. CASE RecordEnd
    <2> DEFINE entry == [EntryOf(game.id) EXCEPT !.ended = TRUE, !.failed = @ \/ Partial(game.id)]
    <2>1. entry.gen = EntryOf(game.id).gen /\ (EntryOf(game.id).failed => entry.failed)
      BY <1>0, <1>e
    <2>2. WithFrame(game.id, entry)
      BY <1>1 DEF RecordEnd
    <2> HIDE DEF entry
    <2> QED BY <1>0, <1>w, <2>1, <2>2
  <1>2. CASE Submission
    BY <1>0, <1>2, Index DEF Submission, EntryOf
  <1>3. CASE WindowEnd
    <2>1. LET entry == [EntryOf(rhi.id) EXCEPT !.failed = TRUE]
          IN  entry.gen = EntryOf(rhi.id).gen /\ entry.failed
      BY <1>0, <1>e
    <2> QED BY <1>0, <1>3, <1>w, <2>1 DEF WindowEnd
  <1>4. RecordEnd \/ Submission \/ WindowEnd \/ frames' = frames
    BY DEF Next, GameRuns, RhiRuns, PassUnjoined, StartJoin, Wake, WakeTo, TimeOut, TimeOutThen,
           Answer, AnswerAt, CallBegin, SleepReturns, Simulate, FrameEndRefused, FrameEnd,
           GameRaise, GameSignal, NoSubmission, PresentBegin, Send, PresentEnd,
           SwitchStart, SwitchEnd, RhiFrameEnd, RhiFrameEndIf, RhiRaise, RhiSignal
  <1> QED BY <1>1, <1>2, <1>3, <1>4

\* Steps that neither begin a frame nor reach a session.
LEMMA BegunKept ==
  ASSUME ThreadTypes, RingTypes, OrderInv, BegunInv, Next,
         ~FrameBegin, ~CallBegin, ~SleepReturns, ~RecordBegin
  PROVE  BegunInv'
  <1>0. game.id \in Nat /\ rhi.id \in Nat
    BY SMTT(30) DEF ThreadTypes
  <1>1. begun' = begun
    BY DEF Next, GameRuns, RhiRuns, PassUnjoined, StartJoin, Wake, WakeTo, TimeOut, TimeOutThen,
           Answer, AnswerAt, Simulate, FrameEndRefused, FrameEnd, RecordEnd,
           GameRaise, GameSignal, Submission, NoSubmission, PresentBegin, Send, PresentEnd, WindowEnd,
           SwitchStart, SwitchEnd, RhiFrameEnd, RhiFrameEndIf, RhiRaise, RhiSignal, history
  <1>2. game'.id = game.id /\ rhi'.id \in {rhi.id, rhi.id + 1}
    BY OtherSteps, GameOrder, RhiOrder, RhiFrameEndOrder
  <1>3. \A id \in Nat : /\ EntryOf(id)'.gen = EntryOf(id).gen
                        /\ EntryOf(id).failed => EntryOf(id)'.failed
    BY SessionsKept, Index DEF EntryOf
  <1>4. /\ game'.gen = game.gen /\ game'.ok = game.ok
        /\ game'.at \in {"sleeping", "slept"} => game'.at = game.at
        /\ game'.at \in Boundary => game.at \in Boundary
    BY DEF Next, GameRuns, RhiRuns, PassUnjoined, StartJoin, Wake, WakeTo, TimeOut, TimeOutThen,
           Answer, AnswerAt, Simulate, FrameEndRefused, FrameEnd, RecordEnd,
           GameRaise, GameSignal, Submission, NoSubmission, PresentBegin, Send, PresentEnd, WindowEnd,
           SwitchStart, SwitchEnd, RhiFrameEnd, RhiFrameEndIf, RhiRaise, RhiSignal, ThreadTypes, Boundary
  <1>5. game.at = "sleeping" => generation' = generation /\ (Switching' => Switching)
    BY DEF Next, GameRuns, RhiRuns, PassUnjoined, StartJoin, Wake, WakeTo, TimeOut, TimeOutThen,
           Answer, AnswerAt, Simulate, FrameEndRefused, FrameEnd, RecordEnd,
           GameRaise, GameSignal, Submission, NoSubmission, PresentBegin, Send, PresentEnd, WindowEnd, Completing,
           SwitchStart, SwitchEnd, RhiFrameEnd, RhiFrameEndIf, RhiRaise, RhiSignal, ThreadTypes, OrderInv,
           BegunInv, Switching, session
  <1>6. game'.id < rhi'.id + Ring
    BY <1>0, <1>2, RingAssumption DEF BegunInv
  <1>7. ASSUME NEW id \in rhi'.id .. game'.id, ~EntryOf(id)'.failed, EntryOf(id)'.gen # 0
        PROVE  begun'[id % Ring] = EntryOf(id)'.gen
    BY <1>0, <1>1, <1>2, <1>3, <1>7 DEF BegunInv
  <1>8. game'.at \in Boundary => EntryOf(game.id)'.gen = 0
    BY <1>0, <1>2, <1>3, <1>4 DEF BegunInv, EntryOf
  <1> QED BY <1>1, <1>2, <1>4, <1>5, <1>6, <1>7, <1>8 DEF BegunInv

\* A frame's entries are its own, between the threads.
LEMMA Apart ==
  ASSUME ThreadTypes, BegunInv, NEW id \in rhi.id .. game.id, id # game.id
  PROVE  id % Ring # game.id % Ring
  <1>1. id \in Nat /\ game.id \in Nat /\ id < game.id /\ game.id < id + Ring
    BY RingAssumption DEF ThreadTypes, BegunInv
  <1> QED BY <1>1, EntriesDiffer

\* A new frame's entry has no session.
LEMMA BegunFrameBegin ==
  ASSUME ThreadTypes, RingTypes, OrderInv, RingInv, BegunInv, FrameBegin
  PROVE  BegunInv'
  <1>0. game.id \in Nat /\ rhi.id \in Nat
    BY DEF ThreadTypes
  <1> PICK next \in Nat : next = game.id + 1
    BY <1>0
  <1>i. next % Ring \in 0 .. (Ring - 1)
    BY Index
  <1>1. game'.id = next /\ game'.at = "begun" /\ rhi' = rhi /\ next < rhi.id + Ring
    BY <1>0, FrameBeginOrder, RingAssumption DEF FrameBegin
  <1>2. PICK acquired : Entered(next, acquired)
    BY DEF FrameBegin
  <1>3. ~Owns(next)
    BY <1>0, <1>i DEF RingInv, Owns, EntryOf, RingTypes, Owner
  <1>4. frames' = [frames EXCEPT ![next % Ring] = NewOwner(next, ~acquired)]
    BY <1>2, <1>3 DEF Entered, EnteredOver
  <1>5. frames'[next % Ring].gen = 0
    BY <1>i, <1>4 DEF NewOwner, RingTypes
  <1>6. ASSUME NEW id \in rhi.id .. next, ~EntryOf(id)'.failed, EntryOf(id)'.gen # 0
        PROVE  begun'[id % Ring] = EntryOf(id)'.gen
    <2>1. id # next
      BY <1>5, <1>6 DEF EntryOf
    <2>2. id \in rhi.id .. game.id /\ id \in Nat /\ id < next /\ next < id + Ring
      BY <1>0, <1>1, <2>1, RingAssumption
    <2>3. id % Ring # next % Ring
      BY <2>2, EntriesDiffer
    <2>4. frames'[id % Ring] = frames[id % Ring] /\ begun'[id % Ring] = begun[id % Ring]
      BY <1>4, <1>i, <2>2, <2>3, Index DEF FrameBegin, RingTypes
    <2> QED BY <1>6, <2>2, <2>4 DEF BegunInv, EntryOf
  <1> QED BY <1>1, <1>5, <1>6 DEF BegunInv, EntryOf

\* The begin reaches a session, and what it answers is recorded with that session.
LEMMA BegunCall ==
  ASSUME ThreadTypes, RingTypes, OrderInv, BegunInv, CallBegin \/ SleepReturns
  PROVE  BegunInv'
  <1>0. game.id \in Nat /\ rhi.id \in Nat /\ generation \in Nat
    BY DEF ThreadTypes
  <1>1. UNCHANGED <<rhi, frames, generation>> /\ game'.id = game.id /\ game.at \in Boundary /\ game'.at \in Boundary
    BY DEF CallBegin, SleepReturns, ledger, session, ThreadTypes, Boundary
  <1>2. begun' = begun \/ begun' = [begun EXCEPT ![game.id % Ring] = generation]
    BY DEF CallBegin, SleepReturns
  <1>3. game'.at = "sleeping" => game'.gen = generation /\ ~Switching
    BY DEF CallBegin, SleepReturns, ThreadTypes
  <1>4. game'.at = "slept" /\ game'.ok => begun'[game.id % Ring] = game'.gen
    <2>1. CASE CallBegin
      BY <1>0, <2>1, Index DEF CallBegin, ThreadTypes, RingTypes
    <2>2. CASE SleepReturns
      BY <1>0, <2>2, Index DEF SleepReturns, ThreadTypes, RingTypes, BegunInv
    <2> QED BY <2>1, <2>2
  <1>5. EntryOf(game.id).gen = 0
    BY <1>1 DEF BegunInv
  <1>6. ASSUME NEW id \in rhi.id .. game.id, ~EntryOf(id).failed, EntryOf(id).gen # 0
        PROVE  begun'[id % Ring] = EntryOf(id).gen
    <2>1. id % Ring # game.id % Ring
      BY <1>5, <1>6, Apart
    <2>2. begun'[id % Ring] = begun[id % Ring]
      <3>1. id \in Nat /\ id % Ring \in 0 .. (Ring - 1)
        BY <1>0, Index
      <3> QED BY <1>2, <2>1, <3>1 DEF RingTypes
    <2> QED BY <1>6, <2>2 DEF BegunInv
  <1> QED BY <1>1, <1>3, <1>4, <1>5, <1>6 DEF BegunInv, EntryOf, Switching

\* The frame's record is written in the generation its begin was answered in.
LEMMA BegunRecord ==
  ASSUME ThreadTypes, RingTypes, BegunInv, RecordBegin
  PROVE  BegunInv'
  <1>0. game.id \in Nat /\ rhi.id \in Nat
    BY DEF ThreadTypes
  <1> DEFINE entry == [EntryOf(game.id) EXCEPT !.gen = game.gen, !.failed = @ \/ ~game.ok]
  <1>1. /\ UNCHANGED <<rhi, begun, generation>> /\ game'.id = game.id /\ game'.at = "running"
        /\ game.at = "slept" /\ WithFrame(game.id, entry)
    BY DEF RecordBegin, RecordWith, history, session, ThreadTypes
  <1>2. EntryOf(game.id) \in Owner
    BY <1>0, Index DEF EntryOf, RingTypes
  <1>3. entry.gen = game.gen /\ (~entry.failed => game.ok)
    BY <1>2 DEF Owner
  <1> HIDE DEF entry
  <1>4. ASSUME NEW id \in rhi.id .. game.id, ~EntryOf(id)'.failed, EntryOf(id)'.gen # 0
        PROVE  begun[id % Ring] = EntryOf(id)'.gen
    <2>1. CASE EntryOf(id)' = EntryOf(id)
      BY <1>4, <2>1 DEF BegunInv
    <2>2. CASE EntryOf(id)' # EntryOf(id)
      <3>1. id % Ring = game.id % Ring /\ EntryOf(id)' = entry
        BY <1>0, <1>1, <2>2, Index DEF WithFrame, EntryOf, RingTypes
      <3> QED BY <1>1, <1>3, <1>4, <3>1 DEF BegunInv
    <2> QED BY <2>1, <2>2
  <1> QED BY <1>1, <1>4 DEF BegunInv, Boundary

\* The RHI thread is done with its frame's images.
RhiPast ==
    \/ rhi.at \in {"presented", "switching", "switched", "closing"}
    \/ rhi.at \in {"raise", "signal"} /\ rhi.then # "open"

\* A frame that is over before its RHI frame ends was presented, or given up, or never simulated.
OverInv ==
    \A id \in rhi.id .. game.id : id \in over =>
        \/ id = rhi.id /\ RhiPast
        \/ CpuOf(id).stage = "begun" /\ (id = game.id => game.at \in Closing)

\* Only the game thread's steps at a frame change how far its simulation is.
LEMMA StageKept ==
  ASSUME ThreadTypes, RingTypes, Next, ~FrameBegin, ~Simulate
  PROVE  \A k \in 0 .. (Ring - 1) : cpu'[k].stage = cpu[k].stage
  <1>0. game.id \in Nat
    BY DEF ThreadTypes
  <1>1. CASE FrameEnd \/ FrameEndRefused
    <2> DEFINE entry == game.id % Ring
    <2>0. entry \in 0 .. (Ring - 1) /\ DOMAIN cpu = 0 .. (Ring - 1)
      BY <1>0, Index DEF RingTypes
    <2>1. CASE FrameEnd
      BY <2>0, <2>1 DEF FrameEnd, RingTypes
    <2>2. CASE FrameEndRefused
      <3>1. cpu' = [[cpu EXCEPT ![entry].failed = TRUE] EXCEPT ![entry].ended = TRUE]
        BY <2>2 DEF FrameEndRefused
      <3> HIDE DEF entry
      <3>2. \A k \in 0 .. (Ring - 1) : [cpu EXCEPT ![entry].failed = TRUE][k].stage = cpu[k].stage
        BY <2>0 DEF RingTypes
      <3> QED BY <2>0, <3>1, <3>2 DEF RingTypes
    <2> QED BY <1>1, <2>1, <2>2
  <1>2. CASE cpu' = cpu
    BY <1>2, SMTT(30)
  <1>3. FrameEnd \/ FrameEndRefused \/ cpu' = cpu
    BY DEF Next, GameRuns, RhiRuns, PassUnjoined, StartJoin, Wake, WakeTo, TimeOut, TimeOutThen,
           Answer, AnswerAt, CallBegin, SleepReturns, RecordBegin, RecordWith, RecordEnd,
           GameRaise, GameSignal, Submission, NoSubmission, PresentBegin, Send, PresentEnd, WindowEnd,
           SwitchStart, SwitchEnd, RhiFrameEnd, RhiFrameEndIf, RhiRaise, RhiSignal, ledger
  <1> QED BY <1>1, <1>2, <1>3

\* Every step keeps it.
LEMMA OverStep ==
  ASSUME ThreadTypes, RingTypes, OrderInv, JoinInv, BegunInv, OverInv, Next
  PROVE  OverInv'
  <1>0. game.id \in Nat /\ rhi.id \in Nat
    BY DEF ThreadTypes
  <1>1. CASE FrameBegin
    <2> PICK next \in Nat : next = game.id + 1
      BY <1>0
    <2>1. game'.id = next /\ rhi' = rhi /\ over' = over /\ next < rhi.id + Ring /\ game.at = "between"
      BY <1>0, <1>1, FrameBeginOrder, RingAssumption DEF FrameBegin, RingInv
    <2>2. next \notin over
      BY <1>0 DEF JoinInv
    <2>3. ASSUME NEW id \in rhi.id .. next, id \in over
          PROVE  (id = rhi.id /\ RhiPast) \/ (CpuOf(id)'.stage = "begun" /\ id # next)
      <3>1. id # next
        BY <2>2, <2>3
      <3>2. id \in rhi.id .. game.id /\ id \in Nat /\ id < next /\ next < id + Ring
        BY <1>0, <2>1, <3>1, RingAssumption
      <3>3. id % Ring # next % Ring /\ id % Ring \in 0 .. (Ring - 1)
        BY <3>2, EntriesDiffer, Index
      <3>4. cpu'[id % Ring] = cpu[id % Ring]
        BY <1>1, <3>3 DEF FrameBegin, RingTypes
      <3> QED BY <2>3, <3>1, <3>2, <3>4 DEF OverInv, CpuOf
    <2> QED BY <2>1, <2>3 DEF OverInv, RhiPast
  <1>2. CASE RhiFrameEnd
    <2>1. rhi'.id = rhi.id + 1 /\ game' = game /\ over' = over \union {rhi.id}
      BY <1>2, RhiFrameEndOrder DEF RhiFrameEnd, RhiFrameEndIf
    <2>2. cpu' = cpu
      BY <1>2 DEF RhiFrameEnd, RhiFrameEndIf, ledger
    <2>3. ASSUME NEW id \in (rhi.id + 1) .. game.id, id \in over'
          PROVE  CpuOf(id).stage = "begun" /\ (id = game.id => game.at \in Closing)
      BY <1>0, <2>1, <2>3 DEF OverInv
    <2> QED BY <2>1, <2>2, <2>3 DEF OverInv, CpuOf
  <1>3. CASE Simulate
    <2>1. game' = game /\ rhi' = rhi /\ over' = over /\ game.at = "running"
      BY <1>3 DEF Simulate, history
    <2>2. ASSUME NEW id \in rhi.id .. game.id, id \in over
          PROVE  (id = rhi.id /\ RhiPast) \/ (CpuOf(id)'.stage = "begun" /\ (id = game.id => game.at \in Closing))
      <3>1. CASE id = game.id
        BY <2>1, <2>2, <3>1 DEF OverInv, Closing
      <3>2. CASE id # game.id
        <4>1. id % Ring # game.id % Ring /\ id % Ring \in 0 .. (Ring - 1) /\ game.id % Ring \in 0 .. (Ring - 1)
          BY <1>0, <3>2, Apart, Index
        <4>2. cpu'[id % Ring] = cpu[id % Ring]
          BY <1>3, <4>1 DEF Simulate, RingTypes
        <4> QED BY <2>2, <4>2 DEF OverInv, CpuOf
      <3> QED BY <3>1, <3>2
    <2> QED BY <2>1, <2>2 DEF OverInv, RhiPast
  <1>4. CASE ~FrameBegin /\ ~RhiFrameEnd /\ ~Simulate
    <2>1. game'.id = game.id /\ rhi'.id = rhi.id
      BY <1>4, OtherSteps, GameOrder, RhiOrder
    <2>2. \A id \in Nat : CpuOf(id)'.stage = CpuOf(id).stage
      BY <1>4, StageKept, Index DEF CpuOf
    <2>3. game.at \in Closing => game'.at \in Closing
      BY <1>4, OtherSteps, ZenonT(40)
      DEF PassUnjoined, StartJoin, Wake, WakeTo, TimeOut, TimeOutThen, CallBegin, SleepReturns, RecordBegin, RecordWith,
          FrameEndRefused, FrameEnd, RecordEnd, GameRaise, GameSignal, Answer, AnswerAt, Submission, NoSubmission,
          PresentBegin, Send, PresentEnd, SwitchStart, SwitchEnd, WindowEnd, RhiRaise, RhiSignal, ThreadTypes, Closing
    <2>4. RhiPast => RhiPast'
      BY <1>4, OtherSteps, ZenonT(40)
      DEF PassUnjoined, StartJoin, Wake, WakeTo, TimeOut, TimeOutThen, CallBegin, SleepReturns, RecordBegin, RecordWith,
          FrameEndRefused, FrameEnd, RecordEnd, GameRaise, GameSignal, Answer, AnswerAt, Submission, NoSubmission,
          PresentBegin, Send, PresentEnd, SwitchStart, SwitchEnd, WindowEnd, RhiRaise, RhiSignal, ThreadTypes, OrderInv,
          RhiPast, Completing, fixed
    <2>5. \/ over' = over
          \/ over' = over \union {game.id} /\ CpuOf(game.id).stage = "begun" /\ game'.at \in Closing
          \/ over' = over \union {rhi.id} /\ RhiPast'
      BY <1>4, OtherSteps
      DEF PassUnjoined, StartJoin, Wake, WakeTo, TimeOut, TimeOutThen, CallBegin, SleepReturns, RecordBegin, RecordWith,
          FrameEndRefused, FrameEnd, RecordEnd, GameRaise, GameSignal, Answer, AnswerAt, Submission, NoSubmission,
          PresentBegin, Send, PresentEnd, SwitchStart, SwitchEnd, WindowEnd, RhiRaise, RhiSignal, ThreadTypes,
          RhiPast, Completing, Closing, Partial, history
    <2>6. ASSUME NEW id \in rhi.id .. game.id, id \in over'
          PROVE  \/ id = rhi.id /\ RhiPast'
                 \/ CpuOf(id)'.stage = "begun" /\ (id = game.id => game'.at \in Closing)
      BY <1>0, <2>2, <2>3, <2>4, <2>5, <2>6 DEF OverInv
    <2> QED BY <2>1, <2>6 DEF OverInv
  <1> QED BY <1>1, <1>2, <1>3, <1>4

\* Frames are generated only from frames whose begin reached the session that generates, and that
\* were not given up, whatever was switched between a frame's begin and its Present.
THEOREM GenerationIsOwn == Spec => []GeneratesWhatItBegan
  <1>1. Init => BegunInv /\ OverInv
    BY RingAssumption DEF Init, BegunInv, OverInv, Boundary
  <1>2. FrameOrderInv /\ BegunInv /\ OverInv /\ [Next]_vars => (BegunInv /\ OverInv)'
    <2> SUFFICES ASSUME FrameOrderInv, BegunInv, OverInv, [Next]_vars PROVE (BegunInv /\ OverInv)'
      OBVIOUS
    <2>1. CASE UNCHANGED vars
      BY <2>1 DEF BegunInv, OverInv, RhiPast, EntryOf, CpuOf, Switching, vars, ledger, session, history
    <2>2. CASE Next
      BY <2>2, OverStep, BegunFrameBegin, BegunCall, BegunRecord, BegunKept DEF FrameOrderInv, TypesInv
    <2> QED BY <2>1, <2>2
  <1>3. FrameOrderInv /\ BegunInv /\ OverInv => GeneratesWhatItBegan
    <2> SUFFICES ASSUME FrameOrderInv, BegunInv, OverInv, rhi.at = "drawn", Valid(rhi.id)
                 PROVE  begun[rhi.id % Ring] = generation /\ rhi.id \notin over
      BY DEF GeneratesWhatItBegan
    <2>0. game.id \in Nat /\ rhi.id \in Nat /\ generation \in Nat \ {0}
      BY DEF FrameOrderInv, TypesInv, ThreadTypes
    <2>1. rhi.id \in rhi.id .. game.id
      BY <2>0 DEF FrameOrderInv, OrderInv, RhiBegan, Queued, Past
    <2> QED BY <2>0, <2>1 DEF Valid, BegunInv, OverInv, RhiPast
  <1> QED BY <1>1, <1>2, <1>3, FrameOrder, PTL DEF Spec
=============================================================================
