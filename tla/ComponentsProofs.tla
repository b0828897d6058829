-------------------------- MODULE ComponentsProofs --------------------------
(***************************************************************************)
(* Proofs about components that share no state with another, for all       *)
(* values of their constants.                                              *)
(***************************************************************************)
EXTENDS MCComponents, FiniteSetTheorems, SequenceTheorems, SelectionLemmas

-----------------------------------------------------------------------------
(* Sessions.                                                               *)

Counting(k) == {t \in Handlers : task[t].phase = "counted" /\ task[t].key = k}

TaskStates ==
  {Asleep} \cup [phase : {"waiting", "turn", "counted"}, key : SessionKeys]

SessionsTypes ==
  /\ task \in [Handlers -> TaskStates]
  /\ turnLock \in [SessionKeys -> Handlers \cup {"free"}]
  /\ turnCount \in [SessionKeys -> Nat] /\ analyses \in [SessionKeys -> Nat]

(* The tasks within a turn are those that have an agent locked.            *)
InTurnOf(t) == task[t].phase \in {"turn", "counted"}
LocksMatch ==
  /\ \A t \in Handlers : InTurnOf(t) => turnLock[task[t].key] = t
  /\ \A k \in SessionKeys : turnLock[k] # "free" =>
       InTurnOf(turnLock[k]) /\ task[turnLock[k]].key = k

(* The last turn of a session may be counted and not yet looked at.        *)
Fresh(k) == turnLock[k] # "free" /\ task[turnLock[k]].phase = "counted"
CountsMatch ==
  \A k \in SessionKeys :
    IF Fresh(k) THEN turnCount[k] > 0 /\ analyses[k] = (turnCount[k] - 1) \div 5
    ELSE analyses[k] = turnCount[k] \div 5

SessionsInv == SessionsTypes /\ LocksMatch /\ CountsMatch

LEMMA Fifths ==
  \A n \in Nat : n > 0 =>
    n \div 5 = IF n % 5 = 0 THEN (n - 1) \div 5 + 1 ELSE (n - 1) \div 5
  OBVIOUS

LEMMA SessionsInvStep == SessionsInv /\ [SessionsNext]_sessVars => SessionsInv'
<1> SUFFICES ASSUME SessionsInv, [SessionsNext]_sessVars PROVE SessionsInv'
  OBVIOUS
<1> USE SessionsAssumption DEF SessionsInv, SessionsTypes, TaskStates, Asleep
<1>1. ASSUME NEW t \in Handlers, GetOrCreate(t) PROVE SessionsInv'
  <2> USE <1>1 DEF GetOrCreate
  <2>1. LocksMatch'
    BY DEF LocksMatch, InTurnOf
  <2>2. CountsMatch'
    BY DEF CountsMatch, Fresh, LocksMatch, InTurnOf
  <2> QED
    BY <2>1, <2>2
<1>2. ASSUME NEW t \in Handlers, LockAgent(t) PROVE SessionsInv'
  <2> USE <1>2 DEF LockAgent
  <2>1. LocksMatch'
    BY DEF LocksMatch, InTurnOf
  <2>2. CountsMatch'
    BY DEF CountsMatch, Fresh, LocksMatch, InTurnOf
  <2> QED
    BY <2>1, <2>2
<1>3. ASSUME NEW t \in Handlers, TurnFails(t) PROVE SessionsInv'
  <2> USE <1>3 DEF TurnFails
  <2>1. LocksMatch'
    BY DEF LocksMatch, InTurnOf
  <2>2. CountsMatch'
    BY DEF CountsMatch, Fresh, LocksMatch, InTurnOf
  <2> QED
    BY <2>1, <2>2
<1>4. ASSUME NEW t \in Handlers, CountTurn(t) PROVE SessionsInv'
  <2> USE <1>4 DEF CountTurn
  <2>1. LocksMatch'
    BY DEF LocksMatch, InTurnOf
  <2>2. CountsMatch'
    BY DEF CountsMatch, Fresh, LocksMatch, InTurnOf
  <2> QED
    BY <2>1, <2>2
<1>5. ASSUME NEW t \in Handlers, MaybeAnalyse(t) PROVE SessionsInv'
  <2> USE <1>5 DEF MaybeAnalyse
  <2>1. LocksMatch'
    BY DEF LocksMatch, InTurnOf
  <2> DEFINE k == task[t].key  n == turnCount[k]
  <2>a. k \in SessionKeys /\ turnLock[k] = t /\ Fresh(k) /\ n \in Nat /\ t # "free"
    BY DEF LocksMatch, InTurnOf, Fresh
  <2>b. n > 0 /\ analyses[k] = (n - 1) \div 5
    BY <2>a DEF CountsMatch
  <2>c. analyses'[k] = n \div 5
    <3>1. analyses'[k] = IF n % 5 = 0 THEN (n - 1) \div 5 + 1 ELSE (n - 1) \div 5
      BY <2>a, <2>b
    <3> QED
      BY <3>1, <2>a, <2>b, Fifths
  <2>2. CountsMatch'
    <3> SUFFICES ASSUME NEW j \in SessionKeys
                 PROVE  IF Fresh(j)' THEN turnCount'[j] > 0 /\ analyses'[j] = (turnCount'[j] - 1) \div 5
                        ELSE analyses'[j] = turnCount'[j] \div 5
      BY DEF CountsMatch
    <3>1. CASE j = k
      BY <3>1, <2>a, <2>c DEF Fresh
    <3>2. CASE j # k
      <4>1. Fresh(j)' <=> Fresh(j)
        BY <3>2, <2>a DEF Fresh, LocksMatch, InTurnOf
      <4>2. analyses'[j] = analyses[j] /\ turnCount'[j] = turnCount[j]
        BY <3>2, <2>a
      <4> QED
        BY <4>1, <4>2 DEF CountsMatch
    <3> QED
      BY <3>1, <3>2
  <2>3. SessionsTypes'
    OBVIOUS
  <2> QED
    BY <2>1, <2>2, <2>3
<1>6. ASSUME NEW k \in SessionKeys, AnalysisRead(k) \/ AnalysisEnds(k) PROVE SessionsInv'
  BY <1>6 DEF AnalysisRead, AnalysisEnds, LocksMatch, CountsMatch, Fresh, InTurnOf
<1>7. CASE UNCHANGED sessVars
  BY <1>7 DEF sessVars, LocksMatch, CountsMatch, Fresh, InTurnOf
<1> QED
  BY <1>1, <1>2, <1>3, <1>4, <1>5, <1>6, <1>7 DEF SessionsNext

(* A session is analysed once for every five turns it has finished         *)
(* (process_message in session.rs).                                        *)
THEOREM AnalysesAreRegular == SessionsSpec => []AnalysedEveryFive
<1>1. SessionsInit => SessionsInv
  BY DEF SessionsInit, SessionsInv, SessionsTypes, TaskStates, Asleep, LocksMatch, InTurnOf,
         CountsMatch, Fresh
<1>2. SessionsInv => AnalysedEveryFive
  <2> SUFFICES ASSUME SessionsInv, NEW k \in SessionKeys
               PROVE  analyses[k] = (turnCount[k] - Cardinality(Counting(k))) \div 5
    BY DEF AnalysedEveryFive, Counting
  <2> USE SessionsAssumption DEF SessionsInv, SessionsTypes, TaskStates, Asleep
  <2>1. CASE Fresh(k)
    <3>1. Counting(k) = {turnLock[k]}
      BY <2>1 DEF Counting, Fresh, LocksMatch, InTurnOf
    <3>2. Cardinality(Counting(k)) = 1
      BY <3>1, FS_Singleton
    <3> QED
      BY <2>1, <3>2 DEF CountsMatch
  <2>2. CASE ~Fresh(k)
    <3>1. Counting(k) = {}
      BY <2>2 DEF Counting, Fresh, LocksMatch, InTurnOf
    <3>2. Cardinality(Counting(k)) = 0
      BY <3>1, FS_EmptySet
    <3> QED
      BY <2>2, <3>2 DEF CountsMatch
  <2> QED
    BY <2>1, <2>2
<1> QED
  BY <1>1, <1>2, SessionsInvStep, PTL DEF SessionsSpec

-----------------------------------------------------------------------------
(* Daemon.                                                                 *)

Beats == [line : 0 .. Len(Lines) + 1, runs : [Descriptions -> Nat], sent : Nat, at : Nat]
DaemonTypes ==
  /\ now \in Nat /\ cut \subseteq Descriptions
  /\ lastRuns \in [Descriptions -> Nat] /\ told \in [Descriptions -> Nat]
  /\ beat \in Beats /\ beat.at <= now

(* What a tick holds in memory of a task is when it was published, and so   *)
(* is the file while the tick has published nothing, unless the record of   *)
(* the task's last publication was lost.                                    *)
RunsAreTold ==
  /\ beat.line = 0 => beat.sent = 0
  /\ beat.line # 0 => \A d \in Descriptions \ cut : beat.runs[d] = told[d]
  /\ beat.sent = 0 => \A d \in Descriptions \ cut : lastRuns[d] = told[d]
  /\ early = {}

DaemonInv == DaemonTypes /\ RunsAreTold

LEMMA LinesAre ==
  /\ Len(Lines) \in Nat /\ DOMAIN Lines = 1 .. Len(Lines)
  /\ \A i \in DOMAIN Lines : Lines[i].task \in Descriptions /\ Lines[i].every \in Nat
<1>1. Len(Lines) \in Nat /\ DOMAIN Lines = 1 .. Len(Lines)
  BY DaemonAssumption
<1>2. ASSUME NEW i \in DOMAIN Lines PROVE Lines[i].task \in Descriptions /\ Lines[i].every \in Nat
  <2>1. Lines[i] \in [task : STRING, every : Nat, routed : BOOLEAN]
    BY DaemonAssumption, ElementOfSeq, <1>1
  <2> QED
    BY <2>1 DEF Descriptions
<1> QED
  BY <1>1, <1>2

LEMMA DaemonInvStep == DaemonInv /\ [DaemonNext]_dmVars => DaemonInv'
<1> SUFFICES ASSUME DaemonInv, [DaemonNext]_dmVars PROVE DaemonInv'
  OBVIOUS
<1> USE LinesAre DEF DaemonInv, DaemonTypes, RunsAreTold, Beats
<1>a. NoBeat \in Beats /\ NeverRun \in [Descriptions -> Nat]
      /\ NoBeat.line = 0 /\ NoBeat.sent = 0 /\ NoBeat.at = 0
  BY DEF NoBeat, NeverRun
<1>1. ASSUME GatewayStart \/ GatewayFails \/ GatewayExits \/ DispatchOne \/ Shutdown
      PROVE  DaemonInv'
  BY <1>1 DEF GatewayStart, GatewayFails, GatewayExits, DispatchOne, Shutdown
<1>2. ASSUME TickBegin PROVE DaemonInv'
  <2>1. beat' = [line |-> 1, runs |-> lastRuns, sent |-> 0, at |-> now] /\ beat.sent = 0
        /\ UNCHANGED <<now, lastRuns, told, early, cut>>
    BY <1>2 DEF TickBegin
  <2>2. 1 \in 0 .. Len(Lines) + 1
    OBVIOUS
  <2> QED
    BY <2>1, <2>2
<1>3. ASSUME SkipLine PROVE DaemonInv'
  <2>1. beat.line \in 1 .. Len(Lines) /\ beat' = [beat EXCEPT !.line = @ + 1]
    BY <1>3 DEF SkipLine
  <2>2. UNCHANGED <<now, cut, early, lastRuns, told>>
    BY <1>3 DEF SkipLine
  <2>3. /\ beat' = [line |-> beat.line + 1, runs |-> beat.runs, sent |-> beat.sent, at |-> beat.at]
        /\ beat.line + 1 \in 0 .. Len(Lines) + 1 /\ beat.line + 1 # 0
    <3>1. beat.line + 1 \in 0 .. Len(Lines) + 1 /\ beat.line + 1 # 0
      BY <2>1
    <3>2. beat' = [line |-> beat.line + 1, runs |-> beat.runs, sent |-> beat.sent, at |-> beat.at]
      <4> HIDE LinesAre
      <4> QED
        BY <2>1
    <3> QED
      BY <3>1, <3>2
  <2>4. DaemonTypes'
    BY <2>2, <2>3
  <2>5. RunsAreTold'
    <3> HIDE LinesAre
    <3>1. /\ beat.line # 0 /\ beat'.line # 0 /\ beat'.runs = beat.runs /\ beat'.sent = beat.sent
      BY <2>1, <2>3
    <3> QED
      BY <2>2, <3>1
  <2> QED
    BY <2>4, <2>5
<1>4. ASSUME PublishLine PROVE DaemonInv'
  <2> DEFINE l == Lines[beat.line]
             runs == [beat.runs EXCEPT ![l.task] = beat.at]
  <2>1. l.task \in Descriptions /\ l.every \in Nat /\ beat.line \in 1 .. Len(Lines)
    BY <1>4 DEF PublishLine
  <2>2. beat.at >= beat.runs[l.task] + l.every
    BY <1>4 DEF PublishLine, Due
  <2>3. /\ beat' = [line |-> beat.line + 1, runs |-> runs, sent |-> beat.sent + 1, at |-> beat.at]
        /\ told' = [told EXCEPT ![l.task] = beat.at] /\ cut' = cut \ {l.task}
        /\ UNCHANGED <<now, lastRuns>>
    <3>1. beat' = [beat EXCEPT !.line = @ + 1, !.runs[l.task] = beat.at, !.sent = @ + 1]
      BY <1>4 DEF PublishLine
    <3>2. beat' = [line |-> beat.line + 1, runs |-> runs, sent |-> beat.sent + 1, at |-> beat.at]
      <4> HIDE LinesAre
      <4> QED
        BY <3>1
    <3> QED
      BY <1>4, <3>2 DEF PublishLine
  <2>4. /\ runs \in [Descriptions -> Nat] /\ beat.sent + 1 \in Nat /\ beat.sent + 1 # 0
        /\ beat.line + 1 \in 0 .. Len(Lines) + 1 /\ beat.line + 1 # 0
    BY <2>1
  <2>5. DaemonTypes'
    BY <2>1, <2>3, <2>4
  <2>6. \A d \in Descriptions \ cut' : beat'.runs[d] = told'[d]
    <3> SUFFICES ASSUME NEW d \in Descriptions, d \notin cut \/ d = l.task
                 PROVE  runs[d] = told'[d]
      BY <2>3
    <3>1. CASE d = l.task
      BY <2>1, <2>3, <3>1
    <3>2. CASE d # l.task
      BY <2>1, <2>3, <3>2
    <3> QED
      BY <3>1, <3>2
  <2>7. early' = {}
    <3>1. l.task \notin cut => beat.runs[l.task] = told[l.task]
      BY <2>1
    <3>2. beat.runs[l.task] \in Nat /\ beat.at \in Nat /\ now \in Nat /\ beat.at <= now
      BY <2>1
    <3>3. l.task \notin cut => ~(now < told[l.task] + l.every)
      BY <2>1, <2>2, <3>1, <3>2
    <3> QED
      BY <1>4, <3>3 DEF PublishLine
  <2> QED
    BY <2>3, <2>4, <2>5, <2>6, <2>7
<1>5. ASSUME TickEnd PROVE DaemonInv'
  <2>1. beat' = NoBeat /\ UNCHANGED <<now, told, early>> /\ beat.line # 0
    BY <1>5 DEF TickEnd
  <2>2. CASE lastRuns' = Written /\ UNCHANGED cut
    BY <1>a, <2>1, <2>2 DEF Written
  <2>3. CASE lastRuns' \in Spoilt /\ cut' = Lost(lastRuns')
    BY <1>a, <2>1, <2>3 DEF Spoilt, Lost
  <2> QED
    BY <1>5, <2>2, <2>3 DEF TickEnd
<1>6. ASSUME TimePasses PROVE DaemonInv'
  BY <1>6 DEF TimePasses
<1>7. ASSUME Die PROVE DaemonInv'
  <2>1. beat' = NoBeat /\ UNCHANGED <<now, told, early>>
    BY <1>7 DEF Die
  <2>2. CASE beat.sent > 0
    BY <1>7, <1>a, <2>1, <2>2 DEF Die, Spoilt, Lost
  <2>3. CASE ~(beat.sent > 0)
    <3>1. beat.sent = 0 /\ UNCHANGED <<lastRuns, cut>>
      BY <1>7, <2>3 DEF Die
    <3> QED
      BY <1>a, <2>1, <3>1
  <2> QED
    BY <2>2, <2>3
<1>8. CASE UNCHANGED dmVars
  BY <1>8 DEF dmVars
<1> QED
  BY <1>1, <1>2, <1>3, <1>4, <1>5, <1>6, <1>7, <1>8 DEF DaemonNext

(* The heartbeat publishes a task too early only if the record of its last  *)
(* publication was lost: the daemon died in that tick or in the write that  *)
(* ends it, or the write failed (tick and save_state in heartbeat.rs).      *)
THEOREM RestartsRepeatNothing == DaemonSpec => []EarlyOnlyAfterCut
<1>1. DaemonInit => DaemonInv
  BY LinesAre DEF DaemonInit, DaemonInv, DaemonTypes, RunsAreTold, NoBeat, NeverRun, Beats
<1>2. DaemonInv => EarlyOnlyAfterCut
  BY DEF DaemonInv, RunsAreTold, EarlyOnlyAfterCut
<1> QED
  BY <1>1, <1>2, DaemonInvStep, PTL DEF DaemonSpec

-----------------------------------------------------------------------------
(* Memory.                                                                 *)

MemoryRows == [id : Nat, text : Texts, owner : Owners \cup {NoRow}, learning : BOOLEAN]

MemoryInv ==
  /\ nextId \in Nat /\ rows \in [AllKeys -> MemoryRows \cup {NoRow}]
  /\ IndexMatches

LEMMA UpsertIndexes ==
  ASSUME MemoryInv, NEW k \in AllKeys, NEW x \in Texts, NEW o \in Owners \cup {NoRow},
         NEW l \in BOOLEAN, Upsert(k, x, o, l)
  PROVE  rows' \in [AllKeys -> MemoryRows \cup {NoRow}] /\ IndexMatches'
<1> DEFINE new == [id |-> IF rows[k] = NoRow THEN nextId ELSE rows[k].id,
                   text |-> x, owner |-> o, learning |-> l]
<1>1. new \in MemoryRows /\ new # NoRow /\ new.text = x
  <2>1. rows[k] # NoRow => rows[k].id \in Nat
    BY DEF MemoryInv, MemoryRows
  <2>2. new \in MemoryRows
    BY <2>1 DEF MemoryInv, MemoryRows
  <2> QED
    BY <2>2, MemoryAssumption DEF MemoryRows
<1>2. rows' = [rows EXCEPT ![k] = new]
  BY DEF Upsert
<1>3. index' = IF rows[k] = NoRow THEN index \cup {<<k, new.text>>}
               ELSE (index \ {<<k, rows[k].text>>}) \cup {<<k, new.text>>}
  BY DEF Upsert, OnInsert, OnUpdate, OnDelete
<1> HIDE DEF new
<1>4. rows' \in [AllKeys -> MemoryRows \cup {NoRow}]
  BY <1>1, <1>2 DEF MemoryInv
<1>5. \A j \in AllKeys : rows'[j] = IF j = k THEN new ELSE rows[j]
  BY <1>2 DEF MemoryInv
<1>6. Present' = Present \cup {k}
  BY <1>1, <1>5 DEF Present
<1>7. IndexMatches'
  <2>1. index = {<<j, rows[j].text>> : j \in Present} /\ Present \subseteq AllKeys
    BY DEF MemoryInv, IndexMatches, Present
  <2>2. ASSUME NEW j \in Present', j # k PROVE <<j, rows'[j].text>> \in index'
    BY <2>1, <2>2, <1>3, <1>5, <1>6
  <2>3. <<k, rows'[k].text>> \in index'
    BY <1>3, <1>5
  <2>4. ASSUME NEW e \in index' PROVE \E j \in Present' : e = <<j, rows'[j].text>>
    <3>1. CASE e = <<k, new.text>>
      BY <3>1, <1>5, <1>6
    <3>2. CASE e # <<k, new.text>>
      <4>1. e \in index /\ (rows[k] # NoRow => e # <<k, rows[k].text>>)
        BY <3>2, <1>3, <2>4
      <4>2. PICK j \in Present : e = <<j, rows[j].text>>
        BY <4>1, <2>1
      <4>3. j # k
        BY <4>1, <4>2 DEF Present
      <4> QED
        BY <4>2, <4>3, <2>1, <1>5, <1>6
    <3> QED
      BY <3>1, <3>2
  <2> QED
    BY <2>2, <2>3, <2>4, <1>6 DEF IndexMatches
<1> QED
  BY <1>4, <1>7

LEMMA DropIndexes ==
  ASSUME MemoryInv, NEW ks, Drop(ks)
  PROVE  rows' \in [AllKeys -> MemoryRows \cup {NoRow}] /\ IndexMatches'
<1>1. rows' = [j \in AllKeys |-> IF j \in ks THEN NoRow ELSE rows[j]]
  BY DEF Drop
<1>2. index' = {e \in index : e[1] \notin ks \/ e[2] # rows[e[1]].text}
  BY DEF Drop
<1>3. Present' = Present \ ks
  BY <1>1 DEF Present
<1>4. index' = {<<j, rows'[j].text>> : j \in Present'}
  BY <1>1, <1>2, <1>3 DEF MemoryInv, IndexMatches, Present
<1> QED
  BY <1>1, <1>4 DEF MemoryInv, IndexMatches

LEMMA MemoryInvStep == MemoryInv /\ [MemoryNext]_memVars => MemoryInv'
<1> SUFFICES ASSUME MemoryInv, [MemoryNext]_memVars PROVE MemoryInv'
  OBVIOUS
<1>1. ASSUME NEW t \in Tasks, NEW k \in Keys, NEW x \in Texts, NEW o \in Owners, Store(t, k, x, o)
      PROVE  MemoryInv'
  <2>1. Upsert(k, x, o, FALSE) /\ nextId' = nextId + 1
    BY <1>1 DEF Store
  <2>2. rows' \in [AllKeys -> MemoryRows \cup {NoRow}] /\ IndexMatches'
    BY <2>1, UpsertIndexes DEF AllKeys
  <2> QED
    BY <2>1, <2>2 DEF MemoryInv
<1>2. ASSUME NEW k \in LearnKeys, DreamLearn(k) PROVE MemoryInv'
  <2>1. PICK x \in Texts : Upsert(k, x, NoRow, TRUE)
    BY <1>2 DEF DreamLearn
  <2>2. nextId' = nextId + 1
    BY <1>2 DEF DreamLearn
  <2>3. rows' \in [AllKeys -> MemoryRows \cup {NoRow}] /\ IndexMatches'
    BY <2>1, UpsertIndexes DEF AllKeys
  <2> QED
    BY <2>2, <2>3 DEF MemoryInv
<1>3. ASSUME NEW k \in Keys, Forget(k) PROVE MemoryInv'
  <2>1. rows' \in [AllKeys -> MemoryRows \cup {NoRow}] /\ IndexMatches'
    BY <1>3, DropIndexes DEF Forget
  <2>2. nextId' = nextId
    BY <1>3 DEF Forget
  <2> QED
    BY <2>1, <2>2 DEF MemoryInv
<1>4. ASSUME NEW o \in Owners, ClearAutosaved(o) PROVE MemoryInv'
  <2>1. rows' \in [AllKeys -> MemoryRows \cup {NoRow}] /\ IndexMatches'
    BY <1>4, DropIndexes DEF ClearAutosaved
  <2>2. nextId' = nextId
    BY <1>4 DEF ClearAutosaved
  <2> QED
    BY <2>1, <2>2 DEF MemoryInv
<1>5. ASSUME DreamEnd PROVE MemoryInv'
  <2>1. rows' \in [AllKeys -> MemoryRows \cup {NoRow}] /\ IndexMatches'
    BY <1>5, DropIndexes DEF DreamEnd
  <2>2. nextId' = nextId
    BY <1>5 DEF DreamEnd
  <2> QED
    BY <2>1, <2>2 DEF MemoryInv
<1>6. ASSUME UNCHANGED <<rows, index, nextId>> PROVE MemoryInv'
  BY <1>6 DEF MemoryInv, IndexMatches, Present
<1>7. (\E t \in Tasks : Embed(t)) \/ DreamBegin \/ UNCHANGED memVars => UNCHANGED <<rows, index, nextId>>
  BY DEF Embed, DreamBegin, memVars
<1> QED
  BY <1>1, <1>2, <1>3, <1>4, <1>5, <1>6, <1>7 DEF MemoryNext

(* One row of those found is kept, if there is one.                        *)
LEMMA OneIsKept ==
  ASSUME NEW S \in SUBSET AllKeys, S # {}, NEW T \in AtMost(1, S)
  PROVE  T # {} /\ T \subseteq S
<1>1. IsFiniteSet(S)
  BY MemoryAssumption, FS_Union, FS_Subset DEF AllKeys
<1>2. Cardinality(S) \in Nat /\ Cardinality(S) # 0
  BY <1>1, FS_CardinalityType, FS_EmptySet
<1>3. T \in SUBSET S /\ Cardinality(T) = 1
  BY <1>2 DEF AtMost
<1> QED
  BY <1>3, FS_EmptySet

LEMMA OwnersFind == RecallFindsOwn
<1> SUFFICES ASSUME NEW q \in Texts, NEW o \in Owners, NEW k \in Find(q), rows[k].owner = o,
                    NEW S \in Recall(q, 1, o)
             PROVE  S # {} /\ \A j \in S : rows[j].owner = o
  BY DEF RecallFindsOwn
<1> DEFINE own(R) == {j \in R : rows[j].owner = o}
           first == {own(R) : R \in AtMost(1, FindIndexed(q))}
<1>1. S \in first \ {{}} \/ S \in AtMost(1, own(Find(q)))
  BY MemoryAssumption DEF Recall
<1>2. CASE S \in first \ {{}}
  BY <1>2
<1>3. CASE S \in AtMost(1, own(Find(q)))
  <2>1. own(Find(q)) # {} /\ own(Find(q)) \subseteq AllKeys
    BY DEF Find, Present
  <2> QED
    BY <1>3, <2>1, OneIsKept
<1> QED
  BY <1>1, <1>2, <1>3

(* The index has what is in the table, and recall gives a session what is  *)
(* its own (memory/sqlite.rs).                                             *)
THEOREM MemoryIsFound == MemorySpec => []MemoryFindable
<1>1. MemoryInit => MemoryInv
  BY DEF MemoryInit, MemoryInv, MemoryRows, IndexMatches, Present
<1>2. MemoryInv => MemoryFindable
  BY OwnersFind DEF MemoryInv, MemoryFindable
<1> QED
  BY <1>1, <1>2, MemoryInvStep, PTL DEF MemorySpec

-----------------------------------------------------------------------------
(* The client of an MCP server.                                            *)

CallsAre == [at : {"idle", "asked", "reading"}, id : Nat, got : Nat, alone : BOOLEAN]
McpTypes ==
  /\ mcp \in [Clients -> CallsAre] /\ nextCall \in Nat \ {0}
  /\ requests \subseteq 1 .. (nextCall - 1) /\ lines \in Seq(Nat)
  /\ serves \in BOOLEAN /\ stray \in BOOLEAN

AnswerForEach == Cardinality(requests) + Len(lines) = Cardinality(InFlight)

(* A call that is alone finds nothing on its way but its own.              *)
OwnOnly(c) ==
  /\ InFlight = {c} /\ requests \subseteq {mcp[c].id}
  /\ \A i \in 1 .. Len(lines) : lines[i] = mcp[c].id
AloneIsOwn ==
  \A c \in Clients : mcp[c].alone =>
    IF mcp[c].at = "idle" THEN mcp[c].got \in {mcp[c].id, EndOfStream} ELSE OwnOnly(c)

McpInv == McpTypes /\ (~stray => (serves => AnswerForEach) /\ AloneIsOwn)

LEMMA McpFinite ==
  ASSUME McpTypes
  PROVE  /\ IsFiniteSet(InFlight) /\ Cardinality(InFlight) \in Nat
         /\ IsFiniteSet(requests) /\ Cardinality(requests) \in Nat
         /\ InFlight \subseteq Clients /\ Len(lines) \in Nat
<1>1. IsFiniteSet(Clients)
  BY McpAssumption, FS_AddElement DEF Clients
<1>2. InFlight \subseteq Clients
  BY DEF InFlight
<1>3. IsFiniteSet(1 .. (nextCall - 1))
  BY FS_Interval DEF McpTypes
<1>4. IsFiniteSet(InFlight) /\ IsFiniteSet(requests)
  BY <1>1, <1>2, <1>3, FS_Subset DEF McpTypes
<1>5. Len(lines) \in Nat
  BY DEF McpTypes
<1> QED
  BY <1>2, <1>4, <1>5, FS_CardinalityType

LEMMA RestIsSeq == \A q \in Seq(Nat) : q # <<>> => Tail(q) \in Seq(Nat)
  OBVIOUS

LEMMA AskKeeps ==
  ASSUME McpInv, NEW c \in Clients, Ask(c)
  PROVE  McpInv'
<1> USE DEF McpInv
<1>1. CASE ~serves
  <2>1. UNCHANGED <<mcp, requests, lines, serves, stray>> /\ nextCall' = nextCall + 1
    BY <1>1 DEF Ask
  <2> QED
    BY <2>1 DEF McpTypes, AnswerForEach, AloneIsOwn, OwnOnly, InFlight
<1>2. CASE serves
  <2> DEFINE one(d) == IF d = c
                       THEN [at |-> "asked", id |-> nextCall, got |-> 0, alone |-> InFlight = {}]
                       ELSE [mcp[d] EXCEPT !.alone = @ /\ d \notin InFlight]
  <2>1. /\ mcp' = [d \in Clients |-> one(d)] /\ mcp[c].at = "idle"
        /\ requests' = requests \cup {nextCall} /\ nextCall' = nextCall + 1
        /\ UNCHANGED <<lines, serves, stray>>
    BY <1>2 DEF Ask
  <2>2. McpTypes'
    <3>1. ASSUME NEW d \in Clients PROVE one(d) \in CallsAre
      BY DEF McpTypes, CallsAre
    <3>2. mcp' \in [Clients -> CallsAre]
      BY <2>1, <3>1
    <3> QED
      BY <2>1, <3>2 DEF McpTypes
  <2>3. InFlight' = InFlight \cup {c} /\ c \notin InFlight
    <3>1. \A d \in Clients : mcp'[d].at = IF d = c THEN "asked" ELSE mcp[d].at
      BY <2>1 DEF McpTypes, CallsAre
    <3> QED
      BY <2>1, <3>1 DEF InFlight
  <2>4. nextCall \notin requests
    BY DEF McpTypes
  <2>5. /\ Cardinality(InFlight') = Cardinality(InFlight) + 1
        /\ Cardinality(requests') = Cardinality(requests) + 1
    BY <2>1, <2>3, <2>4, McpFinite, FS_AddElement
  <2>6. AnswerForEach => AnswerForEach'
    BY <2>1, <2>5, McpFinite DEF AnswerForEach
  <2>7. ASSUME AnswerForEach, AloneIsOwn, NEW d \in Clients, mcp'[d].alone
        PROVE  IF mcp'[d].at = "idle" THEN mcp'[d].got \in {mcp'[d].id, EndOfStream} ELSE OwnOnly(d)'
    <3>1. CASE d = c
      <4>1. InFlight = {} /\ mcp'[d].id = nextCall /\ mcp'[d].at = "asked"
        BY <2>1, <2>7, <3>1
      <4>2. Cardinality(requests) = 0 /\ Len(lines) = 0
        BY <2>7, <4>1, McpFinite, FS_EmptySet DEF AnswerForEach
      <4>3. requests = {}
        BY <4>2, McpFinite, FS_EmptySet
      <4> QED
        BY <2>1, <2>3, <3>1, <4>1, <4>2, <4>3 DEF OwnOnly
    <3>2. CASE d # c
      <4>1. mcp[d].alone /\ d \notin InFlight
        BY <2>1, <2>7, <3>2 DEF McpTypes, CallsAre
      <4>2. mcp[d].at = "idle" /\ mcp[d].got \in {mcp[d].id, EndOfStream}
        BY <2>7, <4>1 DEF AloneIsOwn, InFlight
      <4>3. mcp'[d].at = mcp[d].at /\ mcp'[d].got = mcp[d].got /\ mcp'[d].id = mcp[d].id
        BY <2>1, <3>2 DEF McpTypes, CallsAre
      <4> QED
        BY <4>2, <4>3 DEF EndOfStream
    <3> QED
      BY <3>1, <3>2
  <2> QED
    BY <1>2, <2>1, <2>2, <2>6, <2>7 DEF AloneIsOwn
<1> QED
  BY <1>1, <1>2 DEF McpTypes

(* A reader ends its call with the next line, or with the end of the       *)
(* stream.                                                                 *)
LEMMA TakeKeeps ==
  ASSUME McpInv, NEW c \in Clients, TakeLine(c) \/ TakeEnd(c)
  PROVE  McpInv'
<1> USE DEF McpInv
<1> DEFINE got == IF lines = <<>> THEN EndOfStream ELSE Head(lines)
<1>1. /\ mcp' = [mcp EXCEPT ![c].at = "idle", ![c].got = got] /\ mcp[c].at = "reading"
      /\ lines' = IF lines = <<>> THEN lines ELSE Tail(lines)
      /\ lines = <<>> => ~serves
      /\ UNCHANGED <<nextCall, requests, serves, stray>>
  BY DEF TakeLine, TakeEnd, CallEnds
<1>2. got \in Nat
  BY McpAssumption DEF McpTypes, EndOfStream
<1>3. McpTypes'
  <2>1. lines' \in Seq(Nat)
    BY <1>1, RestIsSeq DEF McpTypes
  <2>2. [mcp[c] EXCEPT !.at = "idle", !.got = got] \in CallsAre
    BY <1>2 DEF McpTypes, CallsAre
  <2>3. mcp' = [mcp EXCEPT ![c] = [mcp[c] EXCEPT !.at = "idle", !.got = got]]
    BY <1>1 DEF McpTypes, CallsAre
  <2> QED
    BY <1>1, <2>1, <2>2, <2>3 DEF McpTypes
<1>4. /\ \A d \in Clients : d # c => mcp'[d] = mcp[d]
      /\ mcp'[c].at = "idle" /\ mcp'[c].got = got
      /\ mcp'[c].id = mcp[c].id /\ mcp'[c].alone = mcp[c].alone
  BY <1>1 DEF McpTypes, CallsAre
<1>5. InFlight' = InFlight \ {c} /\ c \in InFlight
  BY <1>1, <1>4 DEF InFlight
<1>6. serves /\ AnswerForEach => AnswerForEach'
  <2>1. Cardinality(InFlight') = Cardinality(InFlight) - 1
    BY <1>5, McpFinite, FS_RemoveElement
  <2>2. serves => Len(lines') = Len(lines) - 1
    BY <1>1 DEF McpTypes
  <2> QED
    BY <1>1, <2>1, <2>2, McpFinite DEF AnswerForEach
<1>7. AloneIsOwn => AloneIsOwn'
  <2> SUFFICES ASSUME AloneIsOwn, NEW d \in Clients, mcp'[d].alone
               PROVE  IF mcp'[d].at = "idle" THEN mcp'[d].got \in {mcp'[d].id, EndOfStream} ELSE OwnOnly(d)'
    BY DEF AloneIsOwn
  <2>1. CASE d = c
    <3>1. OwnOnly(c)
      BY <1>1, <1>4, <2>1 DEF AloneIsOwn
    <3>2. lines # <<>> => Head(lines) = mcp[c].id
      BY <3>1 DEF OwnOnly, McpTypes
    <3> QED
      BY <1>4, <2>1, <3>2 DEF EndOfStream
  <2>2. CASE d # c
    <3>1. mcp[d].at = "idle"
      BY <1>4, <1>5, <2>2 DEF AloneIsOwn, OwnOnly, McpTypes
    <3> QED
      BY <1>4, <2>2, <3>1 DEF AloneIsOwn, EndOfStream
  <2> QED
    BY <2>1, <2>2
<1> QED
  BY <1>1, <1>3, <1>6, <1>7

LEMMA ServerKeeps ==
  ASSUME McpInv, NEW id \in 1 .. MaxRequests, ServerAnswers(id)
  PROVE  McpInv'
<1> USE DEF McpInv
<1>1. /\ id \in requests /\ requests' = requests \ {id} /\ lines' = Append(lines, id)
      /\ UNCHANGED <<mcp, nextCall, serves, stray>>
  BY DEF ServerAnswers
<1>2. McpTypes' /\ InFlight' = InFlight
  BY <1>1 DEF McpTypes, InFlight
<1>3. AnswerForEach => AnswerForEach'
  <2>1. Cardinality(requests') = Cardinality(requests) - 1
    BY <1>1, McpFinite, FS_RemoveElement
  <2>2. Len(lines') = Len(lines) + 1
    BY <1>1 DEF McpTypes
  <2> QED
    BY <1>2, <2>1, <2>2, McpFinite DEF AnswerForEach
<1>4. ASSUME NEW c \in Clients, OwnOnly(c) PROVE OwnOnly(c)'
  <2>1. id = mcp[c].id
    BY <1>1, <1>4 DEF OwnOnly
  <2>2. \A i \in 1 .. Len(lines') : lines'[i] = mcp'[c].id
    BY <1>1, <1>4, <2>1 DEF OwnOnly, McpTypes
  <2> QED
    BY <1>1, <1>2, <1>4, <2>2 DEF OwnOnly
<1>5. AloneIsOwn => AloneIsOwn'
  BY <1>1, <1>4 DEF AloneIsOwn, EndOfStream
<1> QED
  BY <1>1, <1>2, <1>3, <1>5

LEMMA McpInvStep == McpInv /\ [McpNext]_mcpVars => McpInv'
<1> SUFFICES ASSUME McpInv, [McpNext]_mcpVars PROVE McpInv'
  OBVIOUS
<1> USE DEF McpInv
<1>1. ASSUME NEW c \in Clients, LockStdout(c) PROVE McpInv'
  <2>1. /\ \A d \in Clients : /\ mcp'[d].at # "idle" <=> mcp[d].at # "idle"
                              /\ mcp'[d].id = mcp[d].id /\ mcp'[d].got = mcp[d].got
                              /\ mcp'[d].alone = mcp[d].alone
        /\ UNCHANGED <<nextCall, requests, lines, serves, stray>>
    BY <1>1 DEF LockStdout, McpTypes, CallsAre
  <2>2. McpTypes'
    BY <1>1 DEF LockStdout, McpTypes, CallsAre
  <2>3. InFlight' = InFlight
    BY <2>1 DEF InFlight
  <2> QED
    BY <2>1, <2>2, <2>3 DEF AnswerForEach, AloneIsOwn, OwnOnly, EndOfStream
<1>2. ASSUME NEW c \in ToolCallers, DropCall(c) PROVE McpInv'
  <2>1. c \in Clients /\ stray' = TRUE /\ UNCHANGED <<nextCall, requests, serves>>
    BY <1>2 DEF DropCall, Clients
  <2>2. lines' \in Seq(Nat)
    BY <1>2, RestIsSeq DEF DropCall, McpTypes
  <2>3. mcp' \in [Clients -> CallsAre]
    <3>1. EndOfStream \in Nat
      BY McpAssumption DEF EndOfStream
    <3>2. mcp' = [mcp EXCEPT ![c].at = "idle", ![c].got = EndOfStream]
      BY <1>2 DEF DropCall
    <3> QED
      BY <2>1, <3>1, <3>2 DEF McpTypes, CallsAre
  <2> QED
    BY <2>1, <2>2, <2>3 DEF McpTypes
<1>3. CASE ServerSpeaks
  BY <1>3 DEF ServerSpeaks, McpTypes, Unasked
<1>4. CASE ServerEnds
  BY <1>4 DEF ServerEnds, McpTypes, AloneIsOwn, OwnOnly, InFlight
<1>5. CASE UNCHANGED mcpVars
  BY <1>5 DEF mcpVars, McpTypes, AnswerForEach, AloneIsOwn, OwnOnly, InFlight
<1> QED
  BY <1>1, <1>2, <1>3, <1>4, <1>5, AskKeeps, TakeKeeps, ServerKeeps DEF McpNext

LEMMA McpInvInit == McpInit => McpInv
<1> SUFFICES ASSUME McpInit PROVE McpInv
  OBVIOUS
<1>1. InFlight = {} /\ requests = {} /\ lines = <<>>
  BY DEF McpInit, InFlight
<1>2. AnswerForEach
  BY <1>1, FS_EmptySet DEF AnswerForEach
<1>3. McpTypes
  <2>1. [at |-> "idle", id |-> 0, got |-> 0, alone |-> TRUE] \in CallsAre
    BY DEF CallsAre
  <2>2. nextCall = 1 /\ requests = {} /\ lines = <<>> /\ serves = TRUE /\ stray = FALSE
    BY DEF McpInit
  <2>3. mcp \in [Clients -> CallsAre]
    BY <2>1 DEF McpInit
  <2>4. lines \in Seq(Nat)
    BY <2>2
  <2>5. serves \in BOOLEAN /\ stray \in BOOLEAN
    BY <2>2
  <2>6. requests \subseteq 1 .. (nextCall - 1) /\ nextCall \in Nat \ {0}
    BY <2>2
  <2> QED
    BY <2>3, <2>4, <2>5, <2>6 DEF McpTypes
<1>4. AloneIsOwn
  BY DEF McpInit, AloneIsOwn
<1> QED
  BY <1>2, <1>3, <1>4 DEF McpInv

LEMMA McpInvShows == McpInv => NoAnswerAstray
  BY DEF McpInv, NoAnswerAstray, AnswerForEach, AloneIsOwn

(* Until a line came unasked, or a call was dropped, there is an answer    *)
(* for every call that waits, and a call that meets no other has its own   *)
(* (send_request and read_line in mcp.rs).                                 *)
THEOREM AnswersAreCounted == McpSpec => []NoAnswerAstray
<1> QED
  BY McpInvInit, McpInvStep, McpInvShows, PTL DEF McpSpec

-----------------------------------------------------------------------------
(* The gemini command.                                                     *)

Line == [kind : {"update"}, of : Nat] \cup [kind : {"last"}, of : Nat, ok : BOOLEAN, text : BOOLEAN] \cup [kind : {"other"}]
Call == [at : {"idle", "started", "reading", "done", "failed"}, id : Nat, got : Seq(Nat), text : Nat]

CliTypes ==
  /\ reader \in Prompters \cup {Nobody} /\ child \in BOOLEAN /\ hasOut \in BOOLEAN /\ alive \in BOOLEAN
  /\ pipe \in Seq(Line) /\ promptIds \in Nat /\ sentFor \in Seq(Nat) /\ Len(sentFor) = promptIds
  /\ current \in {0, promptIds} /\ calling \in [Prompters -> Call]

(* One call reads, that of the last prompt, and without a reader nothing   *)
(* is left over of an earlier one when a prompt can be sent.               *)
OneReads ==
  /\ \A p \in Prompters : calling[p].at = "started" => calling[p].got = <<>> /\ calling[p].text = 0
  /\ \A p \in Prompters : calling[p].at = "reading" =>
       reader = p /\ calling[p].id = promptIds /\ promptIds > 0 /\ ~hasOut /\ child /\ calling[p].text = 0
  /\ hasOut => child /\ pipe = <<>> /\ current = 0
  /\ ~child => pipe = <<>> /\ current = 0
  /\ ~alive => current = 0

Lasts == {i \in 1 .. Len(pipe) : pipe[i].kind = "last"}
Unread == IF Lasts = {} THEN Len(pipe) ELSE Len(pipe) - 1

(* What the reader has and what is in the pipe are the updates of its      *)
(* prompt, until a line comes that ends the call; the last line has        *)
(* nothing behind it.                                                      *)
OwnLines ==
  \A p \in Prompters : calling[p].at = "reading" =>
    /\ \A i \in 1 .. Len(pipe) : pipe[i].kind # "other" => pipe[i].of = promptIds
    /\ \A i \in Lasts : i = Len(pipe) /\ current = 0
    /\ \A k \in 1 .. Len(calling[p].got) : calling[p].got[k] = promptIds
    /\ (\A i \in 1 .. Len(pipe) : pipe[i].kind # "other") =>
         Len(calling[p].got) + Unread = sentFor[promptIds]

MadeOwn(c, sent) ==
  IF c.text # 0 THEN c.text = c.id /\ c.got = <<>> ELSE c.got = [i \in 1 .. sent[c.id] |-> c.id]
RepliesMade ==
  \A p \in Prompters : calling[p].at = "done" =>
    /\ calling[p].id \in 1 .. promptIds /\ calling[p].id # current
    /\ MadeOwn(calling[p], sentFor)

CliInv == CliTypes /\ OneReads /\ OwnLines /\ RepliesMade

LEMMA AtIs ==
  ASSUME NEW c \in Call, NEW how \in {"idle", "started", "reading", "done", "failed"}
  PROVE  /\ [c EXCEPT !.at = how] \in Call /\ [c EXCEPT !.at = how].at = how
         /\ [c EXCEPT !.at = how].id = c.id /\ [c EXCEPT !.at = how].got = c.got
         /\ [c EXCEPT !.at = how].text = c.text
BY DEF Call

LEMMA NotCallingIs == NotCalling \in Call /\ NotCalling.at = "idle" /\ NotCalling.got = <<>> /\ NotCalling.text = 0
BY DEF NotCalling, Call

LEMMA CliInvInit == CliInit => CliInv
<1> SUFFICES ASSUME CliInit PROVE CliInv
  OBVIOUS
<1>1. \A p \in Prompters : calling[p] = NotCalling
  BY DEF CliInit
<1>2. \A p \in Prompters : calling[p].at = "idle"
  BY <1>1, NotCallingIs
<1>3. CliTypes
  <2>1. calling \in [Prompters -> Call]
    BY NotCallingIs DEF CliInit
  <2>2. pipe \in Seq(Line) /\ sentFor \in Seq(Nat) /\ Len(sentFor) = 0 /\ promptIds = 0
    BY DEF CliInit
  <2>3. reader = Nobody /\ child = FALSE /\ hasOut = FALSE /\ alive = FALSE /\ current = 0
    BY DEF CliInit
  <2> QED BY <2>1, <2>2, <2>3, Zenon DEF CliTypes
<1>4. OneReads /\ OwnLines /\ RepliesMade
  BY <1>2 DEF CliInit, OneReads, OwnLines, RepliesMade
<1> QED BY <1>3, <1>4 DEF CliInv

(* A step of a prompter leaves the other calls as they are.                *)
LEMMA StartKeeps ==
  ASSUME CliInv, NEW p \in Prompters, EnsureStarted(p)
  PROVE  CliInv'
<1>1. CliTypes /\ OneReads /\ OwnLines /\ RepliesMade
  BY DEF CliInv
<1>2. /\ UNCHANGED <<reader, pipe, current, sentFor, promptIds>>
      /\ child' \in BOOLEAN /\ hasOut' \in BOOLEAN /\ alive' \in BOOLEAN
      /\ \/ UNCHANGED <<child, hasOut, alive>>
         \/ ~child /\ child' = TRUE /\ alive' = TRUE
  BY <1>1 DEF EnsureStarted, inner, process, CliTypes
<1>3. \E c \in Call : c.at \in {"started", "failed"} /\ c.got = <<>> /\ c.text = 0 /\ calling' = [calling EXCEPT ![p] = c]
  <2> DEFINE c(how) == [NotCalling EXCEPT !.at = how]
  <2>1. \A how \in {"started", "failed"} : c(how) \in Call /\ c(how).at = how /\ c(how).got = <<>> /\ c(how).text = 0
    <3> TAKE how \in {"started", "failed"}
    <3>1. how \in {"idle", "started", "reading", "done", "failed"} /\ NotCalling \in Call
      BY NotCallingIs
    <3> QED BY <3>1, NotCallingIs, AtIs
  <2>2. calling' = [calling EXCEPT ![p] = c("started")] \/ calling' = [calling EXCEPT ![p] = c("failed")]
    BY Zenon DEF EnsureStarted
  <2> HIDE DEF c
  <2> QED BY <2>1, <2>2, Zenon
<1>4. PICK c \in Call : c.at \in {"started", "failed"} /\ c.got = <<>> /\ c.text = 0 /\ calling' = [calling EXCEPT ![p] = c]
  BY <1>3
<1>5. calling' \in [Prompters -> Call] /\ calling'[p].at \notin {"reading", "done"}
      /\ \A q \in Prompters : q # p => calling'[q] = calling[q]
  BY <1>1, <1>4 DEF CliTypes
<1>6. CliTypes'
  BY <1>1, <1>2, <1>5 DEF CliTypes
<1>7. \A q \in Prompters : calling'[q].at \in {"reading", "done"} => calling'[q] = calling[q]
  BY <1>5
<1>8. OneReads'
  <2>1. \A q \in Prompters : calling'[q].at = "started" => calling'[q].got = <<>> /\ calling'[q].text = 0
    BY <1>1, <1>4, <1>5 DEF OneReads, CliTypes
  <2> QED BY <1>1, <1>2, <1>7, <2>1 DEF OneReads
<1>9. OwnLines'
  <2>1. Lasts' = Lasts /\ Unread' = Unread
    BY <1>2, Zenon DEF Lasts, Unread
  <2> QED BY <1>1, <1>2, <1>7, <2>1 DEF OwnLines
<1>10. RepliesMade'
  BY <1>1, <1>2, <1>7 DEF RepliesMade
<1> QED BY <1>6, <1>8, <1>9, <1>10 DEF CliInv

LEMMA PromptKeeps ==
  ASSUME CliInv, NEW p \in Prompters, Prompt(p)
  PROVE  CliInv'
<1>1. CliTypes /\ OneReads /\ OwnLines /\ RepliesMade
  BY DEF CliInv
<1>2. \A q \in Prompters : calling[q].at # "reading"
  BY <1>1, NobodyAssumption DEF Prompt, OneReads
<1>3. CASE ~hasOut \/ ~alive
  <2>1. /\ hasOut' = FALSE /\ calling' = [calling EXCEPT ![p].at = "failed"]
        /\ UNCHANGED <<reader, current, sentFor, promptIds, child, alive, pipe>>
    BY <1>3 DEF Prompt
  <2>2. calling' \in [Prompters -> Call] /\ calling'[p].at = "failed"
        /\ \A q \in Prompters : q # p => calling'[q] = calling[q]
    BY <1>1, <2>1 DEF CliTypes, Call
  <2>3. CliTypes'
    BY <1>1, <2>1, <2>2 DEF CliTypes
  <2>4. \A q \in Prompters : calling'[q].at # "reading"
    BY <1>2, <2>2
  <2>5. OneReads'
    BY <1>1, <2>1, <2>4 DEF OneReads
  <2>6. OwnLines'
    BY <2>4 DEF OwnLines
  <2>7. RepliesMade'
    BY <1>1, <2>1, <2>2 DEF RepliesMade
  <2> QED BY <2>3, <2>5, <2>6, <2>7 DEF CliInv
<1>4. CASE hasOut /\ alive
  <2> DEFINE n == promptIds + 1
  <2>1. /\ promptIds' = n /\ current' = n /\ sentFor' = Append(sentFor, 0)
        /\ reader' = p /\ hasOut' = FALSE
        /\ calling' = [calling EXCEPT ![p].at = "reading", ![p].id = n]
        /\ UNCHANGED <<child, alive, pipe>> /\ calling[p].at = "started"
    BY <1>4 DEF Prompt
  <2>0. n \in Nat
    BY <1>1 DEF CliTypes
  <2> HIDE DEF n
  <2>2. calling' \in [Prompters -> Call] /\ calling'[p].at = "reading" /\ calling'[p].id = n
        /\ calling'[p].got = calling[p].got /\ calling'[p].text = calling[p].text
        /\ \A q \in Prompters : q # p => calling'[q] = calling[q]
    <3>1. calling \in [Prompters -> Call] /\ calling[p] \in Call
      BY <1>1 DEF CliTypes
    <3> DEFINE c == [calling[p] EXCEPT !.at = "reading", !.id = n]
    <3>2. c \in Call /\ c.at = "reading" /\ c.id = n /\ c.got = calling[p].got /\ c.text = calling[p].text
      BY <2>0, <3>1 DEF Call
    <3>3. calling' = [calling EXCEPT ![p] = c]
      BY <2>1, <3>1
    <3> HIDE DEF c
    <3> QED BY <3>1, <3>2, <3>3
  <2>3. n \in Nat /\ n > 0 /\ sentFor' \in Seq(Nat) /\ Len(sentFor') = n /\ sentFor'[n] = 0
        /\ \A i \in 1 .. promptIds : sentFor'[i] = sentFor[i]
    BY <1>1, <2>1 DEF CliTypes, n
  <2>4. CliTypes'
    BY <1>1, <2>1, <2>2, <2>3 DEF CliTypes
  <2>5. pipe' = <<>> /\ child' /\ ~hasOut' /\ alive'
    BY <1>1, <1>4, <2>1 DEF OneReads
  <2>6. \A q \in Prompters : calling'[q].at = "reading" => q = p
    BY <1>2, <2>2
  <2>7. OneReads'
    <3>1. \A q \in Prompters : calling'[q].at = "started" => calling'[q].got = <<>> /\ calling'[q].text = 0
      BY <1>1, <2>2 DEF OneReads
    <3>2. calling'[p].text = 0
      BY <1>1, <2>1, <2>2 DEF OneReads
    <3> QED BY <2>1, <2>2, <2>3, <2>5, <2>6, <3>1, <3>2 DEF OneReads
  <2>8. calling'[p].got = <<>>
    BY <1>1, <2>1, <2>2 DEF OneReads
  <2>9. OwnLines'
    <3>1. Lasts' = {} /\ Unread' = 0
      BY <2>5 DEF Lasts, Unread
    <3>2. 1 .. Len(pipe') = {} /\ 1 .. Len(calling'[p].got) = {} /\ Len(calling'[p].got) = 0
      BY <2>5, <2>8
    <3>3. Len(calling'[p].got) + Unread' = sentFor'[promptIds']
      BY <2>1, <2>3, <3>1, <3>2
    <3> QED BY <2>6, <3>1, <3>2, <3>3, Zenon DEF OwnLines
  <2>10. RepliesMade'
    <3>1. ASSUME NEW q \in Prompters, calling'[q].at = "done"
          PROVE  /\ calling'[q].id \in 1 .. n /\ calling'[q].id # n
                 /\ MadeOwn(calling'[q], sentFor')
      <4>1. calling'[q] = calling[q] /\ calling[q].id \in 1 .. promptIds
            /\ MadeOwn(calling[q], sentFor)
        BY <1>1, <2>2, <3>1 DEF RepliesMade
      <4>2. MadeOwn(calling[q], sentFor')
        BY <2>3, <4>1 DEF MadeOwn
      <4>3. promptIds \in Nat
        BY <1>1 DEF CliTypes
      <4>4. calling'[q].id \in 1 .. n /\ calling'[q].id # n
        BY <4>1, <4>3 DEF n
      <4> QED BY <4>1, <4>2, <4>4, Zenon
    <3> QED BY <2>1, <3>1 DEF RepliesMade
  <2> QED BY <2>4, <2>7, <2>9, <2>10 DEF CliInv
<1> QED BY <1>3, <1>4

(* A line that is read.                                                    *)
LEMMA TailIs ==
  ASSUME NEW S, NEW q \in Seq(S), q # <<>>
  PROVE  /\ Tail(q) \in Seq(S) /\ Len(Tail(q)) = Len(q) - 1 /\ Len(q) > 0 /\ Head(q) = q[1]
         /\ \A i \in 1 .. Len(q) - 1 : Tail(q)[i] = q[i + 1]
OBVIOUS

(* The reader's line is a last one only when nothing is behind it.         *)
LEMMA LastEnds ==
  ASSUME CliInv, NEW p \in Prompters, calling[p].at = "reading", pipe # <<>>, Head(pipe).kind = "last"
  PROVE  /\ Tail(pipe) = <<>> /\ current = 0 /\ Head(pipe).of = promptIds
         /\ Len(calling[p].got) = sentFor[promptIds]
<1>1. CliTypes /\ OwnLines
  BY DEF CliInv
<1>2. pipe \in Seq(Line) /\ Head(pipe) = pipe[1] /\ Len(pipe) > 0 /\ Len(pipe) \in Nat
  BY <1>1, TailIs DEF CliTypes
<1>3. 1 \in Lasts
  BY <1>2 DEF Lasts
<1>4. Len(pipe) = 1 /\ current = 0
  BY <1>1, <1>3 DEF OwnLines
<1>5. Tail(pipe) = <<>>
  <2>1. Tail(pipe) \in Seq(Line) /\ Len(Tail(pipe)) = Len(pipe) - 1
    BY <1>2, TailIs
  <2> DEFINE rest == Tail(pipe)
  <2> HIDE DEF rest
  <2>2. rest \in Seq(Line) /\ Len(rest) = 0
    BY <1>4, <2>1 DEF rest
  <2>3. rest = <<>>
    BY <2>2
  <2> QED BY <2>3 DEF rest
<1>6. \A i \in 1 .. Len(pipe) : pipe[i].kind = "last"
  BY <1>2, <1>4
<1>7. Unread = 0
  BY <1>3, <1>4 DEF Unread
<1>8. Len(calling[p].got) + Unread = sentFor[promptIds] /\ pipe[1].of = promptIds
  BY <1>1, <1>2, <1>6 DEF OwnLines
<1>9. Len(calling[p].got) \in Nat
  BY <1>1 DEF CliTypes, Call
<1> QED BY <1>2, <1>4, <1>5, <1>7, <1>8, <1>9

LEMMA ReadUpdateKeeps ==
  ASSUME CliInv, NEW p \in Prompters, calling[p].at = "reading", pipe # <<>>, ReadUpdate(p, Head(pipe)),
         UNCHANGED <<child, alive, current, sentFor, promptIds>>
  PROVE  CliInv'
<1>1. CliTypes /\ OneReads /\ OwnLines /\ RepliesMade
  BY DEF CliInv
<1> DEFINE line == Head(pipe)
<1>2. /\ pipe \in Seq(Line) /\ pipe' = Tail(pipe) /\ pipe' \in Seq(Line) /\ Len(pipe) \in Nat
      /\ Len(pipe') = Len(pipe) - 1 /\ Len(pipe) > 0 /\ line = pipe[1] /\ line.kind = "update"
      /\ \A i \in 1 .. Len(pipe) - 1 : pipe'[i] = pipe[i + 1]
  <2>1. pipe \in Seq(Line)
    BY <1>1 DEF CliTypes
  <2> QED BY <2>1, TailIs DEF ReadUpdate
<1>3. line.of = promptIds /\ promptIds \in Nat
  BY <1>1, <1>2 DEF OwnLines, CliTypes
<1>4. calling' = [calling EXCEPT ![p].got = Append(@, line.of)] /\ UNCHANGED <<reader, hasOut>>
  BY DEF ReadUpdate
<1> HIDE DEF line
<1>5. calling[p] \in Call /\ calling[p].got \in Seq(Nat)
  BY <1>1 DEF CliTypes, Call
<1> DEFINE g == Append(calling[p].got, line.of)
<1>6. /\ g \in Seq(Nat) /\ Len(g) = Len(calling[p].got) + 1
      /\ \A k \in 1 .. Len(calling[p].got) : g[k] = calling[p].got[k]
      /\ g[Len(calling[p].got) + 1] = promptIds
  <2>1. line.of = promptIds /\ line.of \in Nat
    BY <1>3
  <2> QED BY <1>5, <2>1
<1>7. /\ calling' \in [Prompters -> Call] /\ calling'[p].got = g /\ calling'[p].at = "reading"
      /\ calling'[p].id = calling[p].id /\ calling'[p].text = calling[p].text /\ \A q \in Prompters : q # p => calling'[q] = calling[q]
  <2>1. calling' = [calling EXCEPT ![p].got = g]
    BY <1>4
  <2> HIDE DEF g
  <2> QED BY <1>1, <1>6, <2>1 DEF CliTypes, Call
<1> HIDE DEF g
<1>8. CliTypes'
  BY <1>1, <1>2, <1>4, <1>7 DEF CliTypes
<1>9. OneReads'
  BY <1>1, <1>2, <1>4, <1>7 DEF OneReads
<1>10. \A q \in Prompters : calling'[q].at = "reading" => q = p
  BY <1>1, <1>7 DEF OneReads
<1>11. Lasts' = {} <=> Lasts = {}
  <2>1. ASSUME NEW i \in Lasts PROVE i - 1 \in Lasts'
    BY <1>2 DEF Lasts
  <2>2. ASSUME NEW i \in Lasts' PROVE i + 1 \in Lasts
    BY <1>2 DEF Lasts
  <2> QED BY <2>1, <2>2
<1>12. Unread' = Unread - 1
  BY <1>2, <1>11 DEF Unread
<1>13. OwnLines'
  <2>1. ASSUME NEW i \in 1 .. Len(pipe'), pipe'[i].kind # "other" PROVE pipe'[i].of = promptIds
    <3>1. i + 1 \in 1 .. Len(pipe) /\ pipe'[i] = pipe[i + 1]
      BY <1>2
    <3> QED BY <1>1, <2>1, <3>1 DEF OwnLines
  <2>2. ASSUME NEW i \in Lasts' PROVE i = Len(pipe') /\ current' = 0
    <3>1. i + 1 \in Lasts /\ i \in Nat
      BY <1>2 DEF Lasts
    <3>2. i + 1 = Len(pipe) /\ current = 0
      BY <1>1, <3>1 DEF OwnLines
    <3>3. current' = 0
      BY <3>2
    <3> DEFINE l == Len(pipe)
    <3>4. l \in Nat /\ Len(pipe') = l - 1 /\ i + 1 = l
      BY <1>2, <3>2
    <3> HIDE DEF l
    <3>5. i = Len(pipe')
      BY <3>1, <3>4
    <3> QED BY <3>3, <3>5
  <2>3. \A k \in 1 .. Len(g) : g[k] = promptIds
    <3>1. \A k \in 1 .. Len(calling[p].got) : calling[p].got[k] = promptIds
      BY <1>1 DEF OwnLines
    <3>2. Len(calling[p].got) \in Nat
      BY <1>5
    <3>4. g[Len(calling[p].got) + 1] = promptIds
      BY <1>6, Zenon
    <3> DEFINE l == Len(calling[p].got)
    <3>3. ASSUME NEW k \in 1 .. Len(g) PROVE k \in 1 .. l \/ k = l + 1
      <4> HIDE DEF l
      <4>1. Len(g) = l + 1 /\ l \in Nat
        BY <1>6, <3>2 DEF l
      <4> QED BY <4>1
    <3>5. \A k \in 1 .. l : g[k] = promptIds
      BY <1>6, <3>1, Zenon
    <3> QED BY <3>3, <3>4, <3>5, Zenon
  <2>4. ASSUME \A i \in 1 .. Len(pipe') : pipe'[i].kind # "other"
        PROVE  Len(g) + Unread' = sentFor[promptIds]
    <3>1. ASSUME NEW i \in 1 .. Len(pipe) PROVE pipe[i].kind # "other"
      <4>1. CASE i = 1
        BY <1>2, <4>1
      <4>2. CASE i # 1
        <5>1. i - 1 \in 1 .. Len(pipe') /\ pipe'[i - 1] = pipe[i]
          BY <1>2, <4>2
        <5> QED BY <2>4, <5>1
      <4> QED BY <4>1, <4>2
    <3>2. Len(calling[p].got) + Unread = sentFor[promptIds]
      BY <1>1, <3>1 DEF OwnLines
    <3>3. Len(calling[p].got) \in Nat /\ Unread \in Int
      BY <1>2, <1>5 DEF Unread
    <3> QED BY <1>6, <1>12, <3>2, <3>3
  <2> QED BY <1>7, <1>10, <2>1, <2>2, <2>3, <2>4 DEF OwnLines
<1>14. RepliesMade'
  BY <1>1, <1>7 DEF RepliesMade
<1> QED BY <1>8, <1>9, <1>13, <1>14 DEF CliInv

LEMMA ReadLastKeeps ==
  ASSUME CliInv, NEW p \in Prompters, calling[p].at = "reading", pipe # <<>>, ReadLast(p, Head(pipe)),
         UNCHANGED <<child, alive, current, sentFor, promptIds>>
  PROVE  CliInv'
<1>1. CliTypes /\ OneReads /\ OwnLines /\ RepliesMade
  BY DEF CliInv
<1>2. /\ Tail(pipe) = <<>> /\ current = 0 /\ Head(pipe).of = promptIds
      /\ Len(calling[p].got) = sentFor[promptIds]
  BY LastEnds DEF ReadLast
<1>3. calling[p].id = promptIds /\ promptIds > 0 /\ promptIds \in Nat /\ child
  BY <1>1 DEF OneReads, CliTypes
<1>4. /\ PutBack(Tail(pipe))
      /\ \/ Ends(p, "done") \/ Ends(p, "failed")
         \/ calling' = [calling EXCEPT ![p] = [@ EXCEPT !.at = "done", !.got = <<>>, !.text = Head(pipe).of]]
  BY <1>2, <1>3, Zenon DEF ReadLast
<1>5. reader' = Nobody /\ hasOut' = TRUE /\ pipe' = <<>>
  <2>1. PICK n \in 0 .. Len(<<>>) : pipe' = SubSeq(<<>>, n + 1, Len(<<>>))
    BY <1>2, <1>4, Zenon DEF PutBack
  <2>2. pipe' = <<>>
    BY <2>1
  <2> QED BY <1>4, <2>2 DEF PutBack
<1> DEFINE EndsWith(c) == /\ calling' = [calling EXCEPT ![p] = c] /\ c.at \in {"done", "failed"} /\ c.id = promptIds
                       /\ \/ c.text = 0 /\ c.got = calling[p].got
                          \/ c.text = promptIds /\ c.got = <<>>
<1>6. \E c \in Call : EndsWith(c)
  <2>1. calling \in [Prompters -> Call] /\ calling[p] \in Call /\ calling[p].text = 0
    BY <1>1 DEF CliTypes, OneReads
  <2>2. ASSUME NEW how \in {"done", "failed"}, Ends(p, how) PROVE \E c \in Call : EndsWith(c)
    <3> DEFINE d == [calling[p] EXCEPT !.at = how]
    <3>1. d \in Call /\ d.at = how /\ d.id = calling[p].id /\ d.got = calling[p].got /\ d.text = calling[p].text
      <4>1. how \in {"idle", "started", "reading", "done", "failed"}
        BY <2>2
      <4> QED BY <2>1, <4>1, AtIs
    <3>2. calling' = [calling EXCEPT ![p] = d]
      BY <2>1, <2>2 DEF Ends
    <3> HIDE DEF d
    <3> QED BY <1>3, <2>1, <3>1, <3>2
  <2>3. CASE calling' = [calling EXCEPT ![p] = [@ EXCEPT !.at = "done", !.got = <<>>, !.text = Head(pipe).of]]
    <3> DEFINE d == [calling[p] EXCEPT !.at = "done", !.got = <<>>, !.text = promptIds]
    <3>1. d \in Call /\ d.at = "done" /\ d.id = calling[p].id /\ d.got = <<>> /\ d.text = promptIds
      <4>1. PICK g \in Seq(Nat) : g = <<>>
        BY NotCallingIs DEF Call
      <4>2. d = [calling[p] EXCEPT !.at = "done", !.got = g, !.text = promptIds]
        BY <4>1
      <4> QED BY <1>3, <2>1, <4>1, <4>2 DEF Call
    <3>2. calling' = [calling EXCEPT ![p] = d]
      BY <1>2, <2>1, <2>3
    <3> HIDE DEF d
    <3> QED BY <1>3, <3>1, <3>2
  <2> QED BY <1>4, <2>2, <2>3
<1>61. PICK c \in Call : EndsWith(c)
  BY <1>6
<1>7. calling' \in [Prompters -> Call] /\ calling'[p] = c /\ \A q \in Prompters : q # p => calling'[q] = calling[q]
  BY <1>1, <1>61 DEF CliTypes
<1>8. \A q \in Prompters : calling'[q].at # "reading"
  BY <1>1, <1>61, <1>7 DEF OneReads
<1>9. \A q \in Prompters : calling'[q].at = "started" => calling'[q].got = <<>> /\ calling'[q].text = 0
  BY <1>1, <1>61, <1>7 DEF OneReads
<1>10. CliTypes'
  BY <1>1, <1>5, <1>7 DEF CliTypes
<1>11. OneReads' /\ OwnLines'
  BY <1>2, <1>3, <1>5, <1>8, <1>9 DEF OneReads, OwnLines
<1>12. RepliesMade'
  <2>1. calling[p].got = [i \in 1 .. sentFor[promptIds] |-> promptIds]
    <3> DEFINE g == calling[p].got
    <3>1. g \in Seq(Nat)
      BY <1>1 DEF CliTypes, Call
    <3>2. \A k \in 1 .. Len(g) : g[k] = promptIds
      BY <1>1 DEF OwnLines
    <3>3. Len(g) = sentFor[promptIds]
      BY <1>2
    <3> HIDE DEF g
    <3>4. g = [i \in 1 .. Len(g) |-> g[i]]
      BY <3>1
    <3>5. g = [i \in 1 .. Len(g) |-> promptIds]
      BY <3>2, <3>4
    <3> QED BY <3>3, <3>5, Zenon DEF g
  <2>2. promptIds \in 1 .. promptIds /\ promptIds # current
    BY <1>2, <1>3
  <2>3. ASSUME NEW q \in Prompters, calling'[q].at = "done"
        PROVE  /\ calling'[q].id \in 1 .. promptIds /\ calling'[q].id # current
               /\ MadeOwn(calling'[q], sentFor)
    <3>1. CASE q = p
      <4>1. MadeOwn(c, sentFor)
        BY <1>3, <1>61, <2>1 DEF MadeOwn
      <4> QED BY <1>61, <1>7, <2>2, <3>1, <4>1
    <3>2. CASE q # p
      BY <1>1, <1>7, <2>3, <3>2, Zenon DEF RepliesMade
    <3> QED BY <3>1, <3>2
  <2> QED BY <2>3, Zenon DEF RepliesMade
<1> QED BY <1>10, <1>11, <1>12 DEF CliInv

(* A call that ends in failure, and leaves the handle out or puts it back   *)
(* on an empty pipe.                                                       *)
LEMMA FailKeeps ==
  ASSUME CliInv, NEW p \in Prompters, calling[p].at = "reading", Ends(p, "failed"),
         pipe' \in Seq(Line), reader' = Nobody,
         \/ UNCHANGED hasOut
         \/ hasOut' = TRUE /\ pipe' = <<>> /\ current = 0,
         UNCHANGED <<child, alive, current, sentFor, promptIds>>
  PROVE  CliInv'
<1>1. CliTypes /\ OneReads /\ OwnLines /\ RepliesMade
  BY DEF CliInv
<1>2. /\ calling' \in [Prompters -> Call] /\ calling'[p].at = "failed"
      /\ \A q \in Prompters : q # p => calling'[q] = calling[q]
  <2>1. calling \in [Prompters -> Call] /\ calling[p] \in Call
    BY <1>1 DEF CliTypes
  <2> DEFINE c == [calling[p] EXCEPT !.at = "failed"]
  <2>2. c \in Call /\ c.at = "failed"
    BY <2>1, AtIs
  <2>3. calling' = [calling EXCEPT ![p] = c]
    BY <2>1 DEF Ends
  <2> HIDE DEF c
  <2> QED BY <2>1, <2>2, <2>3
<1>3. \A q \in Prompters : calling'[q].at # "reading"
  BY <1>1, <1>2 DEF OneReads
<1>4. \A q \in Prompters : calling'[q].at = "started" => calling'[q].got = <<>> /\ calling'[q].text = 0
  BY <1>1, <1>2 DEF OneReads
<1>5. child /\ ~hasOut
  BY <1>1 DEF OneReads
<1>6. CliTypes'
  BY <1>1, <1>2 DEF CliTypes
<1>7. OneReads' /\ OwnLines'
  <2>1. OwnLines'
    BY <1>3 DEF OwnLines
  <2>2. \/ ~hasOut'
        \/ hasOut' /\ pipe' = <<>> /\ current' = 0
    BY <1>5
  <2>3. child' /\ (~alive' => current' = 0)
    BY <1>1, <1>5 DEF OneReads
  <2> QED BY <1>3, <1>4, <2>1, <2>2, <2>3 DEF OneReads
<1>8. RepliesMade'
  BY <1>1, <1>2 DEF RepliesMade
<1> QED BY <1>6, <1>7, <1>8 DEF CliInv

(* What the child does.                                                    *)
LEMMA LinePiped ==
  ASSUME CliInv, NEW line \in Line, current # 0, pipe' = Append(pipe, line),
         UNCHANGED <<reader, child, hasOut, alive, calling, promptIds>>,
         \/ line.kind = "update" /\ line.of = current /\ current' = current
             /\ sentFor' = [sentFor EXCEPT ![current] = @ + 1]
         \/ line.kind = "last" /\ line.of = current /\ current' = 0 /\ UNCHANGED sentFor
         \/ line.kind = "other" /\ current' = current /\ UNCHANGED sentFor
  PROVE  CliInv'
<1>1. CliTypes /\ OneReads /\ OwnLines /\ RepliesMade
  BY DEF CliInv
<1>2. current = promptIds /\ promptIds \in Nat /\ promptIds > 0 /\ ~hasOut /\ child
  BY <1>1 DEF CliTypes, OneReads
<1> DEFINE n == Len(pipe)
<1>3. /\ pipe \in Seq(Line) /\ pipe' \in Seq(Line) /\ n \in Nat /\ Len(pipe') = n + 1
      /\ pipe'[n + 1] = line /\ \A i \in 1 .. n : pipe'[i] = pipe[i]
  BY <1>1 DEF CliTypes
<1>4. /\ sentFor' \in Seq(Nat) /\ Len(sentFor') = Len(sentFor) /\ sentFor[promptIds] \in Nat
      /\ \A i \in 1 .. promptIds : i # promptIds => sentFor'[i] = sentFor[i]
      /\ sentFor'[promptIds] = IF line.kind = "update" THEN sentFor[promptIds] + 1 ELSE sentFor[promptIds]
  <2>1. sentFor \in Seq(Nat) /\ Len(sentFor) = promptIds /\ promptIds \in 1 .. promptIds
    BY <1>1, <1>2 DEF CliTypes
  <2>2. CASE line.kind = "update"
    <3>1. sentFor' = [sentFor EXCEPT ![promptIds] = sentFor[promptIds] + 1]
      BY <1>2, <2>2
    <3>2. sentFor[promptIds] + 1 \in Nat
      BY <2>1
    <3> QED BY <2>1, <2>2, <3>1, <3>2
  <2>3. CASE line.kind # "update"
    BY <2>1, <2>3
  <2> QED BY <2>2, <2>3
<1> HIDE DEF n
<1>5. CliTypes'
  BY <1>1, <1>2, <1>3, <1>4 DEF CliTypes
<1>6. OneReads'
  BY <1>1, <1>2 DEF OneReads
<1>7. OwnLines'
  <2> SUFFICES ASSUME NEW p \in Prompters, calling[p].at = "reading"
               PROVE  /\ \A i \in 1 .. Len(pipe') : pipe'[i].kind # "other" => pipe'[i].of = promptIds
                      /\ \A i \in Lasts' : i = Len(pipe') /\ current' = 0
                      /\ \A k \in 1 .. Len(calling[p].got) : calling[p].got[k] = promptIds
                      /\ (\A i \in 1 .. Len(pipe') : pipe'[i].kind # "other") =>
                           Len(calling[p].got) + Unread' = sentFor'[promptIds]
    BY DEF OwnLines
  <2>1. /\ \A i \in 1 .. n : pipe[i].kind # "other" => pipe[i].of = promptIds
        /\ \A i \in Lasts : i = n /\ current = 0
        /\ \A k \in 1 .. Len(calling[p].got) : calling[p].got[k] = promptIds
        /\ (\A i \in 1 .. n : pipe[i].kind # "other") =>
             Len(calling[p].got) + Unread = sentFor[promptIds]
    BY <1>1 DEF OwnLines, n
  <2>2. Lasts = {}
    BY <2>1
  <2>3. Lasts' = IF line.kind = "last" THEN {n + 1} ELSE {}
    <3>1. \A i \in 1 .. n : pipe[i].kind # "last"
      BY <2>2 DEF Lasts, n
    <3>2. \A i \in 1 .. n : pipe'[i].kind # "last"
      BY <1>3, <3>1
    <3>3. 1 .. Len(pipe') = 1 .. n \cup {n + 1}
      BY <1>3
    <3> QED BY <1>3, <3>2, <3>3, Zenon DEF Lasts
  <2>4. Unread = n /\ Unread' = IF line.kind = "last" THEN n ELSE n + 1
    BY <1>3, <2>2, <2>3 DEF Unread, n
  <2>5. ASSUME NEW i \in 1 .. Len(pipe'), pipe'[i].kind # "other" PROVE pipe'[i].of = promptIds
    <3>1. CASE i \in 1 .. n
      BY <1>3, <2>1, <2>5, <3>1
    <3>2. CASE i = n + 1
      BY <1>2, <1>3, <2>5, <3>2
    <3> QED BY <1>3, <3>1, <3>2
  <2>6. \A i \in Lasts' : i = Len(pipe') /\ current' = 0
    BY <1>3, <2>3
  <2>7. ASSUME \A i \in 1 .. Len(pipe') : pipe'[i].kind # "other"
        PROVE  Len(calling[p].got) + Unread' = sentFor'[promptIds]
    <3>1. \A i \in 1 .. n : pipe[i].kind # "other"
      BY <1>3, <2>7
    <3>2. line.kind # "other"
      BY <1>3, <2>7
    <3>3. Len(calling[p].got) \in Nat
      BY <1>1 DEF CliTypes, Call
    <3>4. Len(calling[p].got) + n = sentFor[promptIds]
      BY <2>1, <2>4, <3>1
    <3> DEFINE l == Len(calling[p].got)  m == sentFor[promptIds]
    <3>5. l \in Nat /\ n \in Nat /\ m \in Nat /\ l + n = m
      BY <1>3, <1>4, <3>3, <3>4
    <3>6. CASE line.kind = "update"
      <4>1. Unread' = n + 1 /\ sentFor'[promptIds] = m + 1
        BY <1>4, <2>4, <3>6
      <4> HIDE DEF l, m
      <4>2. l + Unread' = sentFor'[promptIds]
        BY <3>5, <4>1
      <4> QED BY <4>2 DEF l
    <3>7. CASE line.kind = "last"
      <4>1. Unread' = n /\ sentFor'[promptIds] = m
        BY <1>4, <2>4, <3>7
      <4> QED BY <3>5, <4>1
    <3> QED BY <3>2, <3>6, <3>7
  <2> QED BY <2>1, <2>5, <2>6, <2>7
<1>8. RepliesMade'
  <2>1. ASSUME NEW q \in Prompters, calling[q].at = "done"
        PROVE  /\ calling[q].id \in 1 .. promptIds /\ calling[q].id # current'
               /\ sentFor'[calling[q].id] = sentFor[calling[q].id]
    <3>1. calling[q].id \in 1 .. promptIds /\ calling[q].id # current
      BY <1>1, <2>1 DEF RepliesMade
    <3> QED BY <1>2, <1>4, <3>1
  <2>2. \A q \in Prompters : calling[q].at = "done" => MadeOwn(calling[q], sentFor')
    BY <1>1, <2>1 DEF RepliesMade, MadeOwn
  <2> QED BY <1>1, <2>1, <2>2, Zenon DEF RepliesMade
<1> QED BY <1>5, <1>6, <1>7, <1>8 DEF CliInv

LEMMA CliInvStep == CliInv /\ [CliNext]_cliVars => CliInv'
<1> SUFFICES ASSUME CliInv, [CliNext]_cliVars PROVE CliInv'
  OBVIOUS
<1>0. CliTypes
  BY DEF CliInv
<1>1. ASSUME NEW p \in Prompters, ReadLine(p) PROVE CliInv'
  <2>1. calling[p].at = "reading" /\ pipe # <<>> /\ UNCHANGED <<child, alive, current, sentFor, promptIds>>
    BY <1>1 DEF ReadLine
  <2>2. ReadUpdate(p, Head(pipe)) \/ ReadLast(p, Head(pipe)) \/ ReadOther(p, Head(pipe))
    BY <1>1, Zenon DEF ReadLine
  <2>3. CASE ReadOther(p, Head(pipe))
    <3>1. Ends(p, "failed") /\ reader' = Nobody /\ pipe' = Tail(pipe) /\ UNCHANGED hasOut
      BY <2>3, Zenon DEF ReadOther, Lose
    <3>2. pipe' \in Seq(Line)
      BY <1>0, <2>1, <3>1, TailIs DEF CliTypes
    <3> QED BY <2>1, <3>1, <3>2, FailKeeps
  <2> QED BY <2>1, <2>2, <2>3, ReadUpdateKeeps, ReadLastKeeps
<1>2. ASSUME NEW p \in Prompters, ReadEnd(p) PROVE CliInv'
  <2>1. calling[p].at = "reading" /\ Ends(p, "failed") /\ reader' = Nobody
        /\ UNCHANGED <<child, alive, current, sentFor, promptIds>>
    BY <1>2 DEF ReadEnd, PutBack
  <2>2. hasOut' = TRUE /\ pipe = <<>> /\ ~alive /\ PutBack(pipe)
    BY <1>2 DEF ReadEnd, PutBack
  <2>3. pipe' = <<>>
    <3>1. PICK n \in 0 .. Len(<<>>) : pipe' = SubSeq(<<>>, n + 1, Len(<<>>))
      BY <2>2, Zenon DEF PutBack
    <3> QED BY <3>1
  <2>4. current = 0 /\ pipe' \in Seq(Line)
    BY <2>2, <2>3 DEF CliInv, OneReads
  <2> QED BY <2>1, <2>2, <2>3, <2>4, FailKeeps
<1>3. CASE SendUpdate
  <2> DEFINE line == [kind |-> "update", of |-> current]
  <2>1. line \in Line /\ line.kind = "update" /\ line.of = current
    BY <1>0 DEF CliTypes, Line
  <2>2. current # 0 /\ pipe' = Append(pipe, line) /\ sentFor' = [sentFor EXCEPT ![current] = @ + 1]
        /\ UNCHANGED <<reader, child, hasOut, alive, calling, promptIds, current>>
    BY <1>3 DEF SendUpdate, Writes, inner
  <2> HIDE DEF line
  <2> QED BY <2>1, <2>2, LinePiped
<1>4. ASSUME NEW ok \in BOOLEAN, NEW full \in BOOLEAN, SendLast(ok, full) PROVE CliInv'
  <2> DEFINE line == [kind |-> "last", of |-> current, ok |-> ok, text |-> full]
  <2>1. line \in Line /\ line.kind = "last" /\ line.of = current
    BY <1>0 DEF CliTypes, Line
  <2>2. current # 0 /\ pipe' = Append(pipe, line) /\ current' = 0
        /\ UNCHANGED <<reader, child, hasOut, alive, calling, promptIds, sentFor>>
    BY <1>4 DEF SendLast, Writes, inner
  <2> HIDE DEF line
  <2> QED BY <2>1, <2>2, LinePiped
<1>5. CASE SendOther
  <2> DEFINE line == [kind |-> "other"]
  <2>1. line \in Line /\ line.kind = "other"
    BY DEF Line
  <2>2. current # 0 /\ pipe' = Append(pipe, line)
        /\ UNCHANGED <<reader, child, hasOut, alive, calling, promptIds, sentFor, current>>
    BY <1>5 DEF SendOther, Writes, inner
  <2> HIDE DEF line
  <2> QED BY <2>1, <2>2, LinePiped
<1>6. CASE ChildEnds
  <2>1. current' = 0 /\ alive' = FALSE
        /\ UNCHANGED <<reader, child, hasOut, pipe, sentFor, calling, promptIds>>
    BY <1>6 DEF ChildEnds, inner
  <2>2. Lasts' = Lasts /\ Unread' = Unread
    BY <2>1, Zenon DEF Lasts, Unread
  <2>3. CliTypes' /\ OneReads'
    BY <1>0, <2>1 DEF CliInv, CliTypes, OneReads
  <2>4. OwnLines'
    BY <2>1, <2>2 DEF CliInv, OwnLines
  <2>5. RepliesMade'
    <3>1. \A p \in Prompters : calling[p].at = "done" => calling[p].id # 0
      <4>1. promptIds \in Nat /\ \A p \in Prompters : calling[p].at = "done" => calling[p].id \in 1 .. promptIds
        BY <1>0 DEF CliInv, RepliesMade, CliTypes
      <4> QED BY <4>1
    <3> QED BY <2>1, <3>1 DEF CliInv, RepliesMade
  <2> QED BY <2>3, <2>4, <2>5 DEF CliInv
<1>7. CASE UNCHANGED cliVars
  <2>1. UNCHANGED <<reader, child, hasOut, alive, pipe, current, sentFor, calling, promptIds>>
    BY <1>7 DEF cliVars, inner, process
  <2>2. Lasts' = Lasts /\ Unread' = Unread
    BY <2>1, Zenon DEF Lasts, Unread
  <2> QED BY <2>1, <2>2 DEF CliInv, CliTypes, OneReads, OwnLines, RepliesMade
<1> QED BY <1>1, <1>2, <1>3, <1>4, <1>5, <1>6, <1>7, StartKeeps, PromptKeeps DEF CliNext

LEMMA RepliesAreOwn == CliInv => ReplyIsOwn
  BY DEF CliInv, RepliesMade, MadeOwn, ReplyIsOwn

(* Every reply is the text its own prompt's last line bore, or made of the  *)
(* updates of its own prompt, all of them (chat and chat_stream in          *)
(* gemini_cli.rs).                                                         *)
THEOREM RepliesAreTheirs == CliInit /\ [][CliNext]_cliVars => []ReplyIsOwn
<1> QED
  BY CliInvInit, CliInvStep, RepliesAreOwn, PTL

-----------------------------------------------------------------------------
(* The browser.                                                            *)

Answer == [id : Nat, val : {"fine", "missing", "error"}]
Socket(K) == [tab : {1} \cup 1 .. NumTabs, state : {"open", "closed", "reset"},
              todo : Seq([id : Nat, kind : K]), inbox : Seq(Answer)]
Client(n) == [ws : 0 .. n, lock : Users \cup {NoUser}, next : Nat]
Fields == {"at", "act", "left", "stage", "client", "id", "result", "alone", "wrong", "lost", "acts"}

CallOk(r, n) ==
  /\ DOMAIN r = Fields /\ r.id \in Nat
  /\ r.at \notin {"idle", "client"} => r.client \in 1 .. n
  /\ ~r.wrong /\ (r.lost => ~r.alone)

BrowserTypes ==
  /\ firstTab \in {1} \cup 1 .. NumTabs
  /\ \E K : sockets \in Seq(Socket(K))
  /\ clients \in Seq(Client(Len(sockets))) /\ toolClient \in 0 .. Len(clients)
  /\ DOMAIN using = Users /\ \A u \in Users : CallOk(using[u], Len(clients))

(* No other call has run while one is alone.                               *)
AloneIsAlone ==
  \A u, v \in Users : using[u].alone /\ using[u].at # "idle" /\ v # u => using[v].at = "idle"

(* What was sent on an open websocket is on its way, or its answer is.     *)
OnItsWay(s, id) ==
  sockets[s].state = "open" =>
    \/ \E i \in 1 .. Len(sockets[s].todo) : sockets[s].todo[i].id = id
    \/ \E i \in 1 .. Len(sockets[s].inbox) : sockets[s].inbox[i].id = id

Waits(u) == using[u].at \in {"sent", "wait"}
AnswerComes ==
  \A u \in Users : Waits(u) /\ using[u].alone => Me(u).ws # 0 /\ OnItsWay(Me(u).ws, using[u].id)

BrowserInv == BrowserTypes /\ AloneIsAlone /\ AnswerComes

LEMMA BrowserInvInit == BrowserInit => BrowserInv
<1> SUFFICES ASSUME BrowserInit PROVE BrowserInv
  OBVIOUS
<1>1. sockets \in Seq(Socket({})) /\ clients = <<>> /\ DOMAIN using = Users /\ firstTab = 1
      /\ toolClient = 0
  BY DEF BrowserInit
<1>2. ASSUME NEW u \in Users PROVE CallOk(using[u], 0) /\ using[u].at = "idle"
  <2>1. using[u] = Rest
    BY DEF BrowserInit
  <2>2. CallOk(Rest, 0) /\ Rest.at = "idle"
    BY DEF CallOk, Rest, Fields
  <2> QED BY <2>1, <2>2
<1>3. BrowserTypes
  <2>1. clients \in Seq(Client(Len(sockets))) /\ Len(clients) = 0
    BY <1>1
  <2>2. toolClient \in 0 .. Len(clients)
    BY <1>1, <2>1
  <2> QED BY <1>1, <1>2, <2>1, <2>2, Zenon DEF BrowserTypes
<1> QED BY <1>2, <1>3 DEF BrowserInv, AloneIsAlone, AnswerComes, Waits

(* A step of one call: the others are idle, or it is not alone and none of *)
(* them is.                                                                *)
LEMMA CallKeeps ==
  ASSUME BrowserInv, NEW u \in Users, using[u].at # "idle", NEW r, Set(u, r),
         r.alone = using[u].alone, CallOk(r, Len(clients')),
         firstTab' \in {1} \cup 1 .. NumTabs, \E K : sockets' \in Seq(Socket(K)),
         clients' \in Seq(Client(Len(sockets'))), Len(clients) <= Len(clients'),
         toolClient' \in 0 .. Len(clients'),
         r.at \in {"sent", "wait"} /\ r.alone =>
           Me(u)'.ws # 0 /\ OnItsWay(Me(u).ws, r.id)'
  PROVE  BrowserInv'
<1>1. BrowserTypes /\ AloneIsAlone /\ AnswerComes
  BY DEF BrowserInv
<1>2. DOMAIN using' = Users /\ using'[u] = r /\ \A v \in Users : v # u => using'[v] = using[v]
  BY <1>1 DEF Set, BrowserTypes
<1>3. Len(clients) \in Nat /\ Len(clients') \in Nat
  BY <1>1 DEF BrowserTypes
<1>4. \A v \in Users : CallOk(using'[v], Len(clients'))
  <2>1. ASSUME NEW v \in Users, v # u PROVE CallOk(using[v], Len(clients'))
    <3>1. CallOk(using[v], Len(clients))
      BY <1>1 DEF BrowserTypes
    <3> DEFINE n == Len(clients)  m == Len(clients')
    <3>2. n \in Nat /\ m \in Nat /\ n <= m /\ CallOk(using[v], n)
      BY <1>3, <3>1
    <3> HIDE DEF n, m
    <3>3. CallOk(using[v], m)
      BY <3>2 DEF CallOk
    <3> QED BY <3>3 DEF m
  <2> QED BY <1>2, <2>1
<1>5. \A v \in Users : v # u => ~(using[v].alone /\ using[v].at # "idle")
  BY <1>1 DEF AloneIsAlone
<1>6. BrowserTypes'
  BY <1>2, <1>4 DEF BrowserTypes
<1>7. AloneIsAlone'
  BY <1>1, <1>2, <1>5 DEF AloneIsAlone
<1>8. AnswerComes'
  BY <1>2, <1>5 DEF AnswerComes, Waits
<1> QED BY <1>6, <1>7, <1>8 DEF BrowserInv

(* Chrome's steps.                                                         *)
LEMMA ChromeKeeps ==
  ASSUME BrowserInv, UNCHANGED <<using, clients, firstTab, toolClient>>, \E K : sockets' \in Seq(Socket(K)),
         Len(sockets') = Len(sockets),
         \A s \in 1 .. Len(sockets), id \in Nat : OnItsWay(s, id) => OnItsWay(s, id)'
  PROVE  BrowserInv'
<1>1. BrowserTypes /\ AloneIsAlone /\ AnswerComes
  BY DEF BrowserInv
<1>2. BrowserTypes'
  BY <1>1 DEF BrowserTypes
<1>3. AloneIsAlone'
  BY <1>1 DEF AloneIsAlone
<1>4. ASSUME NEW u \in Users, Waits(u), using[u].alone
      PROVE  Me(u)'.ws # 0 /\ OnItsWay(Me(u).ws, using[u].id)'
  <2>1. Me(u)' = Me(u) /\ using' = using
    BY DEF Me
  <2> DEFINE s == Me(u).ws
  <2>2. s # 0 /\ OnItsWay(s, using[u].id)
    BY <1>1, <1>4 DEF AnswerComes
  <2>3. using[u].client \in 1 .. Len(clients) /\ using[u].id \in Nat
    BY <1>1, <1>4 DEF BrowserTypes, CallOk, Waits
  <2>4. Me(u) \in Client(Len(sockets)) /\ Len(sockets) \in Nat
    BY <1>1, <2>3 DEF BrowserTypes, Me
  <2>5. s \in 1 .. Len(sockets)
    BY <2>2, <2>4 DEF Client
  <2>6. PICK c \in 1 .. Len(sockets), id \in Nat : c = s /\ id = using[u].id
    BY <2>3, <2>5
  <2>7. OnItsWay(c, id)'
    BY <2>2, <2>6
  <2>8. Me(u)'.ws = c /\ using[u]'.id = id
    BY <2>1, <2>6
  <2> HIDE DEF s
  <2>9. OnItsWay(Me(u).ws, using[u].id)'
    BY <2>7, <2>8, Zenon DEF OnItsWay
  <2>10. c # 0
    OBVIOUS
  <2> QED BY <2>8, <2>9, <2>10
<1>5. AnswerComes'
  BY <1>4 DEF AnswerComes, Waits
<1> QED BY <1>2, <1>3, <1>5 DEF BrowserInv

(* Steps that leave the websockets and the clients alone.                  *)
LEMMA QuietKeeps ==
  ASSUME BrowserInv, NEW u \in Users, using[u].at # "idle", NEW r, Set(u, r),
         r.alone = using[u].alone, CallOk(r, Len(clients)), r.at \notin {"sent", "wait"},
         UNCHANGED <<sockets, clients, firstTab>>, toolClient' \in 0 .. Len(clients)
  PROVE  BrowserInv'
<1>1. BrowserTypes
  BY DEF BrowserInv
<1>2. firstTab' \in {1} \cup 1 .. NumTabs /\ (\E K : sockets' \in Seq(Socket(K)))
      /\ clients' \in Seq(Client(Len(sockets'))) /\ Len(clients) <= Len(clients')
  BY <1>1 DEF BrowserTypes
<1>3. CallOk(r, Len(clients')) /\ toolClient' \in 0 .. Len(clients')
  OBVIOUS
<1> QED BY <1>2, <1>3, CallKeeps

LEMMA CallIs ==
  ASSUME BrowserInv, NEW u \in Users
  PROVE  /\ CallOk(using[u], Len(clients)) /\ Len(clients) \in Nat /\ Len(sockets) \in Nat
         /\ toolClient \in 0 .. Len(clients)
         /\ using[u].at \notin {"idle", "client"} =>
              Me(u) \in Client(Len(sockets)) /\ using[u].client \in 1 .. Len(clients)
<1>1. BrowserTypes
  BY DEF BrowserInv
<1>2. CallOk(using[u], Len(clients)) /\ Len(clients) \in Nat /\ Len(sockets) \in Nat
      /\ toolClient \in 0 .. Len(clients) /\ clients \in Seq(Client(Len(sockets)))
  BY <1>1 DEF BrowserTypes
<1>3. ASSUME using[u].at \notin {"idle", "client"}
      PROVE  Me(u) \in Client(Len(sockets)) /\ using[u].client \in 1 .. Len(clients)
  <2>1. using[u].client \in 1 .. Len(clients)
    BY <1>2, <1>3 DEF CallOk
  <2> QED BY <1>2, <2>1 DEF Me
<1> QED BY <1>2, <1>3

(* A command that fails ends its action or goes on behind it.              *)
LEMMA FailsIs ==
  ASSUME NEW u, NEW r, NEW n, CallOk(r, n), r.at \notin {"idle", "client"}, CommandFails(u, r)
  PROVE  /\ toolClient' = toolClient
         /\ \E q : /\ Set(u, q) /\ CallOk(q, n) /\ q.at \in {"step", "idle"}
                   /\ q.alone = r.alone /\ q.client = r.client
<1>1. CASE r.left # <<>> /\ Head(r.left).stops = {}
  <2> DEFINE q == [r EXCEPT !.at = "step", !.left = Tail(@)]
  <2>1. Set(u, q) /\ UnchangedTool
    BY <1>1 DEF CommandFails
  <2>2. CallOk(q, n) /\ q.at = "step" /\ q.alone = r.alone /\ q.client = r.client
    BY DEF CallOk, Fields
  <2> HIDE DEF q
  <2> QED BY <2>1, <2>2 DEF UnchangedTool
<1>2. CASE ~(r.left # <<>> /\ Head(r.left).stops = {})
  <2> DEFINE q == [r EXCEPT !.at = "idle", !.result = "fail", !.left = <<>>]
  <2>1. Set(u, q) /\ UNCHANGED toolClient
    BY <1>2 DEF CommandFails
  <2>2. CallOk(q, n) /\ q.at = "idle" /\ q.alone = r.alone /\ q.client = r.client
    BY DEF CallOk, Fields
  <2> HIDE DEF q
  <2> QED BY <2>1, <2>2
<1> QED BY <1>1, <1>2

LEMMA EndedIs ==
  ASSUME BrowserInv, NEW u \in Users, NEW result, Ended(u, result)
  PROVE  \E q : Set(u, q) /\ CallOk(q, Len(clients)) /\ q.at = "idle" /\ q.alone = using[u].alone
<1> DEFINE q == [using[u] EXCEPT !.at = "idle", !.result = result, !.left = <<>>]
<1>1. Set(u, q)
  BY DEF Ended
<1>2. CallOk(using[u], Len(clients))
  BY CallIs
<1>3. CallOk(q, Len(clients)) /\ q.at = "idle" /\ q.alone = using[u].alone
  BY <1>2 DEF CallOk, Fields
<1> HIDE DEF q
<1> QED BY <1>1, <1>3

LEMMA ToIs ==
  ASSUME BrowserInv, NEW u \in Users, NEW at, To(u, at), using[u].at \notin {"idle", "client"}
  PROVE  \E q : /\ Set(u, q) /\ CallOk(q, Len(clients)) /\ q.at = at /\ q.alone = using[u].alone
               /\ q.client = using[u].client /\ q.id = using[u].id
<1> DEFINE q == [using[u] EXCEPT !.at = at]
<1>1. Set(u, q)
  BY DEF To
<1>2. CallOk(using[u], Len(clients))
  BY CallIs
<1>3. /\ CallOk(q, Len(clients)) /\ q.at = at /\ q.alone = using[u].alone
      /\ q.client = using[u].client /\ q.id = using[u].id
  BY <1>2 DEF CallOk, Fields
<1> HIDE DEF q
<1> QED BY <1>1, <1>3

(* A websocket more, and where clients may point.                          *)
LEMMA OpenIs ==
  ASSUME BrowserInv, NEW to \in {1} \cup 1 .. NumTabs, OpenSocket(to)
  PROVE  (\E K : sockets' \in Seq(Socket(K))) /\ Len(sockets') = NewSocket
<1>1. PICK K : sockets \in Seq(Socket(K))
  BY DEF BrowserInv, BrowserTypes
<1> DEFINE new == [tab |-> to, state |-> "open", todo |-> <<>>, inbox |-> <<>>]
<1>2. new \in Socket(K)
  BY DEF Socket
<1>3. sockets' = Append(sockets, new)
  BY DEF OpenSocket
<1> HIDE DEF new
<1>4. sockets' \in Seq(Socket(K)) /\ Len(sockets') = Len(sockets) + 1
  BY <1>1, <1>2, <1>3
<1> QED BY <1>4 DEF NewSocket

LEMMA WiderSocket ==
  ASSUME NEW K, NEW J, K \subseteq J
  PROVE  Socket(K) \subseteq Socket(J)
<1>1. [id : Nat, kind : K] \subseteq [id : Nat, kind : J]
  OBVIOUS
<1>2. Seq([id : Nat, kind : K]) \subseteq Seq([id : Nat, kind : J])
  BY <1>1, SeqMonotonic
<1> QED BY <1>2 DEF Socket

LEMMA SocketBreaks ==
  ASSUME NEW K, NEW a \in Socket(K), NEW t,
         \/ t = [a EXCEPT !.state = "reset", !.todo = <<>>]
         \/ t = [a EXCEPT !.state = "closed", !.todo = <<>>]
         \/ t = [a EXCEPT !.state = "closed", !.todo = <<>>, !.inbox = <<>>]
  PROVE  t \in Socket(K) /\ t.state # "open"
<1> DEFINE T == Seq([id : Nat, kind : K])  B == Seq(Answer)
           States == {"open", "closed", "reset"}  Tabs == {1} \cup 1 .. NumTabs
           R == [tab : Tabs, state : States, todo : T, inbox : B]
<1>1. a \in R
  BY DEF Socket
<1>2. <<>> \in T /\ <<>> \in B /\ "reset" \in States /\ "closed" \in States
  OBVIOUS
<1> HIDE DEF T, B, Tabs, States
<1>3. t \in R /\ t.state # "open"
  BY <1>1, <1>2
<1> QED BY <1>3, Zenon DEF Socket, T, B, Tabs, States

LEMMA ClientsGrow ==
  ASSUME NEW n \in Nat, NEW m \in Nat, n <= m, NEW cs \in Seq(Client(n))
  PROVE  cs \in Seq(Client(m))
<1>1. Client(n) \subseteq Client(m)
  BY DEF Client
<1> QED BY <1>1, SeqMonotonic

LEMMA ClientSet ==
  ASSUME NEW n \in Nat, NEW cs \in Seq(Client(n)), NEW c \in 1 .. Len(cs), NEW k \in Client(n)
  PROVE  [cs EXCEPT ![c] = k] \in Seq(Client(n)) /\ Len([cs EXCEPT ![c] = k]) = Len(cs)
BY ExceptSeq

-----------------------------------------------------------------------------
LEMMA BeginKeeps ==
  ASSUME BrowserInv, NEW u \in Users, NEW act, Begin(u, act)
  PROVE  BrowserInv'
<1>1. BrowserTypes /\ AloneIsAlone /\ AnswerComes
  BY DEF BrowserInv
<1> DEFINE b == [Rest EXCEPT !.at = "client", !.act = act, !.acts = using[u].acts + 1,
                             !.alone = \A w \in Users : Using(w, "idle")]
           other(v) == [using[v] EXCEPT !.alone = @ /\ Using(v, "idle")]
<1>2. /\ UNCHANGED <<sockets, clients, firstTab, toolClient>> /\ using[u].at = "idle"
      /\ using' = [v \in Users |-> IF v = u THEN b ELSE other(v)]
  BY DEF Begin, UnchangedChrome, UnchangedTool, Using
<1>3. \A n \in Nat : CallOk(b, n) /\ b.at = "client" /\ (b.alone <=> \A w \in Users : using[w].at = "idle")
  BY DEF CallOk, Rest, Fields, Using
<1>4. ASSUME NEW v \in Users
      PROVE  /\ CallOk(other(v), Len(clients)) /\ other(v).at = using[v].at
             /\ other(v).alone => using[v].alone /\ using[v].at = "idle"
  <2>1. CallOk(using[v], Len(clients))
    BY <1>1 DEF BrowserTypes
  <2>2. other(v).alone => using[v].alone /\ using[v].at = "idle"
    BY <2>1 DEF CallOk, Fields, Using
  <2>3. CallOk(other(v), Len(clients)) /\ other(v).at = using[v].at
    BY <2>1 DEF CallOk, Fields, Using
  <2> QED BY <2>2, <2>3
<1> HIDE DEF b, other
<1>5. DOMAIN using' = Users /\ using'[u] = b /\ \A v \in Users : v # u => using'[v] = other(v)
  BY <1>2
<1>6. Len(clients) \in Nat
  BY <1>1 DEF BrowserTypes
<1>7. BrowserTypes'
  <2>1. \A v \in Users : CallOk(using'[v], Len(clients))
    BY <1>3, <1>4, <1>5, <1>6
  <2> QED BY <1>1, <1>2, <1>5, <2>1 DEF BrowserTypes
<1>8. AloneIsAlone'
  BY <1>3, <1>4, <1>5, <1>6 DEF AloneIsAlone
<1>9. AnswerComes'
  <2>1. \A v \in Users : using'[v].at \in {"sent", "wait"} => ~using'[v].alone
    BY <1>3, <1>4, <1>5, <1>6
  <2> QED BY <2>1 DEF AnswerComes, Waits
<1> QED BY <1>7, <1>8, <1>9 DEF BrowserInv

LEMMA GetClientKeeps ==
  ASSUME BrowserInv, NEW u \in Users, GetClient(u)
  PROVE  BrowserInv'
<1>1. CallOk(using[u], Len(clients)) /\ Len(clients) \in Nat /\ toolClient \in 0 .. Len(clients)
  BY CallIs
<1>2. using[u].at = "client" /\ UNCHANGED <<sockets, toolClient, firstTab>>
  BY DEF GetClient, Using, UnchangedChrome
<1>3. CASE toolClient # 0
  <2> DEFINE r == [using[u] EXCEPT !.at = "step", !.client = toolClient, !.left = Script[using[u].act], !.stage = "act"]
  <2>1. Set(u, r) /\ UNCHANGED clients
    BY <1>3, Zenon DEF GetClient
  <2>2. CallOk(r, Len(clients)) /\ r.at = "step" /\ r.alone = using[u].alone
    BY <1>1, <1>3 DEF CallOk, Fields
  <2> HIDE DEF r
  <2> QED BY <1>1, <1>2, <2>1, <2>2, QuietKeeps
<1>4. CASE toolClient = 0
  <2> DEFINE n == Len(clients)
             k == [ws |-> 0, lock |-> NoUser, next |-> 1]
             r == [using[u] EXCEPT !.at = "connect", !.client = n + 1]
  <2>1. Set(u, r) /\ clients' = Append(clients, k)
    BY <1>4, Zenon DEF GetClient
  <2>2. Len(sockets) \in Nat /\ clients \in Seq(Client(Len(sockets)))
    BY DEF BrowserInv, BrowserTypes
  <2>3. k \in Client(Len(sockets))
    BY <2>2 DEF Client
  <2> HIDE DEF k
  <2>4. clients' \in Seq(Client(Len(sockets))) /\ Len(clients') = n + 1
    BY <2>1, <2>2, <2>3
  <2>5. CallOk(r, n + 1) /\ r.at = "connect" /\ r.alone = using[u].alone
    BY <1>1 DEF CallOk, Fields
  <2> HIDE DEF n, r
  <2>6. firstTab' \in {1} \cup 1 .. NumTabs /\ (\E K : sockets' \in Seq(Socket(K)))
        /\ clients' \in Seq(Client(Len(sockets'))) /\ CallOk(r, Len(clients'))
    BY <1>2, <2>4, <2>5 DEF BrowserInv, BrowserTypes
  <2>7. Len(clients) <= Len(clients') /\ toolClient' \in 0 .. Len(clients')
    BY <1>1, <1>2, <2>4 DEF n
  <2> QED BY <1>2, <2>1, <2>5, <2>6, <2>7, CallKeeps
<1> QED BY <1>3, <1>4

(* A new websocket takes the place of the one a client has.                *)
LEMMA PointIs ==
  ASSUME BrowserInv, NEW u \in Users, using[u].at \notin {"idle", "client"},
         NEW to \in {1} \cup 1 .. NumTabs, OpenSocket(to),
         clients' = [clients EXCEPT ![using[u].client].ws = NewSocket]
  PROVE  /\ \E K : sockets' \in Seq(Socket(K))
         /\ clients' \in Seq(Client(Len(sockets'))) /\ Len(clients') = Len(clients)
<1>1. (\E K : sockets' \in Seq(Socket(K))) /\ Len(sockets') = Len(sockets) + 1
  BY OpenIs DEF NewSocket
<1>2. Len(sockets) \in Nat /\ using[u].client \in 1 .. Len(clients) /\ Me(u) \in Client(Len(sockets))
  BY CallIs
<1> DEFINE n == Len(sockets) + 1  c == using[u].client
           k == [clients[c] EXCEPT !.ws = n]
<1>3. clients \in Seq(Client(n)) /\ c \in 1 .. Len(clients) /\ n \in Nat
  <2>1. clients \in Seq(Client(Len(sockets))) /\ Len(sockets) + 1 \in Nat /\ Len(sockets) <= Len(sockets) + 1
    BY <1>2 DEF BrowserInv, BrowserTypes
  <2> QED BY <1>2, <2>1, ClientsGrow
<1>4. k \in Client(n)
  BY <1>2 DEF Client, Me
<1>5. clients' = [clients EXCEPT ![c] = k]
  BY <1>3 DEF NewSocket
<1> HIDE DEF n, c, k
<1>6. clients' \in Seq(Client(n)) /\ Len(clients') = Len(clients)
  <2>1. [clients EXCEPT ![c] = k] \in Seq(Client(n)) /\ Len([clients EXCEPT ![c] = k]) = Len(clients)
    BY <1>3, <1>4, ClientSet
  <2> QED BY <1>5, <2>1, Zenon
<1> QED BY <1>1, <1>6 DEF n

LEMMA ConnectKeeps ==
  ASSUME BrowserInv, NEW u \in Users, Connect(u)
  PROVE  BrowserInv'
<1>1. /\ CallOk(using[u], Len(clients)) /\ Len(clients) \in Nat /\ toolClient \in 0 .. Len(clients)
      /\ using[u].at \in {"connect", "retry"}
  BY CallIs DEF Connect, Using
<1>2. CASE Connected(u, firstTab) /\ UnchangedChrome /\ UnchangedTool
  <2> DEFINE r == [using[u] EXCEPT !.at = "step", !.left = EnableDomains, !.stage = "setup"]
  <2>1. Set(u, r) /\ OpenSocket(firstTab) /\ clients' = [clients EXCEPT ![using[u].client].ws = NewSocket]
        /\ UNCHANGED <<firstTab, toolClient>>
    BY <1>2, Zenon DEF Connected, UnchangedChrome, UnchangedTool
  <2>2. CallOk(r, Len(clients)) /\ r.at = "step" /\ r.alone = using[u].alone
    BY <1>1 DEF CallOk, Fields
  <2> HIDE DEF r
  <2>3. firstTab \in {1} \cup 1 .. NumTabs
    BY DEF BrowserInv, BrowserTypes
  <2>4. (\E K : sockets' \in Seq(Socket(K))) /\ clients' \in Seq(Client(Len(sockets')))
        /\ Len(clients') = Len(clients)
    BY <1>1, <2>1, <2>3, PointIs
  <2>5. CallOk(r, Len(clients')) /\ Len(clients) <= Len(clients') /\ toolClient' \in 0 .. Len(clients')
        /\ firstTab' \in {1} \cup 1 .. NumTabs
    BY <1>1, <2>1, <2>2, <2>3, <2>4
  <2> QED BY <1>1, <2>1, <2>2, <2>4, <2>5, CallKeeps
<1>3. CASE To(u, "retry") /\ UnchangedTool /\ UNCHANGED <<firstTab, dialogs, sockets, clients>>
  <2>1. PICK q : Set(u, q) /\ CallOk(q, Len(clients)) /\ q.at = "retry" /\ q.alone = using[u].alone
    BY <1>1, <1>3, ToIs
  <2> QED BY <1>1, <1>3, <2>1, QuietKeeps DEF UnchangedTool
<1>4. CASE FailHere(u) /\ UNCHANGED <<firstTab, sockets, clients>>
  <2>1. PICK q : Set(u, q) /\ CallOk(q, Len(clients)) /\ q.at = "idle" /\ q.alone = using[u].alone
    BY <1>4, EndedIs DEF FailHere
  <2> QED BY <1>1, <1>4, <2>1, QuietKeeps DEF FailHere
<1> QED BY <1>2, <1>3, <1>4 DEF Connect, UnchangedChrome

LEMMA ScriptEndsKeeps ==
  ASSUME BrowserInv, NEW u \in Users, ScriptEnds(u)
  PROVE  BrowserInv'
<1>1. /\ CallOk(using[u], Len(clients)) /\ Len(clients) \in Nat /\ toolClient \in 0 .. Len(clients)
      /\ using[u].at = "step" /\ UNCHANGED <<sockets, clients, firstTab>>
  BY CallIs DEF ScriptEnds, Using, UnchangedChrome
<1>2. CASE using[u].stage = "setup"
  <2> DEFINE r == [using[u] EXCEPT !.left = Script[using[u].act], !.stage = "act"]
  <2>1. Set(u, r) /\ toolClient' = using[u].client
    BY <1>2 DEF ScriptEnds
  <2>2. CallOk(r, Len(clients)) /\ r.at = "step" /\ r.alone = using[u].alone
    BY <1>1 DEF CallOk, Fields
  <2> HIDE DEF r
  <2>3. using[u].client \in 0 .. Len(clients)
    BY <1>1 DEF CallOk
  <2> QED BY <1>1, <2>1, <2>2, <2>3, QuietKeeps
<1>3. ASSUME NEW at \in {"adopt", "disconnect"}, To(u, at), UnchangedTool PROVE BrowserInv'
  <2>1. PICK q : Set(u, q) /\ CallOk(q, Len(clients)) /\ q.at = at /\ q.alone = using[u].alone
    BY <1>1, <1>3, ToIs
  <2> QED BY <1>1, <1>3, <2>1, QuietKeeps DEF UnchangedTool
<1>4. CASE Ended(u, "ok") /\ UnchangedTool
  <2>1. PICK q : Set(u, q) /\ CallOk(q, Len(clients)) /\ q.at = "idle" /\ q.alone = using[u].alone
    BY <1>4, EndedIs
  <2> QED BY <1>1, <1>4, <2>1, QuietKeeps DEF UnchangedTool
<1>5. CASE using[u].stage # "setup"
  <2>1. \/ To(u, "adopt") /\ UnchangedTool
        \/ To(u, "disconnect") /\ UnchangedTool
        \/ Ended(u, "ok") /\ UnchangedTool
    BY <1>5 DEF ScriptEnds
  <2> QED BY <1>3, <1>4, <2>1
<1> QED BY <1>2, <1>5

LEMMA FailHereKeeps ==
  ASSUME BrowserInv, NEW u \in Users, using[u].at # "idle", FailHere(u), UNCHANGED <<sockets, clients, firstTab>>
  PROVE  BrowserInv'
<1>1. PICK q : Set(u, q) /\ CallOk(q, Len(clients)) /\ q.at = "idle" /\ q.alone = using[u].alone
  BY EndedIs DEF FailHere
<1>2. toolClient' \in 0 .. Len(clients)
  BY CallIs DEF FailHere
<1> QED BY <1>1, <1>2, QuietKeeps

LEMMA FailsKeeps ==
  ASSUME BrowserInv, NEW u \in Users, using[u].at \notin {"idle", "client"},
         NEW r, CallOk(r, Len(clients)), r.at \notin {"idle", "client"}, r.alone = using[u].alone, CommandFails(u, r),
         firstTab' = firstTab, \E K : sockets' \in Seq(Socket(K)),
         clients' \in Seq(Client(Len(sockets'))), Len(clients') = Len(clients)
  PROVE  BrowserInv'
<1>1. Len(clients) \in Nat /\ toolClient \in 0 .. Len(clients)
  BY CallIs
<1>2. /\ toolClient' = toolClient
      /\ \E q : /\ Set(u, q) /\ CallOk(q, Len(clients)) /\ q.at \in {"step", "idle"}
                /\ q.alone = r.alone /\ q.client = r.client
  BY FailsIs
<1>3. PICK q : /\ Set(u, q) /\ CallOk(q, Len(clients)) /\ q.at \in {"step", "idle"}
               /\ q.alone = r.alone
  BY <1>2
<1>4. CallOk(q, Len(clients')) /\ Len(clients) <= Len(clients') /\ toolClient' \in 0 .. Len(clients')
      /\ firstTab' \in {1} \cup 1 .. NumTabs
  BY <1>1, <1>2, <1>3 DEF BrowserInv, BrowserTypes
<1> QED BY <1>3, <1>4, CallKeeps

LEMMA FailsQuietly ==
  ASSUME BrowserInv, NEW u \in Users, using[u].at \notin {"idle", "client"}, CommandFails(u, using[u]),
         UNCHANGED <<sockets, clients, firstTab>>
  PROVE  BrowserInv'
<1>1. CallOk(using[u], Len(clients))
  BY CallIs
<1>2. (\E K : sockets' \in Seq(Socket(K))) /\ clients' \in Seq(Client(Len(sockets'))) /\ Len(clients') = Len(clients)
  BY DEF BrowserInv, BrowserTypes
<1> QED BY <1>1, <1>2, FailsKeeps

LEMMA DiscoverKeeps ==
  ASSUME BrowserInv, NEW u \in Users, DiscoverTargets(u)
  PROVE  BrowserInv'
<1>1. /\ CallOk(using[u], Len(clients)) /\ toolClient \in 0 .. Len(clients)
      /\ using[u].at = "step" /\ UNCHANGED <<sockets, clients, firstTab>>
  BY CallIs DEF DiscoverTargets, Step, Using, UnchangedChrome
<1>2. CASE Set(u, Popped(u)) /\ UnchangedTool
  <2>1. CallOk(Popped(u), Len(clients)) /\ Popped(u).at = "step" /\ Popped(u).alone = using[u].alone
    BY <1>1 DEF CallOk, Fields, Popped
  <2> QED BY <1>1, <1>2, <2>1, QuietKeeps DEF UnchangedTool
<1>3. CASE CommandFails(u, using[u])
  BY <1>1, <1>3, FailsQuietly
<1> QED BY <1>2, <1>3 DEF DiscoverTargets

LEMMA EnsureConnectedKeeps ==
  ASSUME BrowserInv, NEW u \in Users, EnsureConnected(u)
  PROVE  BrowserInv'
<1>1. /\ toolClient \in 0 .. Len(clients)
      /\ using[u].at = "step" /\ UNCHANGED <<sockets, clients, firstTab, toolClient>>
  BY CallIs DEF EnsureConnected, Step, Using, UnchangedChrome, UnchangedTool
<1>2. \E at \in {"send", "reopen"} : To(u, at)
  BY DEF EnsureConnected
<1>3. PICK at \in {"send", "reopen"} : To(u, at)
  BY <1>2
<1>4. PICK q : Set(u, q) /\ CallOk(q, Len(clients)) /\ q.at = at /\ q.alone = using[u].alone
  BY <1>1, <1>3, ToIs
<1> QED BY <1>1, <1>4, QuietKeeps

LEMMA ReopenKeeps ==
  ASSUME BrowserInv, NEW u \in Users, Reopen(u)
  PROVE  BrowserInv'
<1>1. /\ CallOk(using[u], Len(clients)) /\ Len(clients) \in Nat /\ toolClient \in 0 .. Len(clients)
      /\ using[u].at = "reopen" /\ firstTab' = firstTab
  BY CallIs DEF Reopen, Using, UnchangedChrome
<1>2. CASE /\ OpenSocket(firstTab) /\ clients' = [clients EXCEPT ![using[u].client].ws = NewSocket]
           /\ To(u, "send") /\ UnchangedTool
  <2>1. PICK q : Set(u, q) /\ CallOk(q, Len(clients)) /\ q.at = "send" /\ q.alone = using[u].alone
    BY <1>1, <1>2, ToIs
  <2>2. firstTab \in {1} \cup 1 .. NumTabs
    BY DEF BrowserInv, BrowserTypes
  <2>3. (\E K : sockets' \in Seq(Socket(K))) /\ clients' \in Seq(Client(Len(sockets')))
        /\ Len(clients') = Len(clients)
    BY <1>1, <1>2, <2>2, PointIs
  <2>4. CallOk(q, Len(clients')) /\ Len(clients) <= Len(clients') /\ toolClient' \in 0 .. Len(clients')
        /\ firstTab' \in {1} \cup 1 .. NumTabs
    BY <1>1, <1>2, <2>1, <2>2, <2>3 DEF UnchangedTool
  <2> QED BY <1>1, <2>1, <2>3, <2>4, CallKeeps
<1>3. CASE CommandFails(u, using[u]) /\ UNCHANGED <<sockets, clients>>
  BY <1>1, <1>3, FailsQuietly
<1> QED BY <1>2, <1>3 DEF Reopen

(* A changed client.                                                       *)
LEMMA ChangeIs ==
  ASSUME BrowserInv, NEW u \in Users, using[u].at \notin {"idle", "client"},
         NEW k \in Client(Len(sockets)), clients' = [clients EXCEPT ![using[u].client] = k]
  PROVE  /\ clients' \in Seq(Client(Len(sockets))) /\ Len(clients') = Len(clients)
         /\ clients'[using[u].client] = k
<1> DEFINE n == Len(sockets)  c == using[u].client
<1>1. clients \in Seq(Client(n)) /\ c \in 1 .. Len(clients) /\ n \in Nat
  BY CallIs DEF BrowserInv, BrowserTypes
<1> HIDE DEF n, c
<1>2. k \in Client(n) /\ clients' = [clients EXCEPT ![c] = k]
  BY DEF n, c
<1>3. [clients EXCEPT ![c] = k] \in Seq(Client(n)) /\ Len([clients EXCEPT ![c] = k]) = Len(clients)
  BY <1>1, <1>2, ClientSet
<1>4. [clients EXCEPT ![c] = k][c] = k
  BY <1>1
<1> QED BY <1>2, <1>3, <1>4, Zenon DEF n, c

LEMMA SendKeeps ==
  ASSUME BrowserInv, NEW u \in Users, Send(u)
  PROVE  BrowserInv'
<1> DEFINE k == [Me(u) EXCEPT !.next = @ + 1]  s == Me(u).ws  id == Me(u).next  n == Len(sockets)
           kind == Head(using[u].left).kind
<1>1. /\ CallOk(using[u], Len(clients)) /\ Len(clients) \in Nat /\ toolClient \in 0 .. Len(clients)
      /\ using[u].at = "send" /\ firstTab' = firstTab
      /\ Me(u) \in Client(n) /\ using[u].client \in 1 .. Len(clients) /\ n \in Nat
  BY CallIs DEF Send, Using, UnchangedChrome
<1>2. k \in Client(n) /\ k.ws = s /\ id \in Nat /\ s \in 0 .. n
  BY <1>1 DEF Client
<1>3. clients' = [clients EXCEPT ![using[u].client] = k]
  BY <1>1 DEF Send, Me
<1>4. firstTab \in {1} \cup 1 .. NumTabs
  BY DEF BrowserInv, BrowserTypes
<1>5. PICK K : sockets \in Seq(Socket(K))
  BY DEF BrowserInv, BrowserTypes
<1>6. clients' \in Seq(Client(n)) /\ Len(clients') = Len(clients) /\ clients'[using[u].client] = k
  <2> HIDE DEF k
  <2> QED BY <1>1, <1>2, <1>3, ChangeIs
<1>7. CASE s # 0 /\ sockets[s].state = "open"
  <2> DEFINE t == [sockets[s] EXCEPT !.todo = Append(@, [id |-> id, kind |-> kind])]
             J == K \cup {kind}
             r == [using[u] EXCEPT !.at = "sent", !.id = id]
  <2>1. sockets' = [sockets EXCEPT ![s] = t] /\ Set(u, r) /\ toolClient' = toolClient
    BY <1>2, <1>5, <1>7 DEF Send, UnchangedTool
  <2>2. CallOk(r, Len(clients)) /\ r.at = "sent" /\ r.alone = using[u].alone /\ r.client = using[u].client /\ r.id = id
    BY <1>1, <1>2 DEF CallOk, Fields
  <2>3. s \in 1 .. n
    BY <1>2, <1>7
  <2> HIDE DEF s, id, kind, k, r
  <2>4. kind \in J
    OBVIOUS
  <2>5. Socket(K) \subseteq Socket(J)
    BY WiderSocket
  <2> HIDE DEF J
  <2>6. sockets \in Seq(Socket(J))
    BY <1>5, <2>5, SeqMonotonic
  <2>7. sockets[s] \in Socket(J)
    BY <2>3, <2>6 DEF n
  <2>8. [id |-> id, kind |-> kind] \in [id : Nat, kind : J]
    BY <1>2, <2>4
  <2>9. t \in Socket(J) /\ \E i \in 1 .. Len(t.todo) : t.todo[i].id = id
    <3> DEFINE old == sockets[s].todo  e == [id |-> id, kind |-> kind]  new == Append(old, e)
    <3>1. old \in Seq([id : Nat, kind : J]) /\ e \in [id : Nat, kind : J] /\ e.id = id
      BY <2>7, <2>8 DEF Socket
    <3> HIDE DEF old, e
    <3>2. new \in Seq([id : Nat, kind : J]) /\ new[Len(old) + 1] = e /\ Len(old) + 1 \in 1 .. Len(new)
      BY <3>1
    <3> HIDE DEF new
    <3>3. t = [sockets[s] EXCEPT !.todo = new]
      BY DEF new, old, e
    <3> HIDE DEF t
    <3>4. t \in Socket(J) /\ t.todo = new
      BY <2>7, <3>2, <3>3 DEF Socket
    <3> QED BY <3>1, <3>2, <3>4
  <2> HIDE DEF t
  <2>10. sockets' \in Seq(Socket(J)) /\ Len(sockets') = n /\ sockets'[s] = t
    <3>1. [sockets EXCEPT ![s] = t] \in Seq(Socket(J)) /\ Len([sockets EXCEPT ![s] = t]) = Len(sockets)
          /\ [sockets EXCEPT ![s] = t][s] = t
      <4>1. s \in 1 .. Len(sockets)
        BY <2>3 DEF n
      <4> QED BY <2>6, <2>9, <4>1, ExceptSeq
    <3> QED BY <2>1, <3>1, Zenon DEF n
  <2>11. Me(u)'.ws = s
    <3>1. using'[u] = r
      BY <2>1 DEF BrowserInv, BrowserTypes, Set
    <3>2. Me(u)' = k
      BY <1>6, <2>2, <3>1 DEF Me
    <3> QED BY <1>2, <3>2
  <2> PICK q : q = r
    OBVIOUS
  <2>12. OnItsWay(Me(u).ws, q.id)'
    BY <2>2, <2>9, <2>10, <2>11, Zenon DEF OnItsWay
  <2>13. CallOk(r, Len(clients')) /\ Len(clients) <= Len(clients') /\ toolClient' \in 0 .. Len(clients')
         /\ firstTab' \in {1} \cup 1 .. NumTabs /\ clients' \in Seq(Client(Len(sockets')))
    BY <1>1, <1>4, <1>6, <2>1, <2>2, <2>10
  <2>14. Me(u)'.ws # 0
    BY <2>3, <2>11
  <2> QED BY <1>1, <2>1, <2>2, <2>10, <2>12, <2>13, <2>14, CallKeeps
<1>8. CASE ~(s # 0 /\ sockets[s].state = "open")
  <2>1. CommandFails(u, using[u]) /\ UNCHANGED sockets
    BY <1>8 DEF Send
  <2> QED BY <1>1, <1>5, <1>6, <2>1, FailsKeeps
<1> QED BY <1>7, <1>8

LEMMA WaitKeeps ==
  ASSUME BrowserInv, NEW u \in Users, Wait(u)
  PROVE  BrowserInv'
<1>1. /\ CallOk(using[u], Len(clients)) /\ Len(clients) \in Nat /\ toolClient \in 0 .. Len(clients)
      /\ using[u].at = "sent" /\ UNCHANGED <<firstTab, sockets>>
      /\ Me(u) \in Client(Len(sockets)) /\ using[u].client \in 1 .. Len(clients)
  BY CallIs DEF Wait, Using, UnchangedChrome
<1>2. CASE Me(u).ws = 0
  <2>1. CommandFails(u, using[u]) /\ UNCHANGED clients
    BY <1>2 DEF Wait
  <2> QED BY <1>1, <2>1, FailsQuietly
<1>3. CASE Me(u).ws # 0
  <2> DEFINE k == [Me(u) EXCEPT !.lock = u]
  <2>1. clients' = [clients EXCEPT ![using[u].client] = k] /\ To(u, "wait") /\ toolClient' = toolClient
    BY <1>1, <1>3 DEF Wait, Me, UnchangedTool
  <2>2. k \in Client(Len(sockets)) /\ k.ws = Me(u).ws
    BY <1>1 DEF Client
  <2>3. clients' \in Seq(Client(Len(sockets))) /\ Len(clients') = Len(clients) /\ clients'[using[u].client] = k
    <3> HIDE DEF k
    <3> QED BY <1>1, <2>1, <2>2, ChangeIs
  <2>4. PICK q : /\ Set(u, q) /\ CallOk(q, Len(clients)) /\ q.at = "wait" /\ q.alone = using[u].alone
                 /\ q.client = using[u].client /\ q.id = using[u].id
    BY <1>1, <2>1, ToIs
  <2>5. using'[u] = q
    BY <2>4 DEF BrowserInv, BrowserTypes, Set
  <2>6. Me(u)'.ws = Me(u).ws
    BY <2>2, <2>3, <2>4, <2>5 DEF Me
  <2>7. q.alone => OnItsWay(Me(u).ws, q.id)'
    <3>1. q.alone => OnItsWay(Me(u).ws, using[u].id)
      BY <1>1, <2>4 DEF BrowserInv, AnswerComes, Waits
    <3> QED BY <1>1, <2>4, <2>6, <3>1, Zenon DEF OnItsWay
  <2>8. CallOk(q, Len(clients')) /\ Len(clients) <= Len(clients') /\ toolClient' \in 0 .. Len(clients')
        /\ firstTab' \in {1} \cup 1 .. NumTabs /\ clients' \in Seq(Client(Len(sockets')))
        /\ (\E K : sockets' \in Seq(Socket(K))) /\ Me(u)'.ws # 0
    BY <1>1, <1>3, <2>1, <2>3, <2>4, <2>6 DEF BrowserInv, BrowserTypes
  <2> QED BY <1>1, <2>4, <2>7, <2>8, CallKeeps
<1> QED BY <1>2, <1>3

(* The websocket of one that waits alone, when another may be changed.     *)
LEMMA SocketSet ==
  ASSUME NEW K, NEW ss \in Seq(Socket(K)), NEW s \in 1 .. Len(ss), NEW t \in Socket(K)
  PROVE  /\ [ss EXCEPT ![s] = t] \in Seq(Socket(K)) /\ Len([ss EXCEPT ![s] = t]) = Len(ss)
         /\ [ss EXCEPT ![s] = t][s] = t
BY ExceptSeq

(* The websocket waited on, whether it is there or not.                    *)
Shorter(ss, s) == [ss EXCEPT ![s].inbox = Tail(@)]
Behind(a) == [a EXCEPT !.inbox = Tail(@)]
LEMMA InboxShrinks ==
  ASSUME NEW K, NEW ss \in Seq(Socket(K)), NEW s,
         s \in 1 .. Len(ss) => ss[s].inbox # <<>>
  PROVE  /\ Shorter(ss, s) \in Seq(Socket(K)) /\ Len(Shorter(ss, s)) = Len(ss)
         /\ s \notin 1 .. Len(ss) => Shorter(ss, s) = ss
         /\ s \in 1 .. Len(ss) => Shorter(ss, s)[s] = Behind(ss[s])
<1> DEFINE qq == Shorter(ss, s)
<1>0. qq = [ss EXCEPT ![s].inbox = Tail(@)]
  BY DEF Shorter
<1> HIDE DEF qq
<1>1. DOMAIN ss = 1 .. Len(ss)
  OBVIOUS
<1>2. DOMAIN qq = 1 .. Len(ss) /\ \A c \in 1 .. Len(ss) : c # s => qq[c] = ss[c]
  BY <1>0, <1>1
<1>3. CASE s \notin 1 .. Len(ss)
  <2>1. qq = ss
    <3>1. \A c \in DOMAIN qq : qq[c] = ss[c]
      BY <1>2, <1>3
    <3>2. ss = [c \in 1 .. Len(ss) |-> ss[c]]
      BY <1>1
    <3>3. qq = [c \in 1 .. Len(ss) |-> IF c = s THEN [ss[c] EXCEPT !.inbox = Tail(@)] ELSE ss[c]]
      BY <1>0, <1>1, <3>2
    <3>4. qq = [c \in 1 .. Len(ss) |-> ss[c]]
      BY <1>3, <3>3
    <3> QED BY <3>2, <3>4
  <2> QED BY <1>3, <2>1, Zenon DEF qq
<1>4. CASE s \in 1 .. Len(ss)
  <2> DEFINE t == [ss[s] EXCEPT !.inbox = Tail(@)]  box == ss[s].inbox  rest == Tail(box)
  <2>1. ss[s] \in Socket(K)
    BY <1>4
  <2>2. box \in Seq(Answer) /\ box # <<>>
    BY <1>4, <2>1 DEF Socket
  <2> HIDE DEF box
  <2>3. rest \in Seq(Answer)
    BY <2>2
  <2> HIDE DEF rest
  <2>4. t = [ss[s] EXCEPT !.inbox = rest]
    BY DEF rest, box
  <2>5. t \in Socket(K)
    <3> HIDE DEF t
    <3> QED BY <2>1, <2>3, <2>4 DEF Socket
  <2>6. qq = [ss EXCEPT ![s] = t]
    BY <1>0, <1>1, <1>4
  <2> HIDE DEF t
  <2>7. [ss EXCEPT ![s] = t] \in Seq(Socket(K)) /\ Len([ss EXCEPT ![s] = t]) = Len(ss)
        /\ [ss EXCEPT ![s] = t][s] = t
    BY <1>4, <2>5, SocketSet
  <2>8. qq \in Seq(Socket(K)) /\ Len(qq) = Len(ss) /\ qq[s] = t
    BY <2>6, <2>7, Zenon
  <2> QED BY <1>4, <2>8 DEF t, qq, Behind
<1> QED BY <1>3, <1>4

(* An answer behind the first is still there.                              *)
Has(box, id) == \E i \in 1 .. Len(box) : box[i].id = id
LEMMA DropsAnother ==
  ASSUME NEW K, NEW a \in Socket(K), NEW id, a.inbox # <<>>, Head(a.inbox).id # id
  PROVE  /\ Behind(a).state = a.state /\ Behind(a).todo = a.todo
         /\ Has(a.inbox, id) => Has(Behind(a).inbox, id)
<1> DEFINE box == a.inbox  rest == Tail(box)
<1>1. box \in Seq(Answer) /\ box # <<>>
  BY DEF Socket
<1>2. Behind(a).inbox = rest /\ Behind(a).state = a.state /\ Behind(a).todo = a.todo
  BY DEF Socket, Behind
<1>3. ASSUME NEW i \in 1 .. Len(box), box[i].id = id
      PROVE  \E k \in 1 .. Len(rest) : rest[k].id = id
  <2> HIDE DEF box
  <2>1. i # 1
    BY <1>1, <1>3 DEF box
  <2>2. i - 1 \in 1 .. Len(rest) /\ rest[i - 1] = box[i]
    BY <1>1, <2>1
  <2> QED BY <1>3, <2>2
<1> QED BY <1>2, <1>3 DEF Has

LEMMA ReceiveKeeps ==
  ASSUME BrowserInv, NEW u \in Users, Receive(u)
  PROVE  BrowserInv'
<1> DEFINE s == Me(u).ws  n == Len(sockets)  message == Head(sockets[s].inbox)
           k == [Me(u) EXCEPT !.lock = NoUser]
           r == [using[u] EXCEPT !.wrong = @ \/ message.id # using[u].id]
           q == [r EXCEPT !.at = "step", !.left = Tail(@)]
<1>1. /\ CallOk(using[u], Len(clients)) /\ Len(clients) \in Nat /\ toolClient \in 0 .. Len(clients)
      /\ using[u].at = "wait" /\ firstTab' = firstTab
      /\ Me(u) \in Client(n) /\ using[u].client \in 1 .. Len(clients) /\ n \in Nat
  BY CallIs DEF Receive, Using, UnchangedChrome
<1>2. sockets[s].inbox # <<>> /\ sockets' = [sockets EXCEPT ![s].inbox = Tail(@)]
  BY DEF Receive
<1>3. PICK K : sockets \in Seq(Socket(K))
  BY DEF BrowserInv, BrowserTypes
<1>4. /\ sockets' \in Seq(Socket(K)) /\ Len(sockets') = n
      /\ s \notin 1 .. n => sockets' = sockets
      /\ s \in 1 .. n => sockets'[s] = Behind(sockets[s])
  <2> HIDE DEF s
  <2>1. sockets' = Shorter(sockets, s) /\ (s \in 1 .. Len(sockets) => sockets[s].inbox # <<>>)
    BY <1>2 DEF Shorter
  <2>2. /\ Shorter(sockets, s) \in Seq(Socket(K)) /\ Len(Shorter(sockets, s)) = Len(sockets)
        /\ s \notin 1 .. Len(sockets) => Shorter(sockets, s) = sockets
        /\ s \in 1 .. Len(sockets) => Shorter(sockets, s)[s] = Behind(sockets[s])
    BY <1>3, <2>1, InboxShrinks, Zenon
  <2> QED BY <2>1, <2>2, Zenon DEF n
<1>5. CASE IsAnswer(message, using[u].id)
  <2>1. clients' = [clients EXCEPT ![using[u].client] = k] /\ k \in Client(n)
    <3>1. clients' = [clients EXCEPT ![using[u].client].lock = NoUser]
      BY <1>5 DEF Receive
    <3>2. k \in Client(n)
      BY <1>1 DEF Client
    <3> QED BY <1>1, <3>1, <3>2 DEF Me
  <2>2. clients' \in Seq(Client(n)) /\ Len(clients') = Len(clients)
    <3> HIDE DEF k
    <3> QED BY <1>1, <2>1, ChangeIs
  <2>3. CallOk(r, Len(clients)) /\ r.at = "wait" /\ r.alone = using[u].alone
    BY <1>1, <1>5 DEF CallOk, Fields, IsAnswer
  <2>4. \/ CommandFails(u, r)
        \/ Set(u, q) /\ UnchangedTool
    BY <1>5 DEF Receive
  <2>5. /\ clients' \in Seq(Client(Len(sockets'))) /\ Len(clients) <= Len(clients')
        /\ firstTab' \in {1} \cup 1 .. NumTabs
    BY <1>1, <1>4, <2>2 DEF BrowserInv, BrowserTypes
  <2>6. CASE CommandFails(u, r)
    <3> HIDE DEF r
    <3> QED BY <1>1, <1>4, <2>2, <2>3, <2>5, <2>6, FailsKeeps
  <2>7. CASE Set(u, q) /\ UnchangedTool
    <3>1. CallOk(q, Len(clients)) /\ q.at = "step" /\ q.alone = using[u].alone
      <4> HIDE DEF r
      <4> QED BY <2>3 DEF CallOk, Fields
    <3> HIDE DEF q
    <3>2. CallOk(q, Len(clients')) /\ toolClient' \in 0 .. Len(clients')
      BY <1>1, <2>2, <2>7, <3>1 DEF UnchangedTool
    <3> QED BY <1>1, <1>4, <2>5, <2>7, <3>1, <3>2, CallKeeps
  <2> QED BY <2>4, <2>6, <2>7
<1>6. CASE ~IsAnswer(message, using[u].id)
  <2>1. UNCHANGED <<clients, using, toolClient, firstTab>>
    BY <1>1, <1>6 DEF Receive, UnchangedTool
  <2>2. BrowserTypes /\ AloneIsAlone /\ AnswerComes
    BY DEF BrowserInv
  <2>3. BrowserTypes'
    BY <1>4, <2>1, <2>2 DEF BrowserTypes
  <2>4. AloneIsAlone'
    BY <2>1, <2>2 DEF AloneIsAlone
  <2>5. ASSUME NEW v \in Users, Waits(v)', using'[v].alone
        PROVE  Me(v)'.ws # 0 /\ OnItsWay(Me(v).ws, using[v].id)'
    <3>1. v = u
      BY <1>1, <2>1, <2>2, <2>5 DEF AloneIsAlone, Waits
    <3>2. s # 0 /\ OnItsWay(s, using[u].id)
      BY <2>1, <2>2, <2>5, <3>1 DEF AnswerComes, Waits
    <3>3. s \in 1 .. n
      BY <1>1, <3>2 DEF Client
    <3>4. Me(v)'.ws = s /\ using'[v].id = using[u].id
      BY <2>1, <3>1 DEF Me
    <3>5. sockets[s] \in Socket(K) /\ sockets'[s] = Behind(sockets[s])
      BY <1>3, <1>4, <3>3
    <3>6. Head(sockets[s].inbox).id # using[u].id
      BY <1>6 DEF IsAnswer
    <3> HIDE DEF s
    <3>7. PICK c : c = s
      OBVIOUS
    <3>8. PICK id : id = using[u].id
      OBVIOUS
    <3>9. /\ sockets'[c].state = sockets[c].state /\ sockets'[c].todo = sockets[c].todo
          /\ (\E i \in 1 .. Len(sockets[c].inbox) : sockets[c].inbox[i].id = id) =>
               \E i \in 1 .. Len(sockets'[c].inbox) : sockets'[c].inbox[i].id = id
      <4>1. sockets[c] \in Socket(K) /\ sockets[c].inbox # <<>> /\ Head(sockets[c].inbox).id # id
            /\ sockets'[c] = Behind(sockets[c])
        BY <1>2, <3>5, <3>6, <3>7, <3>8
      <4> PICK a : a = sockets[c]
        OBVIOUS
      <4>2. a \in Socket(K) /\ a.inbox # <<>> /\ Head(a.inbox).id # id
        BY <4>1
      <4>3. /\ Behind(a).state = a.state /\ Behind(a).todo = a.todo
            /\ Has(a.inbox, id) => Has(Behind(a).inbox, id)
        BY <4>2, DropsAnother
      <4>4. sockets'[c] = Behind(a)
        BY <4>1, Zenon
      <4> QED BY <4>3, <4>4, Zenon DEF Has
    <3>10. OnItsWay(c, id)
      BY <3>2, <3>7, <3>8
    <3>11. OnItsWay(c, id)'
      BY <3>9, <3>10, Zenon DEF OnItsWay
    <3>12. Me(v)'.ws = c /\ using'[v].id = id /\ c # 0
      BY <3>2, <3>4, <3>7, <3>8
    <3>13. OnItsWay(Me(v).ws, using[v].id)'
      BY <3>11, <3>12, Zenon DEF OnItsWay
    <3> QED BY <3>12, <3>13
  <2>6. AnswerComes'
    BY <2>5 DEF AnswerComes
  <2> QED BY <2>3, <2>4, <2>6 DEF BrowserInv
<1> QED BY <1>5, <1>6

LEMMA WaitFailsKeeps ==
  ASSUME BrowserInv, NEW u \in Users, WaitFails(u)
  PROVE  BrowserInv'
<1> DEFINE s == Me(u).ws  n == Len(sockets)
           left == IF sockets[s].state = "closed" THEN 0 ELSE s
           k == [Me(u) EXCEPT !.lock = NoUser, !.ws = left]
           late == sockets[s].state = "open" /\ \A i \in DOMAIN sockets[s].todo : sockets[s].todo[i].id # using[u].id
           r == [using[u] EXCEPT !.lost = late]
<1>1. /\ CallOk(using[u], Len(clients)) /\ Len(clients) \in Nat /\ toolClient \in 0 .. Len(clients)
      /\ using[u].at = "wait" /\ UNCHANGED <<firstTab, sockets>>
      /\ Me(u) \in Client(n) /\ using[u].client \in 1 .. Len(clients) /\ n \in Nat
      /\ sockets[s].inbox = <<>>
  BY CallIs DEF WaitFails, Using, UnchangedChrome
<1>2. clients' = [clients EXCEPT ![using[u].client] = k] /\ CommandFails(u, r)
  BY <1>1 DEF WaitFails, Me
<1>3. k \in Client(n)
  <2>1. left \in 0 .. n
    BY <1>1 DEF Client
  <2> HIDE DEF left, n
  <2> QED BY <1>1, <2>1 DEF Client
<1>4. clients' \in Seq(Client(n)) /\ Len(clients') = Len(clients)
  <2> HIDE DEF k
  <2> QED BY <1>1, <1>2, <1>3, ChangeIs
<1>5. late => ~using[u].alone
  <2> SUFFICES ASSUME late, using[u].alone PROVE FALSE
    OBVIOUS
  <2>1. s # 0 /\ OnItsWay(s, using[u].id)
    BY <1>1 DEF BrowserInv, AnswerComes, Waits
  <2>2. PICK K : sockets \in Seq(Socket(K))
    BY DEF BrowserInv, BrowserTypes
  <2>3. sockets[s] \in Socket(K)
    BY <1>1, <2>1, <2>2 DEF Client
  <2>4. DOMAIN sockets[s].todo = 1 .. Len(sockets[s].todo)
    BY <2>3 DEF Socket
  <2> QED BY <1>1, <2>1, <2>4 DEF OnItsWay
<1>6. CallOk(r, Len(clients)) /\ r.at = "wait" /\ r.alone = using[u].alone
  <2> HIDE DEF late
  <2> QED BY <1>1, <1>5 DEF CallOk, Fields
<1>7. (\E K : sockets' \in Seq(Socket(K))) /\ clients' \in Seq(Client(Len(sockets')))
  BY <1>1, <1>4 DEF BrowserInv, BrowserTypes
<1> HIDE DEF r
<1> QED BY <1>1, <1>2, <1>4, <1>6, <1>7, FailsKeeps

(* A step of one that does not wait afterwards.                            *)
LEMMA RestKeeps ==
  ASSUME BrowserInv, NEW u \in Users, using[u].at # "idle", NEW r, Set(u, r),
         r.alone = using[u].alone, CallOk(r, Len(clients)), r.at \notin {"sent", "wait"},
         \E K : sockets' \in Seq(Socket(K)), clients' \in Seq(Client(Len(sockets'))),
         Len(clients') = Len(clients), firstTab' = firstTab, toolClient' \in 0 .. Len(clients)
  PROVE  BrowserInv'
<1>1. Len(clients) \in Nat /\ firstTab \in {1} \cup 1 .. NumTabs
  BY CallIs DEF BrowserInv, BrowserTypes
<1>2. CallOk(r, Len(clients')) /\ Len(clients) <= Len(clients') /\ toolClient' \in 0 .. Len(clients')
      /\ firstTab' \in {1} \cup 1 .. NumTabs
  BY <1>1
<1> QED BY <1>2, CallKeeps

LEMMA DisconnectKeeps ==
  ASSUME BrowserInv, NEW u \in Users, Disconnect(u)
  PROVE  BrowserInv'
<1> DEFINE s == Me(u).ws  n == Len(sockets)  k == [Me(u) EXCEPT !.ws = 0]
           t == [sockets[s] EXCEPT !.state = "closed", !.todo = <<>>, !.inbox = <<>>]
<1>1. /\ CallOk(using[u], Len(clients)) /\ Len(clients) \in Nat /\ toolClient \in 0 .. Len(clients)
      /\ using[u].at = "disconnect" /\ firstTab' = firstTab /\ toolClient' = toolClient
      /\ Me(u) \in Client(n) /\ using[u].client \in 1 .. Len(clients) /\ n \in Nat
  BY CallIs DEF Disconnect, Using, UnchangedChrome, UnchangedTool
<1>2. k \in Client(n) /\ clients' = [clients EXCEPT ![using[u].client] = k]
  BY <1>1 DEF Client, Disconnect, Me
<1>3. clients' \in Seq(Client(n)) /\ Len(clients') = Len(clients)
  <2> HIDE DEF k
  <2> QED BY <1>1, <1>2, ChangeIs
<1>4. PICK K : sockets \in Seq(Socket(K))
  BY DEF BrowserInv, BrowserTypes
<1>5. sockets' \in Seq(Socket(K)) /\ Len(sockets') = n
  <2>1. CASE s = 0
    BY <1>4, <2>1 DEF Disconnect
  <2>2. CASE s # 0
    <3>1. s \in 1 .. n
      BY <1>1, <2>2 DEF Client
    <3>2. sockets[s] \in Socket(K)
      BY <1>4, <3>1
    <3>3. t \in Socket(K)
      <4>1. t = [sockets[s] EXCEPT !.state = "closed", !.todo = <<>>, !.inbox = <<>>]
        OBVIOUS
      <4> HIDE DEF t
      <4> QED BY <3>2, <4>1, SocketBreaks
    <3>4. sockets' = [sockets EXCEPT ![s] = t]
      BY <2>2 DEF Disconnect, Abandoned
    <3> HIDE DEF s, t
    <3> QED BY <1>4, <3>1, <3>3, <3>4, SocketSet DEF n
  <2> QED BY <2>1, <2>2
<1>6. PICK q : Set(u, q) /\ CallOk(q, Len(clients)) /\ q.at = "clear" /\ q.alone = using[u].alone
  <2>1. To(u, "clear")
    BY DEF Disconnect
  <2> QED BY <1>1, <2>1, ToIs
<1>7. (\E J : sockets' \in Seq(Socket(J))) /\ clients' \in Seq(Client(Len(sockets')))
  BY <1>3, <1>5
<1>8. toolClient' \in 0 .. Len(clients)
  BY <1>1
<1> QED BY <1>1, <1>3, <1>6, <1>7, <1>8, RestKeeps

LEMMA ClearClientKeeps ==
  ASSUME BrowserInv, NEW u \in Users, ClearClient(u)
  PROVE  BrowserInv'
<1>1. /\ Len(clients) \in Nat /\ using[u].at = "clear" /\ UNCHANGED <<sockets, clients, firstTab>>
      /\ toolClient' = 0
  BY CallIs DEF ClearClient, Using, UnchangedChrome
<1>2. PICK at \in {"kill", "switch"} : To(u, at)
  BY DEF ClearClient
<1>3. PICK q : Set(u, q) /\ CallOk(q, Len(clients)) /\ q.at = at /\ q.alone = using[u].alone
  BY <1>1, <1>2, ToIs
<1>4. toolClient' \in 0 .. Len(clients)
  BY <1>1
<1> QED BY <1>1, <1>3, <1>4, QuietKeeps

(* Chrome breaks every websocket it has.                                   *)
LEMMA BrokenIs ==
  ASSUME NEW K, sockets \in Seq(Socket(K)), NEW qq, qq = Broken("reset")
  PROVE  /\ qq \in Seq(Socket(K)) /\ Len(qq) = Len(sockets)
         /\ \A s \in 1 .. Len(sockets) : qq[s].state # "open"
<1> DEFINE new(s) == IF sockets[s].state = "open"
                     THEN [sockets[s] EXCEPT !.state = "reset", !.todo = <<>>] ELSE sockets[s]
<1>1. DOMAIN sockets = 1 .. Len(sockets) /\ Len(sockets) \in Nat
  OBVIOUS
<1>2. qq = [s \in 1 .. Len(sockets) |-> new(s)]
  BY <1>1 DEF Broken
<1>3. ASSUME NEW s \in 1 .. Len(sockets) PROVE new(s) \in Socket(K) /\ new(s).state # "open"
  <2>1. sockets[s] \in Socket(K)
    OBVIOUS
  <2> PICK t : t = [sockets[s] EXCEPT !.state = "reset", !.todo = <<>>]
    OBVIOUS
  <2>2. t \in Socket(K) /\ t.state # "open"
    BY <2>1, SocketBreaks
  <2> QED BY <2>1, <2>2
<1> HIDE DEF new
<1> QED BY <1>1, <1>2, <1>3

LEMMA KillBrowserKeeps ==
  ASSUME BrowserInv, NEW u \in Users, KillBrowser(u)
  PROVE  BrowserInv'
<1>1. /\ Len(clients) \in Nat /\ using[u].at = "kill" /\ UNCHANGED <<clients, firstTab, toolClient>>
      /\ toolClient \in 0 .. Len(clients)
  BY CallIs DEF KillBrowser, Using, UnchangedTool
<1>2. sockets' = sockets \/ sockets' = Broken("reset")
  BY DEF KillBrowser
<1>3. PICK K : sockets \in Seq(Socket(K))
  BY DEF BrowserInv, BrowserTypes
<1>4. sockets' \in Seq(Socket(K)) /\ Len(sockets') = Len(sockets)
  BY <1>2, <1>3, BrokenIs
<1>5. PICK q : Set(u, q) /\ CallOk(q, Len(clients)) /\ q.at = "idle" /\ q.alone = using[u].alone
  BY EndedIs DEF KillBrowser
<1>6. (\E J : sockets' \in Seq(Socket(J))) /\ clients' \in Seq(Client(Len(sockets')))
  BY <1>1, <1>4 DEF BrowserInv, BrowserTypes
<1> QED BY <1>1, <1>5, <1>6, RestKeeps

LEMMA SwitchTabKeeps ==
  ASSUME BrowserInv, NEW u \in Users, SwitchTab(u)
  PROVE  BrowserInv'
<1>1. /\ CallOk(using[u], Len(clients)) /\ Len(clients) \in Nat /\ Len(sockets) \in Nat
      /\ toolClient \in 0 .. Len(clients) /\ using[u].at = "switch"
  BY CallIs DEF SwitchTab, Using
<1>2. CASE FailHere(u) /\ UNCHANGED <<sockets, clients, firstTab>>
  BY <1>1, <1>2, FailHereKeeps
<1>3. ASSUME NEW to \in 1 .. NumTabs, OpenSocket(to), firstTab' = to,
             clients' = Append(clients, [ws |-> NewSocket, lock |-> NoUser, next |-> 1]),
             Set(u, [using[u] EXCEPT !.at = "step", !.client = Len(clients) + 1, !.left = EnableDomains, !.stage = "swap"]),
             UnchangedTool
      PROVE  BrowserInv'
  <2> DEFINE k == [ws |-> NewSocket, lock |-> NoUser, next |-> 1]  m == Len(sockets) + 1  n == Len(clients)
             r == [using[u] EXCEPT !.at = "step", !.client = n + 1, !.left = EnableDomains, !.stage = "swap"]
  <2>1. (\E K : sockets' \in Seq(Socket(K))) /\ Len(sockets') = m
    BY <1>3, OpenIs DEF NewSocket
  <2>2. k \in Client(m)
    BY <1>1 DEF Client, NewSocket
  <2>3. clients \in Seq(Client(m))
    <3>1. clients \in Seq(Client(Len(sockets))) /\ m \in Nat /\ Len(sockets) <= m
      BY <1>1 DEF BrowserInv, BrowserTypes
    <3> QED BY <1>1, <3>1, ClientsGrow
  <2>4. clients' = Append(clients, k) /\ Set(u, r)
    BY <1>3
  <2> HIDE DEF k, m
  <2>5. clients' \in Seq(Client(m)) /\ Len(clients') = n + 1
    BY <2>2, <2>3, <2>4
  <2>6. CallOk(r, n + 1) /\ r.at = "step" /\ r.alone = using[u].alone
    BY <1>1 DEF CallOk, Fields
  <2> HIDE DEF r, n
  <2>7. CallOk(r, Len(clients')) /\ clients' \in Seq(Client(Len(sockets'))) /\ firstTab' \in {1} \cup 1 .. NumTabs
    BY <1>3, <2>1, <2>5, <2>6
  <2>8. Len(clients) <= Len(clients') /\ toolClient' \in 0 .. Len(clients')
    BY <1>1, <1>3, <2>5 DEF UnchangedTool, n
  <2> QED BY <1>1, <2>1, <2>4, <2>6, <2>7, <2>8, CallKeeps
<1> QED BY <1>2, <1>3 DEF SwitchTab

LEMMA AdoptKeeps ==
  ASSUME BrowserInv, NEW u \in Users, Adopt(u)
  PROVE  BrowserInv'
<1>1. /\ using[u].at = "adopt" /\ UNCHANGED <<sockets, clients, firstTab>> /\ toolClient' = using[u].client
  BY DEF Adopt, Using, UnchangedChrome
<1>2. PICK q : Set(u, q) /\ CallOk(q, Len(clients)) /\ q.at = "idle" /\ q.alone = using[u].alone
  BY EndedIs DEF Adopt
<1>3. toolClient' \in 0 .. Len(clients)
  BY <1>1, CallIs
<1> QED BY <1>1, <1>2, <1>3, QuietKeeps

LEMMA RefuseKeeps ==
  ASSUME BrowserInv, NEW u \in Users, Refuse(u)
  PROVE  BrowserInv'
BY FailHereKeeps DEF Refuse, Step, Using, UnchangedChrome

LEMMA ChromeUpKeeps == BrowserInv /\ (ChromeUp \/ ChromeDialog) => BrowserInv'
<1> SUFFICES ASSUME BrowserInv, ChromeUp \/ ChromeDialog PROVE BrowserInv'
  OBVIOUS
<1>1. UNCHANGED <<using, clients, firstTab, toolClient, sockets>>
  BY DEF ChromeUp, ChromeDialog, UnchangedCalls
<1>2. \A s \in 1 .. Len(sockets), id \in Nat : OnItsWay(s, id) => OnItsWay(s, id)'
  BY <1>1 DEF OnItsWay
<1>3. (\E K : sockets' \in Seq(Socket(K))) /\ Len(sockets') = Len(sockets)
  BY <1>1 DEF BrowserInv, BrowserTypes
<1> QED BY <1>1, <1>2, <1>3, ChromeKeeps

LEMMA ChromeDiesKeeps == BrowserInv /\ ChromeDies => BrowserInv'
<1> SUFFICES ASSUME BrowserInv, ChromeDies PROVE BrowserInv'
  OBVIOUS
<1>1. UNCHANGED <<using, clients, firstTab, toolClient>> /\ sockets' = Broken("reset")
  BY DEF ChromeDies, UnchangedCalls
<1>2. PICK K : sockets \in Seq(Socket(K))
  BY DEF BrowserInv, BrowserTypes
<1>3. /\ sockets' \in Seq(Socket(K)) /\ Len(sockets') = Len(sockets)
      /\ \A s \in 1 .. Len(sockets) : sockets'[s].state # "open"
  BY <1>1, <1>2, BrokenIs
<1>4. \A s \in 1 .. Len(sockets), id \in Nat : OnItsWay(s, id) => OnItsWay(s, id)'
  BY <1>3 DEF OnItsWay
<1> QED BY <1>1, <1>3, <1>4, ChromeKeeps

(* One websocket that carries on all it carried, or is not open.           *)
LEMMA OneKeeps ==
  ASSUME BrowserInv, UNCHANGED <<using, clients, firstTab, toolClient>>,
         NEW K, sockets \in Seq(Socket(K)), NEW s \in 1 .. Len(sockets), NEW t \in Socket(K),
         sockets' = [sockets EXCEPT ![s] = t],
         t.state = "open" =>
           \A id \in Nat : OnItsWay(s, id) =>
             \/ \E i \in 1 .. Len(t.todo) : t.todo[i].id = id
             \/ \E i \in 1 .. Len(t.inbox) : t.inbox[i].id = id
  PROVE  BrowserInv'
<1>1. sockets' \in Seq(Socket(K)) /\ Len(sockets') = Len(sockets) /\ sockets'[s] = t
  BY SocketSet
<1>2. \A c \in 1 .. Len(sockets) : c # s => sockets'[c] = sockets[c]
  OBVIOUS
<1>3. ASSUME NEW c \in 1 .. Len(sockets), NEW id \in Nat, OnItsWay(c, id) PROVE OnItsWay(c, id)'
  <2>1. CASE c = s
    <3>1. sockets'[c] = t /\ OnItsWay(s, id)
      BY <1>1, <1>3, <2>1
    <3> QED BY <3>1, Zenon DEF OnItsWay
  <2>2. CASE c # s
    BY <1>2, <1>3, <2>2, Zenon DEF OnItsWay
  <2> QED BY <2>1, <2>2
<1> QED BY <1>1, <1>3, ChromeKeeps

LEMMA ChromeClosesKeeps == BrowserInv /\ ChromeCloses => BrowserInv'
<1> SUFFICES ASSUME BrowserInv, ChromeCloses PROVE BrowserInv'
  OBVIOUS
<1>1. PICK K : sockets \in Seq(Socket(K))
  BY DEF BrowserInv, BrowserTypes
<1>2. DOMAIN sockets = 1 .. Len(sockets)
  BY <1>1
<1>3. PICK s \in 1 .. Len(sockets) :
        sockets' = [sockets EXCEPT ![s].state = "closed", ![s].todo = <<>>]
  BY <1>2 DEF ChromeCloses
<1> DEFINE t == [sockets[s] EXCEPT !.state = "closed", !.todo = <<>>]
<1>4. sockets' = [sockets EXCEPT ![s] = t]
  BY <1>1, <1>3
<1>5. t \in Socket(K) /\ t.state # "open"
  <2>1. sockets[s] \in Socket(K)
    BY <1>1
  <2>2. t = [sockets[s] EXCEPT !.state = "closed", !.todo = <<>>]
    OBVIOUS
  <2> HIDE DEF t
  <2>3. t \in Socket(K) /\ t.state # "open"
    BY <2>1, <2>2, SocketBreaks
  <2> QED BY <2>3
<1>6. UNCHANGED <<using, clients, firstTab, toolClient>>
  BY DEF ChromeCloses, UnchangedCalls
<1> HIDE DEF t
<1> QED BY <1>1, <1>4, <1>5, <1>6, OneKeeps

LEMMA RemovedIs ==
  ASSUME NEW S, NEW x \in Seq(S), NEW i \in 1 .. Len(x)
  PROVE  /\ RemoveAt(x, i) \in Seq(S)
         /\ \A j \in 1 .. Len(x) : j # i => \E k \in 1 .. Len(RemoveAt(x, i)) : RemoveAt(x, i)[k] = x[j]
<1> DEFINE a == SubSeq(x, 1, i - 1)  b == SubSeq(x, i + 1, Len(x))
<1>1. a \in Seq(S) /\ Len(a) = i - 1 /\ \A j \in 1 .. i - 1 : a[j] = x[j]
  OBVIOUS
<1>2. b \in Seq(S) /\ Len(b) = Len(x) - i /\ \A j \in 1 .. Len(x) - i : b[j] = x[j + i]
  OBVIOUS
<1>3. RemoveAt(x, i) = a \o b
  BY DEF RemoveAt
<1> HIDE DEF a, b
<1>4. /\ a \o b \in Seq(S) /\ Len(a \o b) = Len(a) + Len(b)
      /\ \A j \in 1 .. Len(a) : (a \o b)[j] = a[j]
      /\ \A j \in Len(a) + 1 .. Len(a) + Len(b) : (a \o b)[j] = b[j - Len(a)]
  <2>1. /\ a \o b \in Seq(S) /\ Len(a \o b) = Len(a) + Len(b)
        /\ \A j \in 1 .. Len(a) + Len(b) : (a \o b)[j] = IF j <= Len(a) THEN a[j] ELSE b[j - Len(a)]
    BY <1>1, <1>2, ConcatProperties, Zenon
  <2> PICK g : g = a \o b
    OBVIOUS
  <2>2. /\ g \in Seq(S) /\ Len(g) = Len(a) + Len(b)
        /\ \A j \in 1 .. Len(a) + Len(b) : g[j] = IF j <= Len(a) THEN a[j] ELSE b[j - Len(a)]
    BY <2>1, Zenon
  <2>3. Len(a) \in Nat /\ Len(b) \in Nat
    BY <1>1, <1>2
  <2>4. /\ \A j \in 1 .. Len(a) : g[j] = a[j]
        /\ \A j \in Len(a) + 1 .. Len(a) + Len(b) : g[j] = b[j - Len(a)]
    BY <2>2, <2>3
  <2> QED BY <2>2, <2>4, Zenon
<1>5. ASSUME NEW j \in 1 .. Len(x), j # i PROVE \E k \in 1 .. Len(a \o b) : (a \o b)[k] = x[j]
  <2> DEFINE g == a \o b
  <2> HIDE DEF g
  <2>0. /\ Len(g) = Len(a) + Len(b) /\ \A h \in 1 .. Len(a) : g[h] = a[h]
        /\ \A h \in Len(a) + 1 .. Len(a) + Len(b) : g[h] = b[h - Len(a)]
    BY <1>4 DEF g
  <2>1. CASE j < i
    <3>1. j \in 1 .. i - 1 /\ j \in 1 .. Len(a) /\ j \in 1 .. Len(g)
      BY <1>1, <1>2, <2>0, <2>1
    <3>2. g[j] = x[j]
      BY <1>1, <2>0, <3>1
    <3> QED BY <3>1, <3>2 DEF g
  <2>2. CASE j > i
    <3>1. j - 1 \in Len(a) + 1 .. Len(a) + Len(b) /\ j - 1 \in 1 .. Len(g) /\ j - i \in 1 .. Len(x) - i
          /\ (j - 1) - Len(a) = j - i /\ (j - i) + i = j
      BY <1>1, <1>2, <2>0, <2>2
    <3>2. g[j - 1] = b[j - i]
      BY <2>0, <3>1
    <3>3. b[j - i] = x[(j - i) + i]
      BY <1>2, <3>1
    <3> QED BY <3>1, <3>2, <3>3 DEF g
  <2> QED BY <1>5, <2>1, <2>2
<1> QED BY <1>3, <1>4, <1>5

LEMMA ChromeAnswersKeeps == BrowserInv /\ ChromeAnswers => BrowserInv'
<1> SUFFICES ASSUME BrowserInv, ChromeAnswers PROVE BrowserInv'
  OBVIOUS
<1>1. PICK K : sockets \in Seq(Socket(K))
  BY DEF BrowserInv, BrowserTypes
<1>2. DOMAIN sockets = 1 .. Len(sockets)
  BY <1>1
<1>3. PICK s \in 1 .. Len(sockets) : \E i \in DOMAIN sockets[s].todo, val \in {"fine", "missing", "error"} :
        sockets' = [sockets EXCEPT ![s].todo = RemoveAt(@, i),
                                   ![s].inbox = Append(@, [id |-> sockets[s].todo[i].id, val |-> val])]
  BY <1>2 DEF ChromeAnswers
<1>4. PICK i \in DOMAIN sockets[s].todo, val \in {"fine", "missing", "error"} :
        sockets' = [sockets EXCEPT ![s].todo = RemoveAt(@, i),
                                   ![s].inbox = Append(@, [id |-> sockets[s].todo[i].id, val |-> val])]
  BY <1>3
<1> DEFINE old == sockets[s].todo  box == sockets[s].inbox  e == [id |-> old[i].id, val |-> val]
           todo == RemoveAt(old, i)  inbox == Append(box, e)
           t == [sockets[s] EXCEPT !.todo = todo, !.inbox = inbox]
<1>5. sockets' = [sockets EXCEPT ![s] = t]
  BY <1>1, <1>4
<1>6. sockets[s] \in Socket(K)
  BY <1>1
<1>7. old \in Seq([id : Nat, kind : K]) /\ box \in Seq(Answer)
  BY <1>6 DEF Socket
<1>8. i \in 1 .. Len(old)
  <2> HIDE DEF old
  <2> QED BY <1>4, <1>7 DEF old
<1>9. e \in Answer /\ e.id = old[i].id
  <2>1. old[i] \in [id : Nat, kind : K]
    <3> HIDE DEF old
    <3>1. \A S : old \in Seq(S) /\ i \in 1 .. Len(old) => old[i] \in S
      OBVIOUS
    <3> QED BY <1>7, <1>8, <3>1, Zenon
  <2> QED BY <2>1 DEF Answer
<1> HIDE DEF old, box, e
<1>10. /\ todo \in Seq([id : Nat, kind : K])
       /\ \A j \in 1 .. Len(old) : j # i => \E k \in 1 .. Len(todo) : todo[k] = old[j]
  BY <1>7, <1>8, RemovedIs
<1>11. /\ inbox \in Seq(Answer) /\ Len(inbox) = Len(box) + 1 /\ Len(box) \in Nat /\ inbox[Len(box) + 1] = e
       /\ \A j \in 1 .. Len(box) : inbox[j] = box[j]
  BY <1>7, <1>9
<1> HIDE DEF todo, inbox
<1>12. t \in Socket(K) /\ t.todo = todo /\ t.inbox = inbox
  BY <1>6, <1>10, <1>11 DEF Socket
<1>13. ASSUME NEW id \in Nat, OnItsWay(s, id), t.state = "open"
       PROVE  \/ \E k \in 1 .. Len(t.todo) : t.todo[k].id = id
              \/ \E k \in 1 .. Len(t.inbox) : t.inbox[k].id = id
  <2>1. t.state = sockets[s].state
    BY <1>6 DEF Socket
  <2>2. \/ \E j \in 1 .. Len(old) : old[j].id = id
        \/ \E j \in 1 .. Len(box) : box[j].id = id
    BY <1>13, <2>1 DEF OnItsWay, old, box
  <2>3. CASE \E j \in 1 .. Len(old) : old[j].id = id
    <3> PICK j \in 1 .. Len(old) : old[j].id = id
      BY <2>3
    <3>1. CASE j = i
      <4>1. Len(box) + 1 \in 1 .. Len(inbox) /\ inbox[Len(box) + 1].id = id
        BY <1>9, <1>11, <3>1
      <4> QED BY <1>12, <4>1
    <3>2. CASE j # i
      BY <1>10, <1>12, <3>2
    <3> QED BY <3>1, <3>2
  <2>4. CASE \E j \in 1 .. Len(box) : box[j].id = id
    <3> PICK j \in 1 .. Len(box) : box[j].id = id
      BY <2>4
    <3>1. j \in 1 .. Len(inbox) /\ inbox[j].id = id
      BY <1>11
    <3> QED BY <1>12, <3>1
  <2> QED BY <2>2, <2>3, <2>4
<1>14. UNCHANGED <<using, clients, firstTab, toolClient>>
  BY DEF ChromeAnswers, UnchangedCalls
<1> HIDE DEF t
<1> QED BY <1>1, <1>5, <1>12, <1>13, <1>14, OneKeeps

LEMMA BrowserInvStep == BrowserInv /\ [BrowserNext]_browserVars => BrowserInv'
<1> SUFFICES ASSUME BrowserInv, [BrowserNext]_browserVars PROVE BrowserInv'
  OBVIOUS
<1>1. CASE UNCHANGED browserVars
  <2>1. UNCHANGED <<using, clients, firstTab, toolClient, sockets>>
    BY <1>1 DEF browserVars
  <2>2. \A s \in 1 .. Len(sockets), id \in Nat : OnItsWay(s, id) => OnItsWay(s, id)'
    BY <2>1 DEF OnItsWay
  <2>3. (\E K : sockets' \in Seq(Socket(K))) /\ Len(sockets') = Len(sockets)
    BY <2>1 DEF BrowserInv, BrowserTypes
  <2> QED BY <2>1, <2>2, <2>3, ChromeKeeps
<1>2. ASSUME NEW u \in Users, NEW act \in Acts, Begin(u, act) PROVE BrowserInv'
  BY <1>2, BeginKeeps
<1>3. ASSUME NEW u \in Users,
             \/ GetClient(u) \/ Connect(u) \/ ScriptEnds(u) \/ Refuse(u) \/ DiscoverTargets(u) \/ EnsureConnected(u)
             \/ Reopen(u) \/ Send(u) \/ Wait(u)
      PROVE  BrowserInv'
  BY <1>3, GetClientKeeps, ConnectKeeps, ScriptEndsKeeps, RefuseKeeps, DiscoverKeeps, EnsureConnectedKeeps,
     ReopenKeeps, SendKeeps, WaitKeeps
<1>4. ASSUME NEW u \in Users,
             \/ Receive(u) \/ WaitFails(u) \/ Disconnect(u) \/ ClearClient(u) \/ KillBrowser(u) \/ SwitchTab(u) \/ Adopt(u)
      PROVE  BrowserInv'
  BY <1>4, ReceiveKeeps, WaitFailsKeeps, DisconnectKeeps, ClearClientKeeps, KillBrowserKeeps, SwitchTabKeeps, AdoptKeeps
<1>5. CASE ChromeUp \/ ChromeAnswers \/ ChromeDialog \/ ChromeCloses \/ ChromeDies
  BY <1>5, ChromeUpKeeps, ChromeAnswersKeeps, ChromeClosesKeeps, ChromeDiesKeeps
<1>6. BrowserNext \/ UNCHANGED browserVars
  OBVIOUS
<1> QED BY <1>1, <1>2, <1>3, <1>4, <1>5, <1>6 DEF BrowserNext

LEMMA AnswersFind == BrowserInv => AnswersReach
BY DEF BrowserInv, BrowserTypes, CallOk, AnswersReach

(* A command gets the answer to itself, and one that has the client to     *)
(* itself is not given up with its answer given (send_command).            *)
THEOREM AnswersAreFound == BrowserSpec => []AnswersReach
<1> QED
  BY BrowserInvInit, BrowserInvStep, AnswersFind, PTL DEF BrowserSpec

(* Commands of the browser and prompts of the gemini command have their own *)
(* answers; calls of an MCP server those that meet no other, while no line  *)
(* came unasked and no call was dropped (cdp.rs, gemini_cli.rs, mcp.rs).    *)
THEOREM AnswersAreTheirs == MCSpec => []AnswersAreOwn
<1> DEFINE Inv == CliInv /\ BrowserInv /\ McpInv
<1>1. MCInit => Inv
  BY CliInvInit, BrowserInvInit, McpInvInit DEF MCInit
<1>2. [MCNext]_MCVars => [CliNext]_cliVars /\ [BrowserNext]_browserVars /\ [McpNext]_mcpVars
  BY DEF MCNext, MCVars
<1>3. Inv /\ [MCNext]_MCVars => Inv'
  BY <1>2, CliInvStep, BrowserInvStep, McpInvStep
<1>4. Inv => AnswersAreOwn
  BY RepliesAreOwn, AnswersFind, McpInvShows DEF AnswersAreOwn
<1> QED
  BY <1>1, <1>3, <1>4, PTL DEF MCSpec

-----------------------------------------------------------------------------
(* Goals.                                                                  *)

OnFile ==
  goalsFile = Text(goals[Main]) \/ (goalsFile = Absent /\ goals[Main] = NoGoals)

(* While intact, only the daemon's manager is in a save, and outside of it *)
(* the file can be loaded.                                                 *)
GoalsInv ==
  /\ Main \in DOMAIN goals /\ unsaved \in [Managers -> Nat] /\ saving \subseteq Managers
  /\ intact => /\ saving \subseteq {Main}
               /\ saving = {} => goalsFile = Absent \/ \E map : goalsFile = Text(map)
               /\ unsaved[Main] = 0 /\ saving = {} => OnFile

LEMMA GoalsInvStep == GoalsInv /\ [GoalsNext]_goalVars => GoalsInv'
<1> SUFFICES ASSUME GoalsInv, [GoalsNext]_goalVars PROVE GoalsInv'
  OBVIOUS
<1> Main \in Managers
  BY DEF Managers
<1>1. ASSUME NEW m \in Helpers, NewManager(m) \/ DropManager(m) PROVE GoalsInv'
  <2>1. m # Main
    BY GoalsAssumption
  <2>2. Main \in DOMAIN goals' /\ goals'[Main] = goals[Main]
    <3>1. CASE NewManager(m)
      BY <2>1, <3>1 DEF NewManager, GoalsInv
    <3>2. CASE DropManager(m)
      <4>1. goals' = [x \in DOMAIN goals \ {m} |-> goals[x]]
        BY <3>2 DEF DropManager, Restrict
      <4> QED
        BY <2>1, <4>1 DEF GoalsInv
    <3> QED
      BY <1>1, <3>1, <3>2
  <2>3. UNCHANGED <<unsaved, saving, goalsFile, intact>>
    BY <1>1 DEF NewManager, DropManager
  <2> QED
    BY <2>2, <2>3 DEF GoalsInv, OnFile
<1>2. ASSUME NEW m \in Managers, NEW map, Free(m), Changed(m, map) PROVE GoalsInv'
  <2>1. /\ goals' = [goals EXCEPT ![m] = map] /\ unsaved' = [unsaved EXCEPT ![m] = @ + 1]
        /\ UNCHANGED <<saving, goalsFile, intact>>
    BY <1>2 DEF Changed
  <2>2. unsaved' \in [Managers -> Nat] /\ Main \in DOMAIN goals'
    BY <2>1 DEF GoalsInv
  <2>3. unsaved'[Main] = 0 => goals'[Main] = goals[Main] /\ unsaved[Main] = 0
    BY <2>1 DEF GoalsInv
  <2> QED
    BY <2>1, <2>2, <2>3 DEF GoalsInv, OnFile
<1>3. ASSUME NEW m \in Managers, SaveBegins(m) PROVE GoalsInv'
  <2>1. unsaved' \in [Managers -> Nat] /\ goals' = goals
    BY <1>3 DEF SaveBegins, GoalsInv
  <2>2. saving' = saving \union {m} \/ saving' = saving
    BY <1>3 DEF SaveBegins
  <2>3. intact' => m = Main /\ intact /\ saving' = saving \union {Main}
    BY <1>3 DEF SaveBegins
  <2> QED
    BY <2>1, <2>2, <2>3 DEF GoalsInv
<1>4. ASSUME NEW m \in Managers, SaveEnds(m) PROVE GoalsInv'
  <2>1. m \in saving /\ saving' = saving \ {m} /\ UNCHANGED <<goals, unsaved>>
    BY <1>4 DEF SaveEnds
  <2>2. intact' => intact /\ goalsFile' = Text(goals[m])
    BY <1>4 DEF SaveEnds
  <2>3. intact' => m = Main
    BY <2>1, <2>2 DEF GoalsInv
  <2> QED
    BY <2>1, <2>2, <2>3 DEF GoalsInv, OnFile
<1>5. CASE Reboot
  <2>1. /\ goals' = [m \in {Main} |-> Load] /\ unsaved' = [m \in Managers |-> 0]
        /\ saving' = {} /\ goalsFile' = goalsFile
        /\ intact' => intact /\ saving = {}
    BY <1>5 DEF Reboot
  <2>2. intact' => goalsFile = Absent \/ \E map : goalsFile = Text(map)
    BY <2>1 DEF GoalsInv
  <2>3. goalsFile = Absent => Load = NoGoals
    BY DEF Load, Absent
  <2>4. \A map : goalsFile = Text(map) => Load = map
    BY DEF Load, Text
  <2>5. intact' => OnFile'
    BY <2>1, <2>2, <2>3, <2>4 DEF OnFile
  <2> QED
    BY <2>1, <2>2, <2>5 DEF GoalsInv
<1>6. CASE UNCHANGED goalVars
  BY <1>6 DEF goalVars, GoalsInv, OnFile
<1>7. ASSUME NEW m \in Managers, GoalAddTool(m) \/ GoalUpdateTool(m) PROVE GoalsInv'
  <2>1. Free(m) /\ \E map : Changed(m, map)
    BY <1>7 DEF GoalAddTool, GoalUpdateTool, AddGoal, UpdateGoal
  <2> QED
    BY <1>2, <2>1
<1> QED
  BY <1>1, <1>3, <1>4, <1>5, <1>6, <1>7 DEF GoalsNext

LEMMA GoalsInvInit == GoalsInit => GoalsInv
  BY DEF GoalsInit, GoalsInv, OnFile, Managers

LEMMA GoalsInvShows == GoalsInv => GoalsOnFile
  BY DEF GoalsInv, GoalsOnFile, OnFile

(* While no subagent has saved goals of its own and no write was cut short *)
(* goals.json is the daemon's map once its saves are over (save and load   *)
(* in goals.rs).                                                           *)
THEOREM GoalsAreOnFile == GoalsSpec => []GoalsOnFile
<1> QED
  BY GoalsInvInit, GoalsInvStep, GoalsInvShows, PTL DEF GoalsSpec

-----------------------------------------------------------------------------
(* Boards.                                                                 *)

Item == [id : TodoIds, content : {"text", "none"}, status : Valid]

OnList(items) ==
  /\ items \in Seq(Item)
  /\ \A i, j \in 1 .. Len(items) : items[i].id = items[j].id => i = j

(* What was posted to a box and what of it waits, in the order of posting. *)
BoxesInv ==
  /\ posts \in Nat
  /\ taken \in [Boxes -> Seq(Nat)] /\ boxes \in [Boxes -> Seq(Nat)]
  /\ \A b \in Boxes : \A i \in 1 .. Len(taken[b] \o boxes[b]) : (taken[b] \o boxes[b])[i] \in 1 .. posts
  /\ \A b \in Boxes : \A i, j \in 1 .. Len(taken[b] \o boxes[b]) :
       i < j => (taken[b] \o boxes[b])[i] < (taken[b] \o boxes[b])[j]
  /\ \A m \in 1 .. posts : \E b \in Boxes : \E i \in 1 .. Len(taken[b] \o boxes[b]) :
       (taken[b] \o boxes[b])[i] = m

BoardsInv == BoxesInv /\ OnList(todos)

LEMMA PostKeeps ==
  ASSUME BoxesInv, NEW b \in Boxes, Post(b)
  PROVE  BoxesInv'
<1> DEFINE p == posts + 1
           all(c) == taken[c] \o boxes[c]
           new(c) == taken'[c] \o boxes'[c]
<1>1. posts' = p /\ taken' = taken /\ p \in Nat /\ posts \in Nat
      /\ boxes' = [boxes EXCEPT ![b] = Append(@, p)]
  BY DEF Post, BoxesInv
<1>2. \A c \in Boxes : taken[c] \in Seq(Nat) /\ boxes[c] \in Seq(Nat)
  BY DEF BoxesInv
<1>3. boxes' \in [Boxes -> Seq(Nat)] /\ taken' \in [Boxes -> Seq(Nat)]
      /\ boxes'[b] = Append(boxes[b], p) /\ \A c \in Boxes : c # b => boxes'[c] = boxes[c]
  BY <1>1, <1>2 DEF BoxesInv
<1> HIDE DEF p
<1>4. \A c \in Boxes : c # b => new(c) = all(c)
  BY <1>1, <1>3
<1>5. new(b) = Append(all(b), p)
  BY <1>1, <1>2, <1>3
<1>6. \A c \in Boxes : all(c) \in Seq(Nat)
  BY <1>2
<1>7. /\ \A c \in Boxes : \A i \in 1 .. Len(all(c)) : all(c)[i] \in 1 .. posts
      /\ \A c \in Boxes : \A i, j \in 1 .. Len(all(c)) : i < j => all(c)[i] < all(c)[j]
      /\ \A m \in 1 .. posts : \E c \in Boxes : \E i \in 1 .. Len(all(c)) : all(c)[i] = m
  BY DEF BoxesInv
<1> HIDE DEF all, new
<1>8. Len(new(b)) = Len(all(b)) + 1 /\ new(b)[Len(all(b)) + 1] = p
      /\ \A i \in 1 .. Len(all(b)) : new(b)[i] = all(b)[i]
  BY <1>5, <1>6, <1>1
<1>9. p = posts + 1
  BY DEF p
<1>10. ASSUME NEW c \in Boxes, NEW i \in 1 .. Len(new(c)) PROVE new(c)[i] \in 1 .. p
  <2>1. CASE c # b
    BY <1>1, <1>4, <1>7, <1>9, <2>1
  <2>2. CASE c = b /\ i \in 1 .. Len(all(b))
    <3>1. new(c)[i] = all(b)[i] /\ all(b)[i] \in 1 .. posts
      BY <1>7, <1>8, <2>2, Zenon
    <3> QED BY <1>1, <1>9, <3>1
  <2>3. CASE c = b /\ i = Len(all(b)) + 1
    <3>1. new(c)[i] = p
      BY <1>8, <2>3, Zenon
    <3> QED BY <1>1, <1>9, <3>1
  <2>4. Len(all(b)) \in Nat
    BY <1>6
  <2> QED BY <1>8, <2>1, <2>2, <2>3, <2>4
<1>11. ASSUME NEW c \in Boxes, NEW i \in 1 .. Len(new(c)), NEW j \in 1 .. Len(new(c)), i < j
       PROVE  new(c)[i] < new(c)[j]
  <2>1. CASE c # b
    BY <1>4, <1>7, <1>11, <2>1
  <2>2. CASE c = b /\ j \in 1 .. Len(all(b))
    <3>1. i \in 1 .. Len(all(b))
      BY <1>11, <2>2
    <3>2. new(c)[i] = all(b)[i] /\ new(c)[j] = all(b)[j] /\ all(b)[i] < all(b)[j]
      BY <1>7, <1>8, <1>11, <2>2, <3>1, Zenon
    <3> QED BY <3>2
  <2>3. CASE c = b /\ j = Len(all(b)) + 1
    <3>1. i \in 1 .. Len(all(b))
      BY <1>6, <1>11, <2>3
    <3>2. new(c)[i] = all(b)[i] /\ new(c)[j] = p /\ all(b)[i] \in 1 .. posts
      BY <1>7, <1>8, <2>3, <3>1, Zenon
    <3> QED BY <1>1, <1>9, <3>2
  <2>4. Len(all(b)) \in Nat
    BY <1>6
  <2> QED BY <1>8, <2>1, <2>2, <2>3, <2>4
<1>12. \A m \in 1 .. p : \E c \in Boxes : \E i \in 1 .. Len(new(c)) : new(c)[i] = m
  <2> TAKE m \in 1 .. p
  <2>1. CASE m = p
    BY <1>6, <1>8, <2>1
  <2>2. CASE m \in 1 .. posts
    <3>1. PICK c \in Boxes : \E i \in 1 .. Len(all(c)) : all(c)[i] = m
      BY <1>7, <2>2
    <3> QED BY <1>4, <1>6, <1>8, <3>1
  <2> QED BY <1>1, <1>9, <2>1, <2>2
<1> QED
  BY <1>1, <1>3, <1>10, <1>11, <1>12, Zenon DEF BoxesInv, new

LEMMA RecvKeeps ==
  ASSUME BoxesInv, NEW b \in Boxes, NEW limit \in Nat, Recv(b, limit)
  PROVE  BoxesInv'
<1> DEFINE n == IF limit < Len(boxes[b]) THEN limit ELSE Len(boxes[b])
<1>1. /\ taken' = [taken EXCEPT ![b] = @ \o SubSeq(boxes[b], 1, n)]
      /\ boxes' = [boxes EXCEPT ![b] = SubSeq(@, n + 1, Len(@))]
      /\ posts' = posts
  BY DEF Recv
<1>2. \A c \in Boxes : taken[c] \in Seq(Nat) /\ boxes[c] \in Seq(Nat)
  BY DEF BoxesInv
<1>3. n \in 0 .. Len(boxes[b])
  BY <1>2
<1> HIDE DEF n
<1> DEFINE front == SubSeq(boxes[b], 1, n)  back == SubSeq(boxes[b], n + 1, Len(boxes[b]))
<1>4. front \in Seq(Nat) /\ back \in Seq(Nat) /\ front \o back = boxes[b]
  <2> DEFINE s == boxes[b]
  <2>1. s \in Seq(Nat) /\ Len(s) \in Nat
    BY <1>2
  <2>2. n \in 0 .. Len(s)
    BY <1>3
  <2> HIDE DEF s
  <2>3. SubSeq(s, 1, n) \in Seq(Nat) /\ SubSeq(s, n + 1, Len(s)) \in Seq(Nat)
    BY <2>1, <2>2
  <2>4. 1 \in 1 .. Len(s) + 1 /\ n \in 1 - 1 .. Len(s) /\ Len(s) \in n .. Len(s)
    BY <2>1, <2>2
  <2>5. SubSeq(s, 1, n) \o SubSeq(s, n + 1, Len(s)) = SubSeq(s, 1, Len(s))
    BY <2>1, <2>4, ConcatAdjacentSubSeq
  <2>6. SubSeq(s, 1, Len(s)) = s
    BY <2>1, SubSeqFull
  <2> QED BY <2>3, <2>5, <2>6 DEF s
<1> HIDE DEF front, back
<1>5. /\ taken' = [taken EXCEPT ![b] = taken[b] \o front]
      /\ boxes' = [boxes EXCEPT ![b] = back]
  BY <1>1 DEF front, back
<1>6. /\ taken' \in [Boxes -> Seq(Nat)] /\ boxes' \in [Boxes -> Seq(Nat)]
      /\ taken'[b] = taken[b] \o front /\ boxes'[b] = back
      /\ \A c \in Boxes : c # b => taken'[c] = taken[c] /\ boxes'[c] = boxes[c]
  BY <1>2, <1>4, <1>5 DEF BoxesInv
<1>7. taken'[b] \o boxes'[b] = taken[b] \o boxes[b]
  <2> DEFINE t == taken[b]  s == boxes[b]
  <2>1. t \in Seq(Nat) /\ s \in Seq(Nat) /\ front \o back = s
    BY <1>2, <1>4
  <2> HIDE DEF t, s
  <2>3. front \in Seq(Nat) /\ back \in Seq(Nat) /\ t \in Seq(Nat)
    BY <1>4, <2>1, Zenon
  <2>2. (t \o front) \o back = t \o (front \o back)
    BY <2>3, ConcatAssociative
  <2> QED BY <1>6, <2>1, <2>2, Zenon DEF t, s
<1>8. \A c \in Boxes : taken'[c] \o boxes'[c] = taken[c] \o boxes[c]
  BY <1>6, <1>7, Zenon
<1> DEFINE all(c) == taken[c] \o boxes[c]
           new(c) == taken'[c] \o boxes'[c]
<1>9. /\ posts \in Nat
      /\ \A c \in Boxes : \A i \in 1 .. Len(all(c)) : all(c)[i] \in 1 .. posts
      /\ \A c \in Boxes : \A i, j \in 1 .. Len(all(c)) : i < j => all(c)[i] < all(c)[j]
      /\ \A m \in 1 .. posts : \E c \in Boxes : \E i \in 1 .. Len(all(c)) : all(c)[i] = m
  BY DEF BoxesInv
<1>10. \A c \in Boxes : new(c) = all(c)
  BY <1>8
<1> HIDE DEF all, new
<1>11. /\ posts' \in Nat
       /\ \A c \in Boxes : \A i \in 1 .. Len(new(c)) : new(c)[i] \in 1 .. posts'
       /\ \A c \in Boxes : \A i, j \in 1 .. Len(new(c)) : i < j => new(c)[i] < new(c)[j]
       /\ \A m \in 1 .. posts' : \E c \in Boxes : \E i \in 1 .. Len(new(c)) : new(c)[i] = m
  BY <1>1, <1>9, <1>10, Zenon
<1> QED
  BY <1>6, <1>11, Zenon DEF BoxesInv, new

(* What todo_write keeps of the items written, and what it merges.         *)
LEMMA IdsFinite ==
  ASSUME NEW T, NEW raw \in Seq(T)
  PROVE  IsFiniteSet(Ids(raw))
<1> DEFINE n == Len(raw)
           f == [i \in 1 .. n |-> raw[i].id]
<1>1. n \in Nat /\ DOMAIN raw = 1 .. n
  OBVIOUS
<1> HIDE DEF n
<1>2. f \in Surjection(1 .. n, Ids(raw))
  BY <1>1 DEF Surjection, Ids
<1>3. IsFiniteSet(1 .. n)
  BY <1>1, FS_Interval
<1> QED BY <1>2, <1>3, FS_Surjection

LEMMA ReadIs ==
  ASSUME NEW raw \in Raw
  PROVE  Read(raw) \in Item /\ Read(raw).id = raw.id
BY DEF Read, Raw, Item, NormalizeStatus, Valid

LEMMA LastIs ==
  ASSUME NEW raw \in Seq(Raw), NEW id \in Ids(raw)
  PROVE  LastOf(raw, id) \in Item /\ LastOf(raw, id).id = id
<1> DEFINE P == {i \in DOMAIN raw : raw[i].id = id}
           last(i) == raw[i].id = id /\ \A j \in i+1..Len(raw) : raw[j].id # id
           c == CHOOSE i \in DOMAIN raw : last(i)
<1>1. DOMAIN raw = 1 .. Len(raw) /\ Len(raw) \in Nat
  OBVIOUS
<1>2. P # {} /\ P \in SUBSET Int /\ \A i \in P : i <= Len(raw)
  BY <1>1 DEF Ids
<1>3. Max(P) \in P /\ \A i \in P : i <= Max(P)
  <2> HIDE DEF P
  <2>1. Len(raw) \in Int /\ P \in SUBSET Int
    BY <1>1, <1>2
  <2> QED BY <1>2, <2>1, MaxIs
<1>4. \A j \in Max(P) + 1 .. Len(raw) : raw[j].id # id
  <2> SUFFICES ASSUME NEW j \in Max(P) + 1 .. Len(raw), raw[j].id = id PROVE FALSE
    OBVIOUS
  <2>1. Max(P) \in 1 .. Len(raw)
    BY <1>1, <1>3
  <2> DEFINE m == Max(P)
  <2> HIDE DEF m
  <2>2. m \in 1 .. Len(raw) /\ j \in m + 1 .. Len(raw)
    BY <2>1 DEF m
  <2>3. j \in 1 .. Len(raw) /\ ~ (j <= m)
    BY <1>1, <2>2
  <2>4. j \in P
    BY <1>1, <2>3
  <2> QED BY <1>3, <2>3, <2>4 DEF m
<1>5. c \in DOMAIN raw /\ last(c)
  BY <1>3, <1>4
<1>6. raw[c] \in Raw /\ raw[c].id = id
  BY <1>1, <1>5
<1>7. LastOf(raw, id) = Read(raw[c])
  BY Zenon DEF LastOf
<1> QED BY <1>6, <1>7, ReadIs

LEMMA DedupedIs ==
  ASSUME NEW raw \in Seq(Raw), NEW incoming \in Deduped(raw)
  PROVE  OnList(incoming)
<1> DEFINE S == Ids(raw) \ BadIds
           n == Cardinality(S)
<1>1. IsFiniteSet(S)
  BY IdsFinite, FS_Difference
<1>2. n \in Nat
  BY <1>1, FS_CardinalityType
<1>3. PICK order \in SetToSeqs(S) : incoming = [i \in DOMAIN order |-> LastOf(raw, order[i])]
  BY Zenon DEF Deduped
<1>4. order \in [1 .. n -> S] /\ \A i, j \in 1 .. n : i # j => order[i] # order[j]
  BY Zenon DEF SetToSeqs
<1> HIDE DEF n
<1>5. \A i \in 1 .. n : order[i] \in Ids(raw)
  BY <1>4
<1>6. \A i \in 1 .. n : LastOf(raw, order[i]) \in Item /\ LastOf(raw, order[i]).id = order[i]
  BY <1>5, LastIs
<1>7. DOMAIN order = 1 .. n
  BY <1>4
<1>8. DOMAIN incoming = 1 .. n /\ \A i \in 1 .. n : incoming[i] = LastOf(raw, order[i])
  BY <1>3, <1>7
<1>9. incoming = [i \in 1 .. n |-> incoming[i]]
  BY <1>3, <1>7
<1>10. incoming \in Seq(Item)
  BY <1>2, <1>6, <1>8, <1>9
<1>11. Len(incoming) = n
  BY <1>2, <1>8, <1>10
<1> QED BY <1>4, <1>6, <1>8, <1>10, <1>11 DEF OnList

LEMMA MergeIs ==
  ASSUME OnList(todos), NEW incoming, OnList(incoming)
  PROVE  OnList(Merge(incoming))
<1> DEFINE n == Len(todos)
           x == [i \in DOMAIN todos |->
                  IF todos[i].id \in Ids(incoming)
                  THEN MergeItem(todos[i], incoming[IndexOf(incoming, todos[i].id)]) ELSE todos[i]]
           I == {i \in DOMAIN incoming : incoming[i].id \notin Ids(todos)}
           y == Picked(incoming, I)
<1>1. todos \in Seq(Item) /\ n \in Nat /\ DOMAIN todos = 1 .. n /\ \A i \in 1 .. n : todos[i] \in Item
  BY DEF OnList
<1>2. incoming \in Seq(Item) /\ DOMAIN incoming = 1 .. Len(incoming)
      /\ \A i, j \in 1 .. Len(incoming) : incoming[i].id = incoming[j].id => i = j
  BY DEF OnList
<1>3. y \in Seq(Item) /\ \E at : Enumerates(at, y, incoming, I, Len(incoming))
  BY <1>2, PickedMap
<1>4. PICK at : Enumerates(at, y, incoming, I, Len(incoming))
  BY <1>3
<1> HIDE DEF y, I
<1>5. ASSUME NEW old \in Item, NEW new \in Item
      PROVE  MergeItem(old, new) \in Item /\ MergeItem(old, new).id = old.id
  BY DEF MergeItem, Item
<1>6. ASSUME NEW id \in Ids(incoming)
      PROVE  incoming[IndexOf(incoming, id)] \in Item
  <2>1. IndexOf(incoming, id) \in DOMAIN incoming
    BY DEF IndexOf, Ids
  <2> QED BY <1>2, <2>1
<1>7. ASSUME NEW i \in 1 .. n PROVE x[i] \in Item /\ x[i].id = todos[i].id
  <2>1. x[i] = IF todos[i].id \in Ids(incoming)
               THEN MergeItem(todos[i], incoming[IndexOf(incoming, todos[i].id)]) ELSE todos[i]
    BY <1>1
  <2> HIDE DEF x
  <2> QED BY <1>1, <1>5, <1>6, <2>1
<1>8. x = [i \in 1 .. n |-> x[i]]
  BY <1>1
<1>9. Merge(incoming) = x \o y
  BY Zenon DEF Merge, y, I
<1> HIDE DEF n, x
<1>10. x \in Seq(Item) /\ Len(x) = n
  BY <1>1, <1>7, <1>8
<1> DEFINE m == Len(y)  g == Merge(incoming)
<1>11. /\ g \in Seq(Item) /\ Len(g) = n + m
       /\ \A i \in 1 .. n : g[i] = x[i]
       /\ \A i \in n + 1 .. n + m : g[i] = y[i - n]
  <2>1. /\ x \o y \in Seq(Item) /\ Len(x \o y) = Len(x) + Len(y)
        /\ \A i \in 1 .. Len(x) + Len(y) : (x \o y)[i] = IF i <= Len(x) THEN x[i] ELSE y[i - Len(x)]
    <3>1. x \in Seq(Item) /\ y \in Seq(Item)
      BY <1>3, <1>10, Zenon
    <3> QED BY <3>1, ConcatProperties
  <2>2. /\ g \in Seq(Item) /\ Len(g) = n + m
        /\ \A i \in 1 .. n + m : g[i] = IF i <= n THEN x[i] ELSE y[i - n]
    BY <1>9, <1>10, <2>1, Zenon
  <2>3. m \in Nat /\ n \in Nat
    BY <1>1, <1>3
  <2> HIDE DEF g, m
  <2> QED BY <2>2, <2>3
<1>12. m \in Nat
  BY <1>3
<1> HIDE DEF g, m
<1>13. ASSUME NEW i \in 1 .. n PROVE g[i].id = todos[i].id /\ todos[i].id \in Ids(todos)
  BY <1>1, <1>7, <1>11 DEF Ids
<1>14. ASSUME NEW i \in n + 1 .. n + m
       PROVE  /\ i - n \in 1 .. m /\ at[i - n] \in 1 .. Len(incoming)
              /\ g[i].id = incoming[at[i - n]].id /\ g[i].id \notin Ids(todos)
  <2>1. i - n \in 1 .. m
    BY <1>1, <1>12
  <2>2. at[i - n] \in DOMAIN incoming /\ at[i - n] \in I /\ y[i - n] = incoming[at[i - n]]
    BY <1>2, <1>4, <2>1 DEF Enumerates, m
  <2> QED BY <1>2, <1>11, <2>1, <2>2 DEF I
<1>15. ASSUME NEW i \in 1 .. n + m, NEW j \in 1 .. n + m, g[i].id = g[j].id PROVE i = j
  <2>1. i \in 1 .. n \/ i \in n + 1 .. n + m
    BY <1>1, <1>12
  <2>2. j \in 1 .. n \/ j \in n + 1 .. n + m
    BY <1>1, <1>12
  <2>3. CASE i \in 1 .. n /\ j \in 1 .. n
    <3>1. todos[i].id = todos[j].id
      BY <1>13, <1>15, <2>3
    <3> QED BY <2>3, <3>1 DEF OnList, n
  <2>4. CASE i \in n + 1 .. n + m /\ j \in n + 1 .. n + m
    <3>1. incoming[at[i - n]].id = incoming[at[j - n]].id
      BY <1>14, <1>15, <2>4
    <3>2. at[i - n] = at[j - n] /\ i - n \in 1 .. m /\ j - n \in 1 .. m
      BY <1>2, <1>14, <2>4, <3>1
    <3>3. i - n = j - n
      BY <1>4, <3>2 DEF Enumerates, m
    <3> QED BY <1>1, <3>3
  <2>5. CASE i \in 1 .. n /\ j \in n + 1 .. n + m
    BY <1>13, <1>14, <1>15, <2>5
  <2>6. CASE i \in n + 1 .. n + m /\ j \in 1 .. n
    BY <1>13, <1>14, <1>15, <2>6
  <2> QED BY <2>1, <2>2, <2>3, <2>4, <2>5, <2>6
<1> QED BY <1>11, <1>15 DEF OnList, g

LEMMA WriteKeeps ==
  ASSUME OnList(todos), NEW raw \in Seq(Raw), NEW merge \in BOOLEAN, Write(raw, merge)
  PROVE  OnList(todos')
<1>1. PICK incoming \in Deduped(raw) : todos' = IF merge THEN Merge(incoming) ELSE incoming
  BY Zenon DEF Write
<1>2. OnList(incoming)
  BY DedupedIs
<1>3. OnList(Merge(incoming))
  BY <1>2, MergeIs
<1> QED BY <1>1, <1>2, <1>3, Zenon

LEMMA BoardsInvInit == BoardsInit => BoardsInv
<1> SUFFICES ASSUME BoardsInit PROVE BoardsInv
  OBVIOUS
<1>1. \A b \in Boxes : taken[b] \o boxes[b] = <<>>
  BY DEF BoardsInit
<1>2. BoxesInv
  BY <1>1 DEF BoardsInit, BoxesInv
<1>3. OnList(todos)
  BY DEF BoardsInit, OnList
<1> QED BY <1>2, <1>3 DEF BoardsInv

LEMMA BoardsInvStep == BoardsInv /\ [BoardsNext]_boardVars => BoardsInv'
<1> SUFFICES ASSUME BoardsInv, [BoardsNext]_boardVars PROVE BoardsInv'
  OBVIOUS
<1>1. CASE AgentPost
  <2>1. BoxesInv'
    BY <1>1, PostKeeps DEF AgentPost, BoardsInv
  <2>2. todos' = todos
    BY <1>1 DEF AgentPost, Post
  <2> QED BY <2>1, <2>2 DEF BoardsInv, OnList
<1>2. CASE AgentRecv
  <2>1. BoxesInv'
    BY <1>2, RecvKeeps DEF AgentRecv, BoardsInv
  <2>2. todos' = todos
    BY <1>2 DEF AgentRecv, Recv
  <2> QED BY <2>1, <2>2 DEF BoardsInv, OnList
<1>3. CASE TodoWrite
  <2>1. PICK n \in 1 .. 2 : \E raw \in [1 .. n -> Raw], merge \in BOOLEAN : Write(raw, merge)
    BY <1>3 DEF TodoWrite
  <2>2. PICK raw \in [1 .. n -> Raw], merge \in BOOLEAN : Write(raw, merge)
    BY <2>1, Zenon
  <2>3. raw \in Seq(Raw)
    OBVIOUS
  <2>4. OnList(todos')
    BY <2>2, <2>3, WriteKeeps, Zenon DEF BoardsInv
  <2>5. UNCHANGED <<boxes, taken, posts>>
    BY <1>3 DEF TodoWrite
  <2> QED BY <2>4, <2>5 DEF BoardsInv, BoxesInv, OnList
<1>4. CASE UNCHANGED boardVars
  BY <1>4 DEF boardVars, BoardsInv, BoxesInv, OnList
<1> QED BY <1>1, <1>2, <1>3, <1>4 DEF BoardsNext

LEMMA InvShowsOnce == BoardsInv => NothingTwice
<1> SUFFICES ASSUME BoardsInv PROVE NothingTwice
  OBVIOUS
<1> DEFINE all(b) == taken[b] \o boxes[b]
<1>1. /\ \A b \in Boxes : \A i \in 1 .. Len(all(b)) : all(b)[i] \in 1 .. posts
      /\ \A b \in Boxes : \A i, j \in 1 .. Len(all(b)) : i < j => all(b)[i] < all(b)[j]
      /\ \A m \in 1 .. posts : \E b \in Boxes : \E i \in 1 .. Len(all(b)) : all(b)[i] = m
  BY DEF BoardsInv, BoxesInv
<1>2. \A b \in Boxes : taken[b] \in Seq(Nat) /\ boxes[b] \in Seq(Nat)
  BY DEF BoardsInv, BoxesInv
<1>3. \A b \in Boxes : all(b) \in Seq(Nat) /\ DOMAIN all(b) = 1 .. Len(all(b)) /\ Len(all(b)) \in Nat
  <2> TAKE b \in Boxes
  <2>1. all(b) \in Seq(Nat)
    BY <1>2, ConcatProperties
  <2> HIDE DEF all
  <2> QED BY <2>1
<1>4. \A b \in Boxes : Range(taken[b]) \cup Range(boxes[b]) = Range(all(b))
  BY <1>2, RangeConcatenation
<1>5. \A b \in Boxes : Range(all(b)) = {all(b)[i] : i \in 1 .. Len(all(b))}
  BY <1>3, RangeEquality
<1> HIDE DEF all
<1>6. \A b \in Boxes : \A i \in 1 .. Len(all(b)) - 1 : all(b)[i] < all(b)[i + 1]
  <2> SUFFICES ASSUME NEW b \in Boxes, NEW i \in 1 .. Len(all(b)) - 1
               PROVE  all(b)[i] < all(b)[i + 1]
    OBVIOUS
  <2>1. i \in 1 .. Len(all(b)) /\ i + 1 \in 1 .. Len(all(b)) /\ i < i + 1
    BY <1>3
  <2> QED BY <1>1, <2>1
<1>7. UNION {Range(taken[b]) \cup Range(boxes[b]) : b \in Boxes} = 1 .. posts
  <2>1. ASSUME NEW m \in 1 .. posts PROVE \E b \in Boxes : m \in Range(taken[b]) \cup Range(boxes[b])
    <3>1. PICK b \in Boxes : \E i \in 1 .. Len(all(b)) : all(b)[i] = m
      BY <1>1
    <3>2. m \in {all(b)[i] : i \in 1 .. Len(all(b))}
      BY <3>1
    <3>3. m \in Range(taken[b]) \cup Range(boxes[b])
      BY <1>4, <1>5, <3>2, Zenon
    <3> QED BY <3>3
  <2>2. ASSUME NEW b \in Boxes, NEW m \in Range(taken[b]) \cup Range(boxes[b]) PROVE m \in 1 .. posts
    <3>1. m \in {all(b)[i] : i \in 1 .. Len(all(b))}
      BY <1>4, <1>5, <2>2, Zenon
    <3>2. PICK i \in 1 .. Len(all(b)) : m = all(b)[i]
      BY <3>1
    <3> QED BY <1>1, <3>2
  <2> QED BY <2>1, <2>2, Zenon
<1>8. \A i, j \in DOMAIN todos : todos[i].id = todos[j].id => i = j
  BY DEF BoardsInv, OnList
<1> QED BY <1>6, <1>7, <1>8, Zenon DEF NothingTwice, all

(* Messages of a mailbox are handed out once and in order, and the todo    *)
(* list has no item twice, for any number of boxes and ids (todo.rs,       *)
(* agent_mailbox.rs).                                                      *)
THEOREM NothingIsDoubled == BoardsSpec => []NothingTwice
<1> QED
  BY BoardsInvInit, BoardsInvStep, InvShowsOnce, PTL DEF BoardsSpec

(* The boards together: goals are on file, messages wait for one reader,   *)
(* and todo items are listed once.                                         *)
THEOREM BoardsAreKept == MCSpec => []BoardsKept
<1>1. MCInit => GoalsInv /\ BoardsInv
  BY GoalsInvInit, BoardsInvInit DEF MCInit
<1>2. [MCNext]_MCVars => [GoalsNext]_goalVars /\ [BoardsNext]_boardVars
  BY DEF MCNext, MCVars
<1>3. GoalsInv /\ BoardsInv /\ [MCNext]_MCVars => (GoalsInv /\ BoardsInv)'
  BY <1>2, GoalsInvStep, BoardsInvStep
<1>4. GoalsInv /\ BoardsInv => BoardsKept
  BY GoalsInvShows, InvShowsOnce DEF BoardsKept
<1> QED
  BY <1>1, <1>3, <1>4, PTL DEF MCSpec

-----------------------------------------------------------------------------
(* Events.                                                                 *)

Watcher == [pattern : Patterns, act : {"agent", "shell"}, origin : Conversations, fires : Nat]
IsMap(m) == m \in [DOMAIN m -> Watcher] /\ \A i \in DOMAIN m : i \in Nat /\ i < nextWatcher

CallStates ==
  {Idle} \cup [op : {"watch"}, id : Nat, rec : Watcher] \cup {[op |-> "save"], [op |-> "write"]} \cup
  [op : {"emit"}, name : EventNames, from : Conversations, left : SUBSET Nat, fired : Nat]

EventsTypes ==
  /\ nextWatcher \in Nat /\ nextWatcher > 0
  /\ IsMap(watchers) /\ IsMap(saved)
  /\ call \in [Callers -> CallStates]
  /\ holder \in Callers \cup {"free"}

(* An id drawn by one call is no other's, and in no map before its call    *)
(* has put it there.                                                       *)
IdsAreFresh ==
  \A c \in Callers : call[c].op = "watch" =>
    /\ call[c].id < nextWatcher
    /\ call[c].id \notin DOMAIN watchers \cup DOMAIN saved
    /\ \A d \in Callers \ {c} : call[d].op = "watch" => call[d].id # call[c].id

(* An emit or a write holds the mutex, so that the watchers an emit fires   *)
(* are there.                                                              *)
EmitHolds ==
  \A c \in Callers :
    /\ call[c].op \in {"emit", "write"} => holder = c
    /\ call[c].op = "emit" => call[c].left \subseteq DOMAIN watchers

(* The file is behind the map only where a call has still to save, or the   *)
(* last write failed.                                                      *)
Alike(m, n) == \A i \in DOMAIN m \cap DOMAIN n :
                 m[i].pattern = n[i].pattern /\ m[i].origin = n[i].origin
FileFollows ==
  /\ Alike(saved, watchers)
  /\ ~Unsaved => DOMAIN saved = DOMAIN watchers

EventsInv == EventsTypes /\ IdsAreFresh /\ EmitHolds /\ FileFollows

LEMMA WatchStates ==
  ASSUME EventsTypes, NEW c \in Callers, call[c].op = "watch"
  PROVE  call[c].id \in Nat /\ call[c].rec \in Watcher
  BY DEF EventsTypes, CallStates, Idle

LEMMA EventsInvInit == EventsInit => EventsInv
  BY DEF EventsInit, EventsInv, EventsTypes, IsMap, CallStates, Idle, IdsAreFresh, EmitHolds,
         FileFollows, Unsaved, Alike, NoWatchers

LEMMA WatchBeginKeeps ==
  ASSUME EventsInv, NEW c \in Callers, WatchBegin(c) PROVE EventsInv'
<1> USE DEF WatchBegin
<1>1. PICK r \in Watcher : call' = [call EXCEPT ![c] = [op |-> "watch", id |-> nextWatcher, rec |-> r]]
  BY DEF Watcher
<1>2. nextWatcher' = nextWatcher + 1 /\ UNCHANGED <<watchers, saved, kept, holder>>
  OBVIOUS
<1> USE DEF EventsInv
<1>3. EventsTypes'
  BY <1>1, <1>2 DEF EventsTypes, IsMap, CallStates
<1>4. IdsAreFresh'
  <2>1. nextWatcher \notin DOMAIN watchers \cup DOMAIN saved /\ nextWatcher < nextWatcher'
    BY <1>2 DEF EventsTypes, IsMap
  <2>2. \A d \in Callers \ {c} : call'[d] = call[d]
    BY <1>1 DEF EventsTypes
  <2>3. call'[c].op = "watch" /\ call'[c].id = nextWatcher
    BY <1>1 DEF EventsTypes
  <2>4. \A d \in Callers : call[d].op = "watch" => call[d].id < nextWatcher' /\ call[d].id # nextWatcher
    BY <1>2, WatchStates DEF IdsAreFresh, EventsTypes
  <2> QED
    BY <2>1, <2>2, <2>3, <2>4, <1>2 DEF IdsAreFresh
<1>5. EmitHolds'
  BY <1>1, <1>2 DEF EventsTypes, EmitHolds
<1>6. FileFollows'
  <2>1. call[c].op = "idle" /\ call'[c].op = "watch"
    BY <1>1 DEF Idle, EventsTypes
  <2>2. \A d \in Callers \ {c} : call'[d] = call[d]
    BY <1>1 DEF EventsTypes
  <2>3. Unsaved' <=> Unsaved
    BY <2>1, <2>2, <1>2 DEF Unsaved
  <2> QED
    BY <2>3, <1>2 DEF FileFollows, Alike
<1> QED
  BY <1>3, <1>4, <1>5, <1>6

LEMMA WatchInsertKeeps ==
  ASSUME EventsInv, NEW c \in Callers, WatchInsert(c) PROVE EventsInv'
<1> USE DEF WatchInsert, EventsInv
<1>1. call[c].id \in Nat /\ call[c].rec \in Watcher
  BY WatchStates
<1> DEFINE id == call[c].id
<1>2. watchers' = [i \in DOMAIN watchers \cup {id} |-> IF i = id THEN call[c].rec ELSE watchers[i]]
  OBVIOUS
<1>3. call' = [call EXCEPT ![c] = [op |-> "save"]] /\ UNCHANGED <<nextWatcher, saved, kept, holder>>
  OBVIOUS
<1>4. id < nextWatcher /\ id \notin DOMAIN saved
  BY DEF IdsAreFresh
<1>5. EventsTypes'
  <2>1. IsMap(watchers)'
    BY <1>1, <1>2, <1>3, <1>4 DEF EventsTypes, IsMap
  <2> QED
    BY <2>1, <1>3 DEF EventsTypes, IsMap, CallStates
<1> HIDE DEF id
<1>6. IdsAreFresh'
  <2>1. call'[c].op = "save" /\ \A d \in Callers \ {c} : call'[d] = call[d]
    BY <1>3 DEF EventsTypes
  <2>2. DOMAIN watchers' = DOMAIN watchers \cup {id}
    BY <1>2
  <2>3. \A d \in Callers \ {c} : call[d].op = "watch" => call[d].id # id
    BY DEF IdsAreFresh, id
  <2> QED
    BY <2>1, <2>2, <2>3, <1>3 DEF IdsAreFresh
<1>7. EmitHolds'
  BY <1>2, <1>3, EventsAssumption DEF EventsTypes, EmitHolds
<1>8. FileFollows'
  <2>1. Alike(saved, watchers)'
    BY <1>2, <1>3, <1>4 DEF FileFollows, Unsaved, Alike
  <2>2. call'[c].op = "save"
    BY <1>3 DEF EventsTypes
  <2> QED
    BY <2>1, <2>2 DEF FileFollows, Unsaved
<1> QED
  BY <1>5, <1>6, <1>7, <1>8

LEMMA UnwatchKeeps ==
  ASSUME EventsInv, NEW c \in Callers, Unwatch(c) PROVE EventsInv'
<1> USE DEF Unwatch, EventsInv
<1>1. PICK id \in DOMAIN watchers : watchers' = [i \in DOMAIN watchers \ {id} |-> watchers[i]]
  BY DEF Without
<1>2. call' = [call EXCEPT ![c] = [op |-> "save"]] /\ UNCHANGED <<nextWatcher, saved, kept, holder>>
  OBVIOUS
<1>3. EventsTypes'
  <2>1. IsMap(watchers)'
    BY <1>1, <1>2 DEF EventsTypes, IsMap
  <2> QED
    BY <2>1, <1>2 DEF EventsTypes, IsMap, CallStates
<1>4. IdsAreFresh'
  BY <1>1, <1>2 DEF EventsTypes, IdsAreFresh
<1>5. EmitHolds'
  BY <1>1, <1>2, EventsAssumption DEF EventsTypes, EmitHolds
<1>6. FileFollows'
  BY <1>1, <1>2 DEF EventsTypes, FileFollows, Unsaved, Alike
<1> QED
  BY <1>3, <1>4, <1>5, <1>6

LEMMA SaveKeeps ==
  ASSUME EventsInv, NEW c \in Callers, SaveCuts(c) \/ SaveFills(c) PROVE EventsInv'
<1> USE DEF EventsInv
<1>1. PICK r \in {Idle, [op |-> "write"]} : call' = [call EXCEPT ![c] = r]
  BY DEF SaveCuts, SaveFills
<1>2. /\ saved' \in {saved, NoWatchers, watchers} /\ holder' \in {holder, c, "free"}
      /\ holder \in {"free", c} /\ UNCHANGED <<watchers, nextWatcher>>
  BY DEF SaveCuts, SaveFills, EmitHolds
<1>3. r.op \in {"idle", "write"} /\ call'[c] = r /\ \A d \in Callers \ {c} : call'[d] = call[d]
  BY <1>1 DEF EventsTypes, Idle
<1>4. EventsTypes'
  <2>1. IsMap(NoWatchers)
    BY DEF IsMap, NoWatchers
  <2> QED
    BY <1>1, <1>2, <2>1 DEF EventsTypes, IsMap, CallStates
<1>5. IdsAreFresh'
  BY <1>2, <1>3 DEF IdsAreFresh, NoWatchers
<1>6. EmitHolds'
  <2>1. \A d \in Callers \ {c} : call[d].op \notin {"emit", "write"}
    BY <1>2, EventsAssumption DEF EmitHolds, SaveCuts, SaveFills
  <2>2. call'[c].op = "write" => holder' = c
    BY <1>3 DEF SaveCuts, SaveFills, Idle, EventsTypes
  <2> QED
    BY <1>3, <2>1, <2>2 DEF EmitHolds
<1>7. FileFollows'
  <2>1. Alike(saved, watchers)'
    BY <1>2 DEF FileFollows, Alike, NoWatchers
  <2>2. CASE SaveCuts(c)
    <3>1. kept' = FALSE \/ call'[c].op = "write"
      BY <2>2 DEF SaveCuts, EventsTypes
    <3> QED
      BY <2>1, <3>1 DEF FileFollows, Unsaved
  <2>3. CASE SaveFills(c)
    BY <1>2, <2>1, <2>3 DEF SaveFills, FileFollows, Unsaved
  <2> QED
    BY <2>2, <2>3
<1> QED
  BY <1>4, <1>5, <1>6, <1>7

LEMMA EmitBeginKeeps ==
  ASSUME EventsInv, NEW c \in Callers, EmitBegin(c) PROVE EventsInv'
<1> USE DEF EmitBegin, EventsInv
<1>1. PICK name \in EventNames, from \in Conversations, left \in SUBSET DOMAIN watchers :
        call' = [call EXCEPT ![c] =
                   [op |-> "emit", name |-> name, from |-> from, left |-> left, fired |-> 0]]
  OBVIOUS
<1>2. call[c].op = "idle" /\ holder = "free" /\ holder' = c
      /\ UNCHANGED <<watchers, nextWatcher, saved, kept>>
  BY DEF Idle
<1>3. EventsTypes'
  BY <1>1, <1>2 DEF EventsTypes, IsMap, CallStates
<1>4. IdsAreFresh' /\ FileFollows'
  BY <1>1, <1>2 DEF EventsTypes, IdsAreFresh, FileFollows, Unsaved, Alike
<1>5. EmitHolds'
  BY <1>1, <1>2, EventsAssumption DEF EventsTypes, EmitHolds
<1> QED
  BY <1>3, <1>4, <1>5

LEMMA FireKeeps ==
  ASSUME EventsInv, NEW c \in Callers, Fire(c) PROVE EventsInv'
<1> USE DEF EventsInv
<1>1. PICK i \in call[c].left :
        /\ watchers' = [watchers EXCEPT ![i].fires = @ + 1]
        /\ call' = [call EXCEPT ![c].left = @ \ {i}, ![c].fired = @ + 1]
  BY DEF Fire
<1>2. call[c].op = "emit" /\ UNCHANGED <<nextWatcher, saved, kept, holder>>
  BY DEF Fire
<1>3. i \in DOMAIN watchers
  BY <1>1, <1>2 DEF EmitHolds
<1>4. call[c] \in [op : {"emit"}, name : EventNames, from : Conversations, left : SUBSET Nat, fired : Nat]
  BY <1>2 DEF EventsTypes, CallStates, Idle
<1>5. call'[c] = [call[c] EXCEPT !.left = @ \ {i}, !.fired = @ + 1]
      /\ \A d \in Callers \ {c} : call'[d] = call[d]
  BY <1>1 DEF EventsTypes
<1>6. call'[c].op = "emit" /\ call'[c].left = call[c].left \ {i}
  BY <1>2, <1>4, <1>5
<1>7. DOMAIN watchers' = DOMAIN watchers /\ watchers' = [j \in DOMAIN watchers |-> watchers'[j]]
  BY <1>1
<1>8. \A j \in DOMAIN watchers :
        /\ watchers'[j] \in Watcher
        /\ watchers'[j].pattern = watchers[j].pattern /\ watchers'[j].origin = watchers[j].origin
  BY <1>1, <1>3 DEF EventsTypes, IsMap, Watcher
<1>9. EventsTypes'
  <2>1. IsMap(watchers)'
    <3>1. watchers' \in [DOMAIN watchers -> Watcher]
      BY <1>7, <1>8
    <3> QED
      BY <3>1, <1>2, <1>7 DEF EventsTypes, IsMap
  <2>2. call' \in [Callers -> CallStates]
    <3>1. call'[c] \in [op : {"emit"}, name : EventNames, from : Conversations, left : SUBSET Nat, fired : Nat]
      <4>1. call'[c] = [op |-> "emit", name |-> call[c].name, from |-> call[c].from,
                        left |-> call[c].left \ {i}, fired |-> call[c].fired + 1]
        BY <1>4, <1>5
      <4>2. /\ call[c].name \in EventNames /\ call[c].from \in Conversations
            /\ call[c].left \ {i} \in SUBSET Nat /\ call[c].fired + 1 \in Nat
        BY <1>4
      <4> QED
        BY <4>1, <4>2
    <3>2. call'[c] \in CallStates
      BY <3>1 DEF CallStates
    <3> QED
      BY <3>2, <1>1, <1>5 DEF EventsTypes
  <2> QED
    BY <2>1, <2>2, <1>2 DEF EventsTypes, IsMap
<1>10. IdsAreFresh' /\ FileFollows'
  <2>1. IdsAreFresh'
    <3>1. \A d \in Callers : call'[d].op = "watch" => call'[d] = call[d]
      BY <1>5, <1>6
    <3> QED
      BY <3>1, <1>2, <1>7 DEF IdsAreFresh
  <2>2. Alike(saved, watchers)'
    BY <1>2, <1>7, <1>8 DEF FileFollows, Unsaved, Alike
  <2>3. \A d \in Callers : call'[d].op \in {"save", "write"} <=> call[d].op \in {"save", "write"}
    BY <1>2, <1>5, <1>6
  <2>4. Unsaved' <=> Unsaved
    BY <2>3, <1>2 DEF Unsaved
  <2> QED
    BY <2>1, <2>2, <2>4, <1>2, <1>7 DEF FileFollows
<1>11. EmitHolds'
  BY <1>2, <1>5, <1>6, <1>7 DEF EmitHolds
<1> QED
  BY <1>9, <1>10, <1>11

LEMMA EmitEndsKeeps ==
  ASSUME EventsInv, NEW c \in Callers, EmitReturn(c) \/ EmitSave(c) PROVE EventsInv'
<1> USE DEF EmitReturn, EmitSave, EventsInv
<1>1. PICK r \in {Idle, [op |-> "save"]} : call' = [call EXCEPT ![c] = r]
  OBVIOUS
<1>2. UNCHANGED <<watchers, nextWatcher, saved, kept>> /\ call[c].op = "emit" /\ holder' \in {holder, "free"}
  OBVIOUS
<1>3. EventsTypes'
  BY <1>1, <1>2 DEF EventsTypes, IsMap, CallStates
<1>4. r.op \in {"idle", "save"}
  BY DEF Idle
<1>5. call'[c] = r /\ \A d \in Callers \ {c} : call'[d] = call[d]
  BY <1>1 DEF EventsTypes
<1>6. IdsAreFresh' /\ FileFollows'
  BY <1>2, <1>4, <1>5 DEF IdsAreFresh, FileFollows, Unsaved, Alike
<1>7. EmitHolds'
  BY <1>2, <1>4, <1>5 DEF EmitHolds
<1> QED
  BY <1>3, <1>6, <1>7

LEMMA RestartKeeps ==
  ASSUME EventsInv, EventsRestart PROVE EventsInv'
<1> USE DEF EventsInv
<1>1. /\ watchers' = saved /\ saved' = saved /\ nextWatcher' = FirstFree(saved)
      /\ holder' = "free" /\ call' = [c \in Callers |-> Idle]
  BY DEF EventsRestart
<1>2. FirstFree(saved) \in Nat /\ FirstFree(saved) > 0 /\ \A i \in DOMAIN saved : i < FirstFree(saved)
  <2>1. CASE DOMAIN saved = {}
    BY <2>1 DEF FirstFree
  <2>2. CASE DOMAIN saved # {}
    <3>1. DOMAIN saved \in SUBSET Nat /\ nextWatcher \in Nat /\ \A i \in DOMAIN saved : i <= nextWatcher
      BY DEF EventsTypes, IsMap
    <3>3. DOMAIN saved \in SUBSET Int /\ nextWatcher \in Int
      BY <3>1
    <3>2. Max(DOMAIN saved) \in DOMAIN saved /\ \A i \in DOMAIN saved : i <= Max(DOMAIN saved)
      BY <2>2, <3>1, <3>3, MaxIs
    <3> QED
      BY <2>2, <3>1, <3>2 DEF FirstFree
  <2> QED
    BY <2>1, <2>2
<1>3. EventsTypes'
  BY <1>1, <1>2 DEF EventsTypes, IsMap, CallStates
<1>4. \A c \in Callers : call'[c].op = "idle"
  BY <1>1 DEF Idle
<1>5. IdsAreFresh' /\ EmitHolds'
  BY <1>4 DEF IdsAreFresh, EmitHolds
<1>6. FileFollows'
  BY <1>1 DEF FileFollows, Unsaved, Alike
<1> QED
  BY <1>3, <1>5, <1>6

LEMMA EventsInvStep == EventsInv /\ [EventsNext]_evVars => EventsInv'
<1>1. ASSUME EventsInv, UNCHANGED <<watchers, nextWatcher, saved, kept, holder, call>> PROVE EventsInv'
  BY <1>1 DEF EventsInv, EventsTypes, IsMap, IdsAreFresh, EmitHolds, FileFollows, Unsaved, Alike
<1>2. ASSUME (\E i \in shells : ShellDone(i)) \/ BusTaken \/ UNCHANGED evVars
      PROVE  UNCHANGED <<watchers, nextWatcher, saved, kept, holder, call>>
  BY <1>2 DEF ShellDone, BusTaken, evVars
<1> QED
  BY <1>1, <1>2, WatchBeginKeeps, WatchInsertKeeps, UnwatchKeeps, SaveKeeps, EmitBeginKeeps, FireKeeps,
     EmitEndsKeeps, RestartKeeps DEF EventsNext, CallSteps

(* No step makes another watcher of one that is there.                     *)
LEMMA NoneIsReplaced ==
  ASSUME EventsInv, [EventsNext]_evVars
  PROVE  Alike(watchers', watchers)
<1>1. CASE UNCHANGED watchers
  BY <1>1 DEF Alike
<1>2. ASSUME NEW c \in Callers, WatchInsert(c) PROVE Alike(watchers', watchers)
  BY <1>2 DEF WatchInsert, EventsInv, IdsAreFresh, Alike
<1>3. ASSUME NEW c \in Callers, Unwatch(c) PROVE Alike(watchers', watchers)
  BY <1>3 DEF Unwatch, Without, Alike
<1>4. ASSUME NEW c \in Callers, Fire(c) PROVE Alike(watchers', watchers)
  <2>1. PICK i \in call[c].left : watchers' = [watchers EXCEPT ![i].fires = @ + 1]
    BY <1>4 DEF Fire
  <2> QED
    BY <2>1 DEF EventsInv, EventsTypes, IsMap, Watcher, Alike
<1>5. CASE EventsRestart
  BY <1>5 DEF EventsRestart, EventsInv, FileFollows, Unsaved, Alike
<1>6. ASSUME NEW c \in Callers, WatchBegin(c) \/ SaveCuts(c) \/ SaveFills(c) \/ EmitBegin(c) \/ EmitReturn(c) \/ EmitSave(c)
      PROVE  UNCHANGED watchers
  BY <1>6 DEF WatchBegin, SaveCuts, SaveFills, EmitBegin, EmitReturn, EmitSave
<1>7. (\E i \in shells : ShellDone(i)) \/ BusTaken \/ UNCHANGED evVars => UNCHANGED watchers
  BY DEF ShellDone, BusTaken, evVars
<1> QED
  BY <1>1, <1>2, <1>3, <1>4, <1>5, <1>6, <1>7 DEF EventsNext, CallSteps

(* A watcher leaves the map only when it is removed, or with the process    *)
(* while the file was behind the map.                                      *)
LEMMA NoneIsDropped ==
  ASSUME EventsInv, [EventsNext]_evVars
  PROVE  \/ DOMAIN watchers \subseteq DOMAIN watchers'
         \/ (\E c \in Callers : Unwatch(c)) \/ (EventsRestart /\ Unsaved)
<1>1. CASE UNCHANGED watchers
  BY <1>1
<1>2. ASSUME NEW c \in Callers, WatchInsert(c) PROVE DOMAIN watchers \subseteq DOMAIN watchers'
  BY <1>2 DEF WatchInsert
<1>3. ASSUME NEW c \in Callers, Fire(c) PROVE DOMAIN watchers \subseteq DOMAIN watchers'
  BY <1>3 DEF Fire
<1>4. CASE EventsRestart
  BY <1>4 DEF EventsRestart, EventsInv, FileFollows
<1>5. ASSUME NEW c \in Callers,
             WatchBegin(c) \/ SaveCuts(c) \/ SaveFills(c) \/ EmitBegin(c) \/ EmitReturn(c) \/ EmitSave(c)
      PROVE  UNCHANGED watchers
  BY <1>5 DEF WatchBegin, SaveCuts, SaveFills, EmitBegin, EmitReturn, EmitSave
<1>6. (\E i \in shells : ShellDone(i)) \/ BusTaken \/ UNCHANGED evVars => UNCHANGED watchers
  BY DEF ShellDone, BusTaken, evVars
<1> QED
  BY <1>1, <1>2, <1>3, <1>4, <1>5, <1>6 DEF EventsNext, CallSteps

(* Watchers survive each other's calls and a restart as they were          *)
(* registered: no registration is given the id of one that is there, the   *)
(* file holds the map whenever no call is in flight and the last write was *)
(* done, and a watcher that was not removed is gone only after a restart   *)
(* that came before a save was done, or after one that failed (events.rs). *)
THEOREM WatchersAreKept == EventsSpec => WatchersKept
<1>1. EventsInv => SavedWhenIdle
  BY DEF EventsInv, SavedWhenIdle, FileFollows, Unsaved, Alike, Idle
<1>2. EventsInv /\ [EventsNext]_evVars =>
        [\A i \in DOMAIN watchers \intersect DOMAIN watchers' :
           /\ watchers'[i].pattern = watchers[i].pattern
           /\ watchers'[i].origin = watchers[i].origin]_evVars
  BY NoneIsReplaced DEF Alike
<1>3. EventsInv /\ [EventsNext]_evVars =>
        [DOMAIN watchers \subseteq DOMAIN watchers'
          \/ (\E c \in Callers : Unwatch(c)) \/ (EventsRestart /\ Unsaved)]_evVars
  BY NoneIsDropped
<1> QED
  BY <1>1, <1>2, <1>3, EventsInvInit, EventsInvStep, PTL
     DEF EventsSpec, WatchersKept, WatcherKeepsItsId, WatcherStays

-----------------------------------------------------------------------------
(* Skills.                                                                 *)

(* A call that writes SKILL.md has something to write, and one in a folder *)
(* knows which.                                                            *)
FilingOps == {"write", "parents", "unlink", "empty", "rmdir", "clone", "look"}
SkillCalls == {NoCall} \cup [op : FilingOps, skill : SkillNames, text : SUBSET SkillLines]
FilesTypes ==
  /\ folders \subseteq SkillNames /\ gone \subseteq SkillNames
  /\ text \in [SkillNames -> SUBSET SkillLines] /\ filing \in [SkillAgents -> SkillCalls]

(* A SKILL.md is in a folder, and a skill that is gone has none.           *)
FoldersMatch == \A s \in SkillNames : (text[s] # {} => s \in folders) /\ (s \in gone => s \notin folders)
FilesInv == FilesTypes /\ FoldersMatch

LEMMA FilesInvInit == FilesInit => FilesInv
BY DEF FilesInit, FilesInv, FilesTypes, SkillCalls, FoldersMatch

(* What a step of a call does to it keeps the type of the calls.           *)
LEMMA CallsStayTyped ==
  ASSUME FilesTypes, NEW a \in SkillAgents
  PROVE  /\ \A op \in FilingOps, s \in SkillNames, x \in SUBSET SkillLines :
              BeginCall(a, op, s, x) => filing' \in [SkillAgents -> SkillCalls]
         /\ filing[a].op \in FilingOps =>
              /\ filing[a].skill \in SkillNames /\ filing[a].text \in SUBSET SkillLines
              /\ \A op \in FilingOps : Continue(a, op) => filing' \in [SkillAgents -> SkillCalls]
         /\ EndCall(a) => filing' \in [SkillAgents -> SkillCalls]
<1>1. NoCall \in SkillCalls /\ NoCall.op \notin FilingOps
  BY DEF SkillCalls, NoCall, FilingOps
<1>2. filing \in [SkillAgents -> SkillCalls] /\ filing[a] \in SkillCalls
  BY DEF FilesTypes
<1>3. ASSUME NEW op \in FilingOps, NEW s \in SkillNames, NEW x \in SUBSET SkillLines, BeginCall(a, op, s, x)
      PROVE  filing' \in [SkillAgents -> SkillCalls]
  <2>1. [op |-> op, skill |-> s, text |-> x] \in SkillCalls
    BY DEF SkillCalls
  <2> QED BY <1>2, <1>3, <2>1 DEF BeginCall
<1>4. ASSUME filing[a].op \in FilingOps
      PROVE  filing[a] \in [op : FilingOps, skill : SkillNames, text : SUBSET SkillLines]
  BY <1>1, <1>2, <1>4 DEF SkillCalls
<1>5. ASSUME filing[a].op \in FilingOps, NEW op \in FilingOps, Continue(a, op)
      PROVE  filing' \in [SkillAgents -> SkillCalls]
  <2>1. [filing[a] EXCEPT !.op = op] \in SkillCalls
    BY <1>4, <1>5 DEF SkillCalls
  <2>2. filing' = [filing EXCEPT ![a] = [filing[a] EXCEPT !.op = op]]
    BY <1>2, <1>5 DEF Continue
  <2> QED BY <1>2, <2>1, <2>2
<1>6. EndCall(a) => filing' \in [SkillAgents -> SkillCalls]
  BY <1>1, <1>2 DEF EndCall
<1> QED BY <1>3, <1>4, <1>5, <1>6

(* Nothing is written into a folder that is not there.                     *)
LEMMA FoldersStayMatched ==
  ASSUME FilesInv, filing' \in [SkillAgents -> SkillCalls], NEW s \in SkillNames,
         \/ text' = text
         \/ \E x \in SUBSET SkillLines : text' = [text EXCEPT ![s] = x] /\ (x # {} => s \in folders'),
         \/ UNCHANGED <<folders, gone>>
         \/ MakeFolder(s)
         \/ folders' = folders \ {s} /\ gone' = gone \cup {s} /\ text'[s] = {}
  PROVE  FilesInv'
<1>1. FilesTypes'
  BY DEF FilesInv, FilesTypes, MakeFolder
<1>2. /\ text'[s] = text[s] \/ text'[s] = {} \/ s \in folders'
      /\ \A r \in SkillNames : r # s => text'[r] = text[r]
  BY DEF FilesInv, FilesTypes
<1>3. FoldersMatch'
  BY <1>2 DEF FilesInv, FoldersMatch, MakeFolder
<1> QED BY <1>1, <1>3 DEF FilesInv

LEMMA FilesInvStep == FilesInv /\ [FilesNext]_fileVars => FilesInv'
<1> SUFFICES ASSUME FilesInv, [FilesNext]_fileVars PROVE FilesInv'
  OBVIOUS
<1>0. FilesTypes
  BY DEF FilesInv
<1>1. ASSUME NEW a \in SkillAgents, NEW s \in SkillNames, NEW x \in SUBSET SkillLines, NEW op \in FilingOps,
             BeginCall(a, op, s, x), text' = text, UNCHANGED <<folders, gone>> \/ MakeFolder(s)
      PROVE  FilesInv'
  BY <1>0, <1>1, CallsStayTyped, FoldersStayMatched
<1>2. ASSUME NEW a \in SkillAgents, NEW s \in SkillNames,
             Create(a, s) \/ Edit(a, s) \/ WriteFile(a, s) \/ RemoveFile(a, s) \/ Delete(a, s) \/ Install(a, s)
      PROVE  FilesInv'
  <2>1. \E x \in SUBSET SkillLines, op \in FilingOps : BeginCall(a, op, s, x)
    BY <1>2 DEF Create, Edit, WriteFile, RemoveFile, Delete, Install, FilingOps, SomeText
  <2>2. text' = text /\ (UNCHANGED <<folders, gone>> \/ MakeFolder(s))
    BY <1>2 DEF Create, Edit, WriteFile, RemoveFile, Delete, Install
  <2> QED BY <1>1, <2>1, <2>2
<1>3. ASSUME NEW a \in SkillAgents, NEW s \in SkillNames, NEW x \in SkillLines, NEW y \in SkillLines, Patch(a, s, x, y)
      PROVE  FilesInv'
  <2>1. (text[s] \ {x}) \cup {y} \in SUBSET SkillLines /\ "write" \in FilingOps
    BY <1>0 DEF FilesTypes, FilingOps
  <2> QED BY <1>1, <1>3, <2>1 DEF Patch
<1>4. ASSUME NEW a \in SkillAgents,
             WriteText(a) \/ MakeParents(a) \/ Unlink(a) \/ EmptyFolder(a) \/ RemoveFolder(a) \/ Clone(a) \/ CheckClone(a)
      PROVE  FilesInv'
  <2>1. filing[a].op \in FilingOps
    BY <1>4 DEF WriteText, MakeParents, Unlink, EmptyFolder, RemoveFolder, Clone, CheckClone, FilingOps
  <2>2. PICK s \in SkillNames : s = filing[a].skill
    BY <1>0, <2>1, CallsStayTyped
  <2>3. EndCall(a) \/ \E op \in FilingOps : Continue(a, op)
    BY <1>4 DEF WriteText, MakeParents, Unlink, EmptyFolder, RemoveFolder, Clone, CheckClone, FilingOps
  <2>4. filing' \in [SkillAgents -> SkillCalls]
    BY <1>0, <2>1, <2>3, CallsStayTyped
  <2>5. filing[a].text \in SUBSET SkillLines
    BY <1>0, <2>1, CallsStayTyped
  <2>6. CASE WriteText(a)
    BY <2>2, <2>4, <2>5, <2>6, FoldersStayMatched DEF WriteText
  <2>7. CASE MakeParents(a)
    BY <2>2, <2>4, <2>7, FoldersStayMatched DEF MakeParents
  <2>8. CASE Unlink(a) \/ EmptyFolder(a)
    <3>1. text' = [text EXCEPT ![s] = {}] /\ UNCHANGED <<folders, gone>>
      BY <2>2, <2>8 DEF Unlink, EmptyFolder
    <3> QED BY <2>4, <3>1, FoldersStayMatched
  <2>9. CASE RemoveFolder(a)
    BY <2>2, <2>4, <2>9, FoldersStayMatched DEF RemoveFolder, IsEmpty
  <2>10. CASE Clone(a) \/ CheckClone(a)
    <3>1. \/ text' = text /\ (UNCHANGED <<folders, gone>> \/ MakeFolder(s))
          \/ text' = [text EXCEPT ![s] = SkillLines] /\ MakeFolder(s)
      BY <2>2, <2>10 DEF Clone, CheckClone
    <3>2. MakeFolder(s) => s \in folders'
      BY DEF MakeFolder
    <3> QED BY <2>4, <3>1, <3>2, FoldersStayMatched
  <2> QED BY <1>4, <2>6, <2>7, <2>8, <2>9, <2>10
<1>5. CASE UNCHANGED fileVars
  BY <1>0, <1>5 DEF fileVars, FilesInv, FilesTypes, FoldersMatch
<1> QED
  BY <1>2, <1>3, <1>4, <1>5 DEF FilesNext

LEMMA GoneIsGone == FilesInv => DeletedStaysDeleted
  BY DEF FilesInv, FilesTypes, FoldersMatch, DeletedStaysDeleted

(* What a pass is about to do to a row, and the row, by the report that was *)
(* read: while the skill has not been used since, what is archived or is to *)
(* be has no other change coming.                                          *)
RowStates == {"active", "stale", "archived"}
UsageRows == [state : RowStates, idle : 0 .. 2, agent : BOOLEAN]
RowChanges == [skill : Skills, to : RowStates, stated : BOOLEAN]
UsageTypes ==
  /\ usage \in [Skills -> {NoUsage} \cup UsageRows] /\ unused \in [Skills -> 0 .. 2]
  /\ pass \in [Agents -> Seq(RowChanges)]

ChangeComes(c) == \E a \in Agents : \E i \in DOMAIN pass[a] : pass[a][i] = c
ChangeFits(c, row) ==
  /\ ~c.stated /\ (row.idle = 2 \/ row.state = "archived") => c.to = "archived"
  /\ ~c.stated /\ c.to = "archived" => row.idle = 2 \/ row.state = "archived"
  /\ c.stated /\ row.idle = 2 => row.state = "archived"
ChangesFit ==
  \A c \in RowChanges : ChangeComes(c) =>
    /\ usage[c.skill] # NoUsage
    /\ unused[c.skill] > 0 => ChangeFits(c, usage[c.skill])
UsageInv == UsageTypes /\ ChangesFit

LEMMA RowsAre ==
  /\ NoUsage \notin UsageRows /\ NoUsage.state = "none"
  /\ Recorded(NoUsage) \in UsageRows /\ Recorded(NoUsage).idle = 0
  /\ \A r \in UsageRows : Recorded(r) \in UsageRows /\ Recorded(r).idle = 0 /\ Recorded(r).state = r.state
  /\ \A r \in UsageRows : Transition(r) \in RowStates
BY DEF NoUsage, UsageRows, RowStates, Recorded, Transition

LEMMA UsageInvInit == UsageInit => UsageInv
<1> SUFFICES ASSUME UsageInit PROVE UsageInv
  OBVIOUS
<1>1. UsageTypes /\ \A a \in Agents : DOMAIN pass[a] = {}
  BY DEF UsageInit, UsageTypes
<1>2. \A c : ~ChangeComes(c)
  BY <1>1, Zenon DEF ChangeComes
<1> QED BY <1>1, <1>2, Zenon DEF UsageInv, ChangesFit

(* A report adds changes that fit.                                         *)
LEMMA ReportFits ==
  ASSUME UsageInv, NEW a \in Agents, NEW forced, MaybeRunCurator(a, forced), pass[a] = <<>>, UNCHANGED <<usage, unused>>
  PROVE  UsageInv'
<1>0. UsageTypes /\ ChangesFit
  BY Zenon DEF UsageInv
<1>1. CASE pass' = pass
  BY <1>0, <1>1 DEF UsageInv, UsageTypes, ChangesFit, ChangeComes
<1>2. CASE pass' # pass
  <2>1. PICK order \in SetToSeqs(Candidates) :
          pass' = [pass EXCEPT ![a] = [i \in DOMAIN order |->
                     [skill |-> order[i], to |-> Transition(usage[order[i]]), stated |-> FALSE]]]
    BY <1>2 DEF MaybeRunCurator
  <2>2. PICK q : q = [i \in DOMAIN order |->
                     [skill |-> order[i], to |-> Transition(usage[order[i]]), stated |-> FALSE]]
    OBVIOUS
  <2>3. IsFiniteSet(Candidates) /\ Candidates \subseteq Skills
    BY SkillUsageAssumption, FS_Subset DEF Candidates
  <2>4. PICK n \in Nat : DOMAIN order = 1 .. n /\ \A i \in 1 .. n : order[i] \in Candidates
    <3>1. Cardinality(Candidates) \in Nat
      BY <2>3, FS_CardinalityType
    <3>2. order \in [1 .. Cardinality(Candidates) -> Candidates]
      BY Zenon DEF SetToSeqs
    <3> QED BY <3>1, <3>2
  <2>5. \A s \in Candidates : /\ s \in Skills /\ usage[s] \in UsageRows
                              /\ Transition(usage[s]) \in RowStates /\ Transition(usage[s]) # usage[s].state
    BY <1>0, <2>3, RowsAre DEF Candidates, UsageTypes
  <2>6. \A i \in 1 .. n : /\ q[i] \in RowChanges /\ q[i].skill \in Candidates /\ ~q[i].stated
                          /\ q[i].to = Transition(usage[q[i].skill])
    BY <2>2, <2>4, <2>5 DEF RowChanges
  <2>7. q \in Seq(RowChanges) /\ DOMAIN q = 1 .. n
    BY <2>2, <2>4, <2>6
  <2>8. pass' = [pass EXCEPT ![a] = q]
    BY <2>1, <2>2, Zenon
  <2>9. pass' \in [Agents -> Seq(RowChanges)] /\ pass'[a] = q /\ \A b \in Agents : b # a => pass'[b] = pass[b]
    BY <1>0, <2>7, <2>8 DEF UsageTypes
  <2>10. UsageTypes'
    BY <1>0, <2>9 DEF UsageTypes
  <2>11. ASSUME NEW c \in RowChanges, ChangeComes(c)'
         PROVE  /\ usage[c.skill] # NoUsage
                /\ unused[c.skill] > 0 => ChangeFits(c, usage[c.skill])
    <3>1. CASE ChangeComes(c)
      BY <1>0, <3>1, Zenon DEF ChangesFit
    <3>2. CASE ~ChangeComes(c)
      <4>1. PICK b \in Agents : \E i \in DOMAIN pass'[b] : pass'[b][i] = c
        BY <2>11, Zenon DEF ChangeComes
      <4>2. b = a
        BY <2>9, <3>2, <4>1, Zenon DEF ChangeComes
      <4>3. PICK i \in 1 .. n : q[i] = c
        BY <2>7, <2>9, <4>1, <4>2, Zenon
      <4>4. /\ c.skill \in Candidates /\ ~c.stated /\ c.to = Transition(usage[c.skill])
            /\ usage[c.skill] \in UsageRows /\ c.to # usage[c.skill].state
        BY <2>5, <2>6, <4>3, Zenon
      <4>5. ChangeFits(c, usage[c.skill])
        BY <4>4 DEF ChangeFits, Transition, UsageRows, RowStates
      <4> QED BY <4>4, <4>5, RowsAre
    <3> QED BY <3>1, <3>2
  <2> QED BY <2>10, <2>11, Zenon DEF UsageInv, ChangesFit
<1> QED BY <1>1, <1>2

LEMMA SetStateFits == ASSUME UsageInv, NEW a \in Agents, SetState(a) PROVE UsageInv'
<1>0. UsageTypes /\ ChangesFit
  BY Zenon DEF UsageInv
<1>1. PICK q, c, s : q = pass[a] /\ c = q[1] /\ s = c.skill
  OBVIOUS
<1>2. q \in Seq(RowChanges) /\ q # <<>> /\ DOMAIN q = 1 .. Len(q) /\ 1 \in DOMAIN q /\ Head(q) = c /\ c \in RowChanges
  <2>1. q \in Seq(RowChanges) /\ q # <<>>
    BY <1>0, <1>1 DEF SetState, UsageTypes
  <2> QED BY <1>1, <2>1
<1>3. /\ ~c.stated /\ usage' = [usage EXCEPT ![s].state = c.to]
      /\ pass' = [pass EXCEPT ![a][1].stated = TRUE] /\ unused' = unused
  BY <1>1, <1>2, Zenon DEF SetState
<1>4. s \in Skills /\ c.to \in RowStates
  BY <1>1, <1>2 DEF RowChanges
<1>5. ChangeComes(c)
  BY <1>1, <1>2, Zenon DEF ChangeComes
<1>6. usage[s] \in UsageRows /\ (unused[s] > 0 => ChangeFits(c, usage[s]))
  BY <1>0, <1>1, <1>2, <1>4, <1>5 DEF ChangesFit, UsageTypes
<1>7. PICK d : d = [c EXCEPT !.stated = TRUE]
  OBVIOUS
<1>8. d \in RowChanges /\ d.stated /\ d.skill = s /\ d.to = c.to
  BY <1>1, <1>2, <1>7 DEF RowChanges
<1>9. /\ pass' \in [Agents -> Seq(RowChanges)]
      /\ \A b \in Agents : \A i \in DOMAIN pass'[b] :
           i \in DOMAIN pass[b] /\ (pass'[b][i] = pass[b][i] \/ pass'[b][i] = d)
  <2>1. pass' = [pass EXCEPT ![a] = [q EXCEPT ![1] = d]]
    BY <1>1, <1>3, <1>7
  <2>2. [q EXCEPT ![1] = d] \in Seq(RowChanges)
    BY <1>2, <1>8
  <2> QED BY <1>0, <1>1, <1>2, <2>1, <2>2 DEF UsageTypes
<1>10. PICK r : r = [usage[s] EXCEPT !.state = c.to]
  OBVIOUS
<1>11. r \in UsageRows /\ r.state = c.to /\ r.idle = usage[s].idle
  BY <1>4, <1>6, <1>10 DEF UsageRows
<1>12. usage' \in [Skills -> {NoUsage} \cup UsageRows] /\ usage'[s] = r /\ \A t \in Skills : t # s => usage'[t] = usage[t]
  BY <1>0, <1>3, <1>4, <1>10, <1>11 DEF UsageTypes
<1>13. UsageTypes'
  BY <1>0, <1>3, <1>9, <1>12 DEF UsageTypes
<1>14. ASSUME NEW e \in RowChanges, ChangeComes(e)'
       PROVE  /\ usage'[e.skill] # NoUsage
              /\ unused'[e.skill] > 0 => ChangeFits(e, usage'[e.skill])
  <2>1. ChangeComes(e) \/ e = d
    BY <1>9, <1>14, Zenon DEF ChangeComes
  <2>2. e.skill \in Skills
    BY DEF RowChanges
  <2>3. ChangeComes(e) => usage[e.skill] # NoUsage /\ (unused[e.skill] > 0 => ChangeFits(e, usage[e.skill]))
    BY <1>0, Zenon DEF ChangesFit
  <2>4. CASE e.skill # s
    BY <1>3, <1>8, <1>12, <2>1, <2>2, <2>3, <2>4
  <2>5. CASE e.skill = s
    <3>1. usage'[e.skill] = r /\ r # NoUsage
      BY <1>11, <1>12, <2>5, RowsAre
    <3>2. ASSUME unused[s] > 0 PROVE ChangeFits(e, r)
      BY <1>3, <1>6, <1>8, <1>11, <2>1, <2>3, <2>5, <3>2 DEF ChangeFits
    <3> QED BY <1>3, <2>5, <3>1, <3>2
  <2> QED BY <2>4, <2>5
<1> QED BY <1>13, <1>14, Zenon DEF UsageInv, ChangesFit

LEMMA RecordFits == ASSUME UsageInv, NEW a \in Agents, RecordChange(a) PROVE UsageInv'
<1>0. UsageTypes /\ ChangesFit
  BY Zenon DEF UsageInv
<1>1. PICK q, c, s : q = pass[a] /\ c = q[1] /\ s = c.skill
  OBVIOUS
<1>2. q \in Seq(RowChanges) /\ q # <<>> /\ DOMAIN q = 1 .. Len(q) /\ 1 \in DOMAIN q /\ Head(q) = c /\ c \in RowChanges
  <2>1. q \in Seq(RowChanges) /\ q # <<>>
    BY <1>0, <1>1 DEF RecordChange, UsageTypes
  <2> QED BY <1>1, <2>1
<1>3. /\ c.stated /\ usage' = [usage EXCEPT ![s] = Recorded(usage[s])]
      /\ pass' = [pass EXCEPT ![a] = Tail(q)] /\ unused' = unused
  BY <1>1, <1>2, Zenon DEF RecordChange
<1>4. s \in Skills /\ ChangeComes(c)
  BY <1>1, <1>2, Zenon DEF RowChanges, ChangeComes
<1>6. usage[s] \in UsageRows /\ (unused[s] > 0 => ChangeFits(c, usage[s]))
  BY <1>0, <1>1, <1>2, <1>4 DEF ChangesFit, UsageTypes
<1>9. /\ pass' \in [Agents -> Seq(RowChanges)]
      /\ \A b \in Agents : \A i \in DOMAIN pass'[b] : \E j \in DOMAIN pass[b] : pass'[b][i] = pass[b][j]
  <2>1. /\ Tail(q) \in Seq(RowChanges) /\ DOMAIN Tail(q) = 1 .. Len(Tail(q)) /\ Len(Tail(q)) = Len(q) - 1 /\ Len(q) \in Nat
        /\ \A i \in 1 .. Len(Tail(q)) : Tail(q)[i] = q[i + 1]
    BY <1>2, HeadTailProperties, SeqIs
  <2>2. \A i \in DOMAIN Tail(q) : \E j \in DOMAIN q : Tail(q)[i] = q[j]
    BY <1>2, <2>1
  <2>3. pass'[a] = Tail(q) /\ \A b \in Agents : b # a => pass'[b] = pass[b]
    BY <1>0, <1>3 DEF UsageTypes
  <2>4. pass' \in [Agents -> Seq(RowChanges)]
    BY <1>0, <1>3, <2>1 DEF UsageTypes
  <2>5. ASSUME NEW b \in Agents, NEW i \in DOMAIN pass'[b]
        PROVE  \E j \in DOMAIN pass[b] : pass'[b][i] = pass[b][j]
    <3>1. CASE b = a
      <4>1. pass'[b] = Tail(q) /\ pass[b] = q
        BY <1>1, <2>3, <3>1
      <4> QED BY <2>2, <4>1
    <3>2. CASE b # a
      BY <2>3, <3>2, Zenon
    <3> QED BY <3>1, <3>2
  <2> QED BY <2>4, <2>5
<1>10. PICK r : r = Recorded(usage[s])
  OBVIOUS
<1>11. r \in UsageRows /\ r # NoUsage /\ r.state = usage[s].state /\ r.idle = 0
  BY <1>6, <1>10, RowsAre
<1>12. usage' \in [Skills -> {NoUsage} \cup UsageRows] /\ usage'[s] = r /\ \A t \in Skills : t # s => usage'[t] = usage[t]
  BY <1>0, <1>3, <1>4, <1>10, <1>11 DEF UsageTypes
<1>13. UsageTypes'
  BY <1>0, <1>3, <1>9, <1>12 DEF UsageTypes
<1>14. ASSUME NEW e \in RowChanges, ChangeComes(e)'
       PROVE  /\ usage'[e.skill] # NoUsage
              /\ unused'[e.skill] > 0 => ChangeFits(e, usage'[e.skill])
  <2>1. ChangeComes(e)
    <3>1. PICK b \in Agents : \E i \in DOMAIN pass'[b] : pass'[b][i] = e
      BY <1>14, Zenon DEF ChangeComes
    <3>2. PICK i \in DOMAIN pass'[b] : pass'[b][i] = e
      BY <3>1
    <3>3. PICK j \in DOMAIN pass[b] : pass'[b][i] = pass[b][j]
      BY <1>9
    <3> QED BY <3>2, <3>3, Zenon DEF ChangeComes
  <2>2. e.skill \in Skills
    BY DEF RowChanges
  <2>3. usage[e.skill] # NoUsage /\ (unused[e.skill] > 0 => ChangeFits(e, usage[e.skill]))
    BY <1>0, <2>1, Zenon DEF ChangesFit
  <2>4. CASE e.skill # s
    BY <1>3, <1>12, <2>2, <2>3, <2>4
  <2>5. CASE e.skill = s
    <3>2. ASSUME unused[s] > 0 PROVE ChangeFits(e, r)
      BY <1>3, <1>6, <1>11, <2>3, <2>5, <3>2 DEF ChangeFits
    <3> QED BY <1>3, <1>11, <1>12, <2>5, <3>2
  <2> QED BY <2>4, <2>5
<1> QED BY <1>13, <1>14, Zenon DEF UsageInv, ChangesFit

(* An execution leaves the state of a row, and starts its time anew.       *)
LEMMA ExecuteFits ==
  ASSUME UsageInv, NEW a \in Agents, NEW s \in Skills, NEW st \in BOOLEAN, NEW ok \in BOOLEAN, Execute(a, s, st, ok)
  PROVE  UsageInv'
<1>0. UsageTypes /\ ChangesFit
  BY Zenon DEF UsageInv
<1>1. /\ usage' = usage \/ usage' = [usage EXCEPT ![s] = Recorded(usage[s])]
      /\ unused' = [unused EXCEPT ![s] = 0] /\ pass' = pass
  BY DEF Execute
<1>2. usage[s] \in {NoUsage} \cup UsageRows
  BY <1>0 DEF UsageTypes
<1>3. Recorded(usage[s]) \in UsageRows
  BY <1>2, RowsAre
<1>4. UsageTypes'
  BY <1>0, <1>1, <1>3 DEF UsageTypes
<1>5. \A t \in Skills : /\ t # s => usage'[t] = usage[t] /\ unused'[t] = unused[t]
                        /\ usage[t] # NoUsage => usage'[t] # NoUsage
                        /\ unused'[s] = 0
  BY <1>0, <1>1, <1>3, RowsAre DEF UsageTypes
<1>6. \A c : ChangeComes(c)' <=> ChangeComes(c)
  BY <1>1 DEF ChangeComes
<1>7. \A c \in RowChanges : c.skill \in Skills
  BY DEF RowChanges
<1> SUFFICES ASSUME NEW c \in RowChanges, ChangeComes(c)
             PROVE  /\ usage'[c.skill] # NoUsage
                    /\ unused'[c.skill] > 0 => ChangeFits(c, usage'[c.skill])
  BY <1>4, <1>6, Zenon DEF UsageInv, ChangesFit
<1>8. /\ usage[c.skill] # NoUsage
      /\ unused[c.skill] > 0 => ChangeFits(c, usage[c.skill])
  BY <1>0, Zenon DEF ChangesFit
<1> QED BY <1>5, <1>7, <1>8

LEMMA WeeksFit == ASSUME UsageInv, WeeksPass PROVE UsageInv'
<1>0. UsageTypes /\ ChangesFit
  BY Zenon DEF UsageInv
<1>1. /\ \A a \in Agents : pass'[a] = <<>>
      /\ pass' = pass
      /\ usage' = [s \in Skills |-> IF usage[s] = NoUsage THEN NoUsage
                     ELSE [usage[s] EXCEPT !.idle = IF @ < 2 THEN @ + 1 ELSE 2]]
      /\ unused' = [s \in Skills |-> IF unused[s] < 2 THEN unused[s] + 1 ELSE 2]
  BY DEF WeeksPass
<1>2. \A c : ~(ChangeComes(c)')
  BY <1>1 DEF ChangeComes
<1>3. \A r \in UsageRows : [r EXCEPT !.idle = IF @ < 2 THEN @ + 1 ELSE 2] \in UsageRows
  BY DEF UsageRows
<1>4. UsageTypes'
  BY <1>0, <1>1, <1>3 DEF UsageTypes
<1> QED BY <1>2, <1>4, Zenon DEF UsageInv, ChangesFit

LEMMA SyncFits == ASSUME UsageInv, SyncSkillNames PROVE UsageInv'
<1>0. UsageTypes /\ ChangesFit
  BY Zenon DEF UsageInv
<1>1. /\ pass' = pass /\ unused' = unused
      /\ usage' = [s \in Skills |-> IF usage[s] = NoUsage /\ s \in Workspace
                     THEN [state |-> "active", idle |-> 0, agent |-> TRUE] ELSE usage[s]]
  BY DEF SyncSkillNames
<1>2. [state |-> "active", idle |-> 0, agent |-> TRUE] \in UsageRows
  BY DEF UsageRows, RowStates
<1>3. UsageTypes' /\ \A s \in Skills : usage[s] # NoUsage => usage'[s] = usage[s]
  BY <1>0, <1>1, <1>2 DEF UsageTypes
<1>4. \A c : ChangeComes(c)' <=> ChangeComes(c)
  BY <1>1 DEF ChangeComes
<1>5. \A c \in RowChanges : c.skill \in Skills
  BY DEF RowChanges
<1> QED BY <1>0, <1>1, <1>3, <1>4, <1>5, Zenon DEF UsageInv, ChangesFit

LEMMA UsageInvStep == UsageInv /\ [UsageNext]_usageVars => UsageInv'
<1>1. ASSUME UsageInv, UNCHANGED <<usage, unused, pass>> PROVE UsageInv'
  BY <1>1 DEF UsageInv, UsageTypes, ChangesFit, ChangeComes
<1>2. ASSUME NEW a \in Agents, NEW sk, UsageInv, Review(a, sk) \/ RunNow(a) PROVE UsageInv'
  <2>1. pass[a] = <<>> /\ UNCHANGED <<usage, unused>> /\ \E forced : MaybeRunCurator(a, forced)
    BY <1>2 DEF Review, RunNow
  <2> QED BY <1>2, <2>1, ReportFits
<1>3. ASSUME NEW a \in Agents, Pause(a) \/ Resume(a) \/ NewAgent(a) PROVE UNCHANGED <<usage, unused, pass>>
  BY <1>3 DEF Pause, Resume, NewAgent
<1>4. UNCHANGED usageVars => UNCHANGED <<usage, unused, pass>>
  BY DEF usageVars, tableVars
<1> QED
  BY <1>1, <1>2, <1>3, <1>4, SetStateFits, RecordFits, ExecuteFits, WeeksFit, SyncFits, Zenon DEF UsageNext

LEMMA NoneComesBack ==
  ASSUME UsageInv, [UsageNext]_usageVars, NEW s \in Skills,
         usage[s].state = "archived", usage'[s].state # "archived"
  PROVE  unused[s] = 0
<1>0. UsageTypes /\ ChangesFit
  BY Zenon DEF UsageInv
<1>1. usage[s] \in UsageRows /\ usage[s] # NoUsage /\ unused[s] \in 0 .. 2
  BY <1>0, RowsAre DEF UsageTypes
<1>2. ASSUME NEW a \in Agents, NEW t \in Skills, NEW st \in BOOLEAN, NEW ok \in BOOLEAN, Execute(a, t, st, ok)
      PROVE  FALSE
  BY <1>0, <1>1, <1>2, RowsAre DEF Execute, UsageTypes
<1>3. ASSUME NEW a \in Agents, RecordChange(a) PROVE FALSE
  BY <1>0, <1>1, <1>3, RowsAre DEF RecordChange, UsageTypes
<1>4. ASSUME WeeksPass \/ SyncSkillNames PROVE FALSE
  BY <1>1, <1>4 DEF WeeksPass, SyncSkillNames, UsageRows
<1>5. ASSUME NEW a \in Agents, SetState(a) PROVE unused[s] = 0
  <2>1. PICK c : c = pass[a][1]
    OBVIOUS
  <2>2. pass[a] \in Seq(RowChanges) /\ pass[a] # <<>>
    BY <1>0, <1>5 DEF SetState, UsageTypes
  <2>3. 1 \in DOMAIN pass[a] /\ Head(pass[a]) = c /\ c \in RowChanges
    BY <2>1, <2>2
  <2>4. ~c.stated /\ usage' = [usage EXCEPT ![c.skill].state = c.to]
    BY <1>5, <2>3, Zenon DEF SetState
  <2>5. c.skill = s /\ c.to # "archived"
    BY <1>0, <1>1, <2>4 DEF UsageTypes, UsageRows
  <2>6. ChangeComes(c)
    BY <2>1, <2>3, Zenon DEF ChangeComes
  <2>7. unused[s] > 0 => ChangeFits(c, usage[s])
    BY <1>0, <2>3, <2>5, <2>6, Zenon DEF ChangesFit
  <2> QED BY <1>1, <2>4, <2>5, <2>7 DEF ChangeFits
<1>6. ASSUME NEW a \in Agents, NEW sk, Review(a, sk) \/ RunNow(a) \/ Pause(a) \/ Resume(a) \/ NewAgent(a) PROVE FALSE
  BY <1>6 DEF Review, RunNow, Pause, Resume, NewAgent
<1>7. ~(UNCHANGED usageVars)
  BY DEF usageVars, tableVars
<1> QED
  BY <1>2, <1>3, <1>4, <1>5, <1>6, <1>7, Zenon DEF UsageNext

(* An archived skill comes back only when it has just been used, whatever   *)
(* the passes of other sessions do (curator.rs).                           *)
THEOREM ArchivedSkillsStay == UsageSpec => ArchivedStays
<1>1. UsageInv /\ [UsageNext]_usageVars =>
        [\A s \in Skills : usage[s].state = "archived" /\ usage'[s].state # "archived" => unused[s] = 0]_usageVars
  BY NoneComesBack
<1> QED
  BY <1>1, UsageInvInit, UsageInvStep, PTL DEF UsageSpec, ArchivedStays

(* What was done to a skill is not undone: one whose delete was done has   *)
(* no SKILL.md and no folder until a create, a write_file or an install    *)
(* makes the folder again, whatever calls of other agents the delete       *)
(* overtook (skill_manage.rs); and one that is archived stays so until it  *)
(* has just been used, whatever other passes do (curator.rs).              *)
THEOREM SkillsAreGone == MCSpec => SkillsStayGone
<1> DEFINE Inv == FilesInv /\ UsageInv
<1>1. MCInit => Inv
  BY FilesInvInit, UsageInvInit DEF MCInit
<1>2. [MCNext]_MCVars => [FilesNext]_fileVars /\ [UsageNext]_usageVars
  BY DEF MCNext, MCVars
<1>3. Inv /\ [MCNext]_MCVars => Inv'
  BY <1>2, FilesInvStep, UsageInvStep
<1>4. Inv => DeletedStaysDeleted
  BY GoneIsGone
<1>5. Inv /\ [MCNext]_MCVars =>
        [\A s \in Skills : usage[s].state = "archived" /\ usage'[s].state # "archived" => unused[s] = 0]_usageVars
  BY <1>2, NoneComesBack
<1> QED
  BY <1>1, <1>3, <1>4, <1>5, PTL DEF MCSpec, SkillsStayGone, ArchivedStays

-----------------------------------------------------------------------------
(* Notebook.                                                               *)

EditStates ==
  {NoEdit} \cup [op : {"measure"}, size : Sizes, seen : Nat] \cup [op : {"write", "writing"}, text : Nat]
NotebookTypes == file \in Nat /\ edit \in [Editors -> EditStates] /\ shortened \in BOOLEAN

(* As long as no add has measured less than it had read, what each call is *)
(* about to write keeps to the limit.                                      *)
HoldsText(e) == edit[e].op \in {"write", "writing"}
EditsFit == ~shortened => file <= FileLimit /\ \A e \in Editors : HoldsText(e) => edit[e].text <= FileLimit
NotebookInv == NotebookTypes /\ EditsFit

LEMMA NotebookInvInit == NotebookInit => NotebookInv
<1> SUFFICES ASSUME NotebookInit PROVE NotebookInv
  OBVIOUS
<1>1. \A e \in Editors : ~HoldsText(e)
  BY DEF NotebookInit, HoldsText, NoEdit
<1>2. NotebookTypes
  BY DEF NotebookInit, NotebookTypes, EditStates
<1>3. file <= FileLimit
  BY NotebookAssumption DEF NotebookInit
<1> QED BY <1>1, <1>2, <1>3 DEF NotebookInv, EditsFit

(* A step of one call keeps the invariant if the file it leaves and what   *)
(* the call is then about to write keep to the limit.                      *)
LEMMA EditStepKeeps ==
  ASSUME NotebookInv, NEW e \in Editors, NEW next, next \in EditStates,
         edit' = [edit EXCEPT ![e] = next],
         file' \in Nat, shortened' \in BOOLEAN, shortened => shortened',
         ~shortened' => file' <= FileLimit,
         ~shortened' /\ next.op \in {"write", "writing"} => next.text <= FileLimit
  PROVE  NotebookInv'
<1>1. NotebookTypes /\ EditsFit
  BY DEF NotebookInv
<1>2. /\ edit' \in [Editors -> EditStates] /\ edit'[e] = next
      /\ \A f \in Editors : f # e => edit'[f] = edit[f]
  BY <1>1 DEF NotebookTypes
<1>3. NotebookTypes'
  BY <1>2 DEF NotebookTypes
<1>4. ASSUME ~shortened', NEW f \in Editors, HoldsText(f)' PROVE edit'[f].text <= FileLimit
  <2>1. CASE f = e
    BY <1>2, <1>4, <2>1 DEF HoldsText
  <2>2. CASE f # e
    BY <1>1, <1>2, <1>4, <2>2 DEF HoldsText, EditsFit
  <2> QED BY <2>1, <2>2
<1> QED BY <1>3, <1>4 DEF NotebookInv, EditsFit

LEMMA BeginEditKeeps ==
  ASSUME NotebookInv, NEW e \in Editors, NEW next, next \in EditStates, BeginEdit(e, next),
         next.op \in {"write", "writing"} /\ file <= FileLimit => next.text <= FileLimit
  PROVE  NotebookInv'
<1>1. file' = file /\ shortened' = shortened /\ edit' = [edit EXCEPT ![e] = next]
  BY DEF BeginEdit
<1>2. file \in Nat /\ shortened \in BOOLEAN /\ (~shortened => file <= FileLimit)
  BY DEF NotebookInv, NotebookTypes, EditsFit
<1> QED BY <1>1, <1>2, EditStepKeeps

LEMMA AddMeasureKeeps == ASSUME NotebookInv, NEW e \in Editors, AddMeasure(e) PROVE NotebookInv'
<1>0. file \in Nat /\ shortened \in BOOLEAN /\ edit[e] \in EditStates /\ (~shortened => file <= FileLimit)
  BY DEF NotebookInv, NotebookTypes, EditsFit
<1>1. PICK c, next : /\ c = edit[e]
                     /\ next = IF NewLength(c.size) > FileLimit THEN NoEdit
                               ELSE [op |-> "write", text |-> With(c.seen, c.size)]
  OBVIOUS
<1>2. /\ c.op = "measure" /\ edit' = [edit EXCEPT ![e] = next] /\ file' = file
      /\ shortened' = (shortened \/ file < c.seen)
  BY <1>1 DEF AddMeasure
<1>3. c.size \in Nat /\ c.seen \in Nat
  <2>1. c \in EditStates
    BY <1>0, <1>1
  <2>2. c # NoEdit /\ c \notin [op : {"write", "writing"}, text : Nat]
    BY <1>2 DEF NoEdit
  <2>3. c \in [op : {"measure"}, size : Sizes, seen : Nat]
    BY <2>1, <2>2, Zenon DEF EditStates
  <2> QED BY <2>3, NotebookAssumption
<1>4. With(c.seen, c.size) \in Nat
  BY <1>3 DEF With, Delimiter
<1>5. next \in EditStates /\ NoEdit.op = "idle"
  BY <1>1, <1>4 DEF EditStates, NoEdit
<1>6. ASSUME ~shortened', next.op \in {"write", "writing"} PROVE next.text <= FileLimit
  <2>1. c.seen <= file
    <3>1. ~(file < c.seen)
      BY <1>2, <1>6, Zenon
    <3> QED BY <1>0, <1>3, <3>1
  <2>5. next # NoEdit
    <3>1. NoEdit.op = "idle" /\ next.op \in {"write", "writing"}
      BY <1>5, <1>6
    <3>2. "idle" \notin {"write", "writing"}
      OBVIOUS
    <3> QED BY <3>1, <3>2, Zenon
  <2>2. ~(NewLength(c.size) > FileLimit)
    <3>1. ASSUME NewLength(c.size) > FileLimit PROVE next = NoEdit
      BY <1>1, <3>1, Zenon
    <3> QED BY <2>5, <3>1, Zenon
  <2>3. next = [op |-> "write", text |-> With(c.seen, c.size)]
    BY <1>1, <2>2, Zenon
  <2>4. next.text = With(c.seen, c.size)
    BY <2>3
  <2> QED BY <1>0, <1>3, <2>1, <2>2, <2>4, NotebookAssumption DEF NewLength, With, Delimiter
<1>7. shortened' \in BOOLEAN /\ (shortened => shortened') /\ (~shortened' => file' <= FileLimit)
  BY <1>0, <1>2
<1> QED BY <1>0, <1>2, <1>5, <1>6, <1>7, EditStepKeeps

LEMMA EditTruncateKeeps == ASSUME NotebookInv, NEW e \in Editors, EditTruncate(e) PROVE NotebookInv'
<1>1. PICK next : next = [edit[e] EXCEPT !.op = "writing"]
  OBVIOUS
<1>2. edit[e].op = "write" /\ file' = 0 /\ shortened' = shortened /\ edit' = [edit EXCEPT ![e] = next]
  BY <1>1 DEF EditTruncate
<1>3. edit[e] \in EditStates /\ shortened \in BOOLEAN /\ (~shortened => edit[e].text <= FileLimit)
  BY <1>2 DEF NotebookInv, NotebookTypes, EditsFit, HoldsText
<1>4. edit[e] \in [op : {"write", "writing"}, text : Nat]
  BY <1>2, <1>3 DEF EditStates, NoEdit
<1>5. next \in [op : {"write", "writing"}, text : Nat] /\ next.text = edit[e].text
  BY <1>1, <1>4
<1>6. next \in EditStates
  BY <1>5 DEF EditStates
<1>7. file' \in Nat /\ shortened' \in BOOLEAN /\ (~shortened' => file' <= FileLimit)
  BY <1>2, <1>3, NotebookAssumption
<1>8. ~shortened' => next.text <= FileLimit
  BY <1>2, <1>3, <1>5
<1> QED BY <1>2, <1>6, <1>7, <1>8, EditStepKeeps

LEMMA EditWriteKeeps == ASSUME NotebookInv, NEW e \in Editors, EditWrite(e) PROVE NotebookInv'
<1>1. /\ edit[e].op = "writing" /\ file' = IF edit[e].text < file THEN file ELSE edit[e].text
      /\ edit' = [edit EXCEPT ![e] = NoEdit] /\ shortened' = shortened
  BY DEF EditWrite
<1>2. /\ edit[e] \in EditStates /\ file \in Nat /\ shortened \in BOOLEAN
      /\ ~shortened => file <= FileLimit /\ edit[e].text <= FileLimit
  BY <1>1 DEF NotebookInv, NotebookTypes, EditsFit, HoldsText
<1>3. edit[e] \in [op : {"write", "writing"}, text : Nat]
  BY <1>1, <1>2 DEF EditStates, NoEdit
<1>4. file' \in Nat /\ (~shortened' => file' <= FileLimit)
  BY <1>1, <1>2, <1>3
<1>5. NoEdit \in EditStates /\ NoEdit.op = "idle"
  BY DEF EditStates, NoEdit
<1> QED BY <1>1, <1>2, <1>4, <1>5, EditStepKeeps

LEMMA NotebookInvStep == NotebookInv /\ [NotebookNext]_noteVars => NotebookInv'
<1> SUFFICES ASSUME NotebookInv, [NotebookNext]_noteVars PROVE NotebookInv'
  OBVIOUS
<1>0. file \in Nat
  BY DEF NotebookInv, NotebookTypes
<1>1. ASSUME NEW e \in Editors, NEW size \in Sizes, AddRead(e, size) PROVE NotebookInv'
  <2>1. PICK seen \in {0, file} : BeginEdit(e, [op |-> "measure", size |-> size, seen |-> seen])
    BY <1>1 DEF AddRead
  <2>2. /\ [op |-> "measure", size |-> size, seen |-> seen] \in EditStates
        /\ [op |-> "measure", size |-> size, seen |-> seen].op = "measure"
    BY <1>0 DEF EditStates
  <2> QED BY <2>1, <2>2, BeginEditKeeps
<1>2. ASSUME NEW e \in Editors, ReplaceRead(e) \/ RemoveRead(e) PROVE NotebookInv'
  <2>1. PICK n \in Nat : BeginEdit(e, [op |-> "write", text |-> n]) /\ (n <= FileLimit \/ n <= file)
    BY <1>0, <1>2, NotebookAssumption DEF ReplaceRead, RemoveRead
  <2>2. [op |-> "write", text |-> n] \in EditStates /\ [op |-> "write", text |-> n].text = n
    BY DEF EditStates
  <2>3. file <= FileLimit => n <= FileLimit
    BY <1>0, <2>1, NotebookAssumption
  <2> QED BY <2>1, <2>2, <2>3, BeginEditKeeps
<1>3. CASE UNCHANGED noteVars
  BY <1>3 DEF noteVars, NotebookInv, NotebookTypes, EditsFit, HoldsText
<1> QED BY <1>1, <1>2, <1>3, AddMeasureKeeps, EditTruncateKeeps, EditWriteKeeps DEF NotebookNext

(* For entries of any length and any number of callers, and however their  *)
(* reads and half done writes meet, the file keeps to its limit until an   *)
(* add measures a shorter file than it had read (memory_md.rs).            *)
THEOREM FileKeepsToLimit == NotebookSpec => []FileWithinLimit
<1>1. NotebookInv => FileWithinLimit
  BY DEF NotebookInv, EditsFit, FileWithinLimit
<1> QED
  BY <1>1, NotebookInvInit, NotebookInvStep, PTL DEF NotebookSpec

-----------------------------------------------------------------------------
(* The meeting bot.                                                        *)

MeetCalls == Meetings \cup {NoMeeting}
LoopStates ==
  [at : {"navigate", "sleep", "admitted", "drain", "entry", "append", "count", "flush", "leave", "final", "ended"},
   url : MeetCalls, drained : Seq(MeetCalls), path : MeetCalls]
BotStates ==
  {[at |-> "idle"]} \cup [at : {"disconnect", "kill"}, join : MeetCalls]
  \cup [at : {"connect", "clear", "store"}, join : Meetings]
MeetSessions == [meeting : Meetings, inCall : BOOLEAN, lines : Nat]
MeetFiles == [known : BOOLEAN, lines : Nat, own : BOOLEAN]
MeetStatuses == {"absent", "waiting", "inCall", "old"}
MeetTypes ==
  /\ session \in {NoSession} \cup MeetSessions /\ loops \in Seq(LoopStates)
  /\ bots \in [Bots -> BotStates] /\ tab \in MeetCalls /\ captions \in Nat /\ mixed \in BOOLEAN
  /\ elsewhere \in [on : BOOLEAN, joins : Nat]
  /\ transcript \in [Meetings -> MeetFiles]
  /\ statusFile \in [Meetings -> MeetStatuses]

PastPage(i) == loops[i].at \notin {"navigate", "ended"}
SomeInCall == \E i \in DOMAIN loops : PastPage(i)

(* Whoever entered the call is told out of it by a loop that has got past  *)
(* the page, and it is the last thing such a loop does.                    *)
InCallHeld == Active /\ session.inCall => SomeInCall

(* Between the clearing of its files and its session nothing else is on,   *)
(* unless meetings are joined over others.                                 *)
StoreReady ==
  ~mixed => \A b \in Bots : bots[b].at = "store" =>
    /\ ~Active /\ Live = {}
    /\ transcript[bots[b].join] \in {EmptyFile, OldFile} /\ statusFile[bots[b].join] # "inCall"

(* And unless they are, nothing is on here while another tool's meeting is. *)
OthersAlone ==
  ~mixed /\ elsewhere.on => ~Active /\ Live = {} /\ \A b \in Bots : bots[b].at # "store"

(* What a loop holds is of the meeting m.                                  *)
LoopFits(l, m, page, waiting) ==
  /\ \A k \in DOMAIN l.drained : l.drained[k] = m
  /\ l.at = "append" => l.path = m
  /\ l.at = "navigate" => l.url = m
  /\ l.at \notin {"navigate", "final", "ended"} => page = m \/ (page = NoMeeting /\ waiting = 0)
LinesFit(log, s, counting) ==
  log.known => log.own /\ log.lines <= s.lines + (IF counting THEN 1 ELSE 0)

(* Unless meetings are joined over others, a session has its own loop only. *)
OneLoop ==
  ~mixed /\ Active =>
    /\ \A i, j \in Live : i = j
    /\ \A i \in Live : LoopFits(loops[i], session.meeting, tab, captions)
    /\ statusFile[session.meeting] = "inCall" => SomeInCall
    /\ LinesFit(transcript[session.meeting], session, \E i \in DOMAIN loops : loops[i].at = "count")

EntriesThere == \A i \in DOMAIN loops : loops[i].at \in {"entry", "append", "count"} => loops[i].drained # <<>>
MeetInv == MeetTypes /\ EntriesThere /\ InCallHeld /\ StoreReady /\ OthersAlone /\ OneLoop

LEMMA MeetInvInit == MeetInit => MeetInv
<1> SUFFICES ASSUME MeetInit PROVE MeetInv
  OBVIOUS
<1>1. MeetTypes
  <2>1. bots \in [Bots -> BotStates] /\ NoMeeting \in MeetCalls
    BY DEF MeetInit, BotStates, MeetCalls
  <2>2. EmptyFile \in MeetFiles
    BY DEF EmptyFile, MeetFiles
  <2>3. transcript \in [Meetings -> MeetFiles] /\ statusFile \in [Meetings -> MeetStatuses]
    BY <2>2 DEF MeetInit, MeetStatuses
  <2>4. loops \in Seq(LoopStates)
    BY DEF MeetInit
  <2> QED BY <2>1, <2>3, <2>4 DEF MeetInit, MeetTypes
<1>2. ~Active /\ DOMAIN loops = {}
  BY DEF MeetInit, Active
<1>3. \A b \in Bots : bots[b].at # "store"
  BY DEF MeetInit
<1> QED BY <1>1, <1>2, <1>3 DEF MeetInv, EntriesThere, InCallHeld, StoreReady, OthersAlone, Live, OneLoop

(* A session is one of a meeting or none.                                  *)
LEMMA ActiveIs ==
  /\ \A s \in MeetSessions : s # NoSession
  /\ MeetTypes /\ Active => session \in MeetSessions
BY DEF MeetSessions, NoSession, MeetTypes, Active

(* Steps of the tool that leave the loops and the files as they are.       *)
LEMMA BotKeeps ==
  ASSUME MeetInv, NEW b \in Bots, NEW next \in BotStates, BotDoes(b, next), next.at # "store",
         session' \in {session, NoSession}, UNCHANGED <<loops, transcript, statusFile, elsewhere, mixed>>,
         (tab' = tab /\ captions' = captions) \/ (tab' = NoMeeting /\ captions' = 0)
  PROVE  MeetInv'
<1>0. MeetTypes /\ EntriesThere /\ InCallHeld /\ StoreReady /\ OthersAlone /\ OneLoop
  BY Zenon DEF MeetInv
<1>1. bots' \in [Bots -> BotStates] /\ bots'[b] = next /\ \A c \in Bots : c # b => bots'[c] = bots[c]
  BY <1>0 DEF BotDoes, MeetTypes
<1>2. MeetTypes'
  BY <1>0, <1>1 DEF MeetTypes, MeetCalls
<1>3. Active' => Active /\ session' = session
  BY DEF Active
<1>4. EntriesThere' /\ InCallHeld'
  BY <1>0, <1>3 DEF EntriesThere, InCallHeld, SomeInCall, PastPage
<1>5. StoreReady' /\ OthersAlone'
  BY <1>0, <1>1, <1>3 DEF StoreReady, OthersAlone, Live
<1>6. OneLoop'
  BY <1>0, <1>3 DEF OneLoop, Live, LoopFits, SomeInCall, PastPage
<1> QED BY <1>2, <1>4, <1>5, <1>6, Zenon DEF MeetInv

(* What fitted the session still does.                                     *)
StillFits(i, r) ==
  ~mixed /\ Active /\ LoopFits(loops[i], session.meeting, tab, captions)
    /\ LinesFit(transcript[session.meeting], session, loops[i].at = "count")
  => /\ LoopFits(r, session.meeting, tab', captions')
     /\ LinesFit(transcript'[session.meeting], session', r.at = "count")
     /\ statusFile'[session.meeting] = "inCall" =>
          r.at # "ended" \/ (statusFile[session.meeting] = "inCall" /\ loops[i].at = "navigate")

(* A loop i that goes on as r, while the session stays that of its meeting. *)
LEMMA LoopKeeps ==
  ASSUME MeetInv, NEW i \in DOMAIN loops, NEW r \in LoopStates, loops[i].at # "ended", r.at # "navigate",
         loops' = [loops EXCEPT ![i] = r], UNCHANGED <<bots, elsewhere, mixed>>, MeetTypes',
         r.at \in {"entry", "append", "count"} => r.drained # <<>>,
         Active' <=> Active, Active => session'.meeting = session.meeting,
         Active /\ session'.inCall => r.at # "ended" \/ (session.inCall /\ loops[i].at = "navigate"),
         StillFits(i, r)
  PROVE  MeetInv'
<1>0. MeetTypes /\ EntriesThere /\ InCallHeld /\ StoreReady /\ OthersAlone /\ OneLoop
  BY Zenon DEF MeetInv
<1>1. /\ DOMAIN loops' = DOMAIN loops /\ loops'[i] = r
      /\ \A j \in DOMAIN loops : j # i => loops'[j] = loops[j]
  BY <1>0 DEF MeetTypes
<1>2. i \in Live
  BY DEF Live
<1>3. EntriesThere'
  BY <1>0, <1>1 DEF EntriesThere
<1>4. StoreReady' /\ OthersAlone'
  BY <1>0, <1>2 DEF StoreReady, OthersAlone
<1>5. SomeInCall => SomeInCall' \/ (r.at = "ended" /\ loops[i].at # "navigate")
  BY <1>1 DEF SomeInCall, PastPage
<1>6. r.at # "ended" => SomeInCall'
  BY <1>1 DEF SomeInCall, PastPage
<1>7. InCallHeld'
  BY <1>0, <1>5, <1>6 DEF InCallHeld
<1>8. ASSUME ~mixed, Active PROVE OneLoop'
  <2>1. /\ \A j \in Live : j = i
        /\ LoopFits(loops[i], session.meeting, tab, captions)
        /\ statusFile[session.meeting] = "inCall" => SomeInCall
        /\ LinesFit(transcript[session.meeting], session, \E j \in DOMAIN loops : loops[j].at = "count")
    BY <1>0, <1>2, <1>8 DEF OneLoop
  <2>2. \A j \in DOMAIN loops : j # i => loops[j].at = "ended"
    BY <2>1 DEF Live
  <2>3. (\E j \in DOMAIN loops : loops[j].at = "count") <=> loops[i].at = "count"
    BY <2>2
  <2>4. (\E j \in DOMAIN loops' : loops'[j].at = "count") <=> r.at = "count"
    BY <1>1, <2>2
  <2>5. LinesFit(transcript[session.meeting], session, loops[i].at = "count")
    BY <2>1, <2>3 DEF LinesFit
  <2>6. /\ LoopFits(r, session.meeting, tab', captions')
        /\ LinesFit(transcript'[session.meeting], session', r.at = "count")
        /\ statusFile'[session.meeting] = "inCall" =>
             r.at # "ended" \/ (statusFile[session.meeting] = "inCall" /\ loops[i].at = "navigate")
    BY <1>8, <2>1, <2>5 DEF StillFits
  <2>7. \A j \in Live' : j = i
    BY <1>1, <2>2 DEF Live
  <2>8. LinesFit(transcript'[session'.meeting], session', \E j \in DOMAIN loops' : loops'[j].at = "count")
    BY <1>8, <2>4, <2>6 DEF LinesFit
  <2>9. \A j \in Live' : LoopFits(loops'[j], session'.meeting, tab', captions')
    BY <1>1, <1>8, <2>6, <2>7, Zenon
  <2>10. statusFile'[session'.meeting] = "inCall" => SomeInCall'
    BY <1>5, <1>6, <1>8, <2>1, <2>6
  <2> QED BY <2>7, <2>8, <2>9, <2>10, Zenon DEF OneLoop
<1>9. ~(~mixed /\ Active) => OneLoop'
  BY DEF OneLoop
<1> QED BY <1>0, <1>3, <1>4, <1>7, <1>8, <1>9, Zenon DEF MeetInv

(* What Loop makes of a loop.                                              *)
LEMMA LoopIs ==
  ASSUME MeetTypes, NEW i \in DOMAIN loops, NEW next \in {"sleep", "admitted", "drain", "entry", "append", "count", "flush", "leave", "final", "ended"}, Loop(i, next)
  PROVE  \E r \in LoopStates :
           /\ loops' = [loops EXCEPT ![i] = r] /\ loops' \in Seq(LoopStates)
           /\ r.at = next /\ r.path = loops[i].path
           /\ r.drained = IF next = "ended" THEN <<>> ELSE loops[i].drained
<1>1. loops[i] \in LoopStates
  BY DEF MeetTypes
<1> DEFINE r == [at |-> next, url |-> NoMeeting, path |-> loops[i].path,
                 drained |-> IF next = "ended" THEN <<>> ELSE loops[i].drained]
<1>2. r \in LoopStates
  BY <1>1 DEF LoopStates, MeetCalls
<1>3. loops' = [loops EXCEPT ![i] = r]
  <2> DEFINE q == [loops[i] EXCEPT !.at = next, !.url = NoMeeting, !.drained = IF next = "ended" THEN <<>> ELSE @]
  <2>1. q = r
    <3>1. PICK l : l = loops[i]
      OBVIOUS
    <3>2. PICK x : x = [l EXCEPT !.at = next]
      OBVIOUS
    <3>3. x \in LoopStates /\ x.at = next /\ x.drained = l.drained /\ x.path = l.path
      BY <1>1, <3>1, <3>2 DEF LoopStates
    <3>4. PICK y : y = [x EXCEPT !.url = NoMeeting]
      OBVIOUS
    <3>5. y \in LoopStates /\ y.at = next /\ y.url = NoMeeting /\ y.drained = l.drained /\ y.path = l.path
      BY <3>3, <3>4 DEF LoopStates, MeetCalls
    <3>6. PICK z : z = [y EXCEPT !.drained = IF next = "ended" THEN <<>> ELSE y.drained]
      OBVIOUS
    <3>7. z = [at |-> next, url |-> NoMeeting, path |-> l.path, drained |-> IF next = "ended" THEN <<>> ELSE l.drained]
      BY <3>5, <3>6 DEF LoopStates
    <3> QED BY <3>1, <3>2, <3>4, <3>6, <3>7, Zenon
  <2>2. loops' = [loops EXCEPT ![i] = q]
    <3>1. DOMAIN loops = 1 .. Len(loops)
      BY DEF MeetTypes
    <3> QED BY <1>1, <3>1 DEF Loop
  <2> QED BY <2>1, <2>2, Zenon
<1>4. loops' \in Seq(LoopStates)
  BY <1>2, <1>3 DEF MeetTypes
<1> QED BY <1>2, <1>3, <1>4

(* A loop that goes on with all else unchanged.                            *)
LEMMA LoopGoesOn ==
  ASSUME MeetInv, NEW i \in DOMAIN loops, NEW next \in {"sleep", "admitted", "drain", "flush", "leave", "final", "ended"}, Loop(i, next),
         loops[i].at \notin {"ended", "count", "final"}, loops[i].at = "navigate" => next = "ended",
         next = "ended" => loops[i].at = "navigate",
         UNCHANGED <<session, bots, tab, captions, transcript, statusFile, elsewhere, mixed>>
  PROVE  MeetInv'
<1>0. MeetTypes
  BY Zenon DEF MeetInv
<1>1. PICK r \in LoopStates :
           /\ loops' = [loops EXCEPT ![i] = r] /\ loops' \in Seq(LoopStates)
           /\ r.at = next /\ r.path = loops[i].path
           /\ r.drained = IF next = "ended" THEN <<>> ELSE loops[i].drained
  BY <1>0, LoopIs
<1>2. MeetTypes'
  BY <1>0, <1>1 DEF MeetTypes
<1>3. \A m : LoopFits(loops[i], m, tab, captions) => LoopFits(r, m, tab, captions)
  BY <1>1 DEF LoopFits
<1>20. StillFits(i, r)
  BY <1>1, <1>2, <1>3 DEF StillFits, LinesFit
<1> QED BY <1>1, <1>2, <1>3, <1>20, LoopKeeps DEF Active

LEMMA EntriesIs ==
  ASSUME MeetTypes, NEW i \in DOMAIN loops, NEW drained \in Seq(MeetCalls), loops' = Entries(i, drained)
  PROVE  \E r \in LoopStates :
           /\ loops' = [loops EXCEPT ![i] = r] /\ loops' \in Seq(LoopStates)
           /\ r.at = (IF drained = <<>> THEN "flush" ELSE "entry") /\ r.drained = drained
<1>1. loops[i] \in LoopStates /\ DOMAIN loops = 1 .. Len(loops)
  BY DEF MeetTypes
<1>2. PICK next : next = IF drained = <<>> THEN "flush" ELSE "entry"
  OBVIOUS
<1>3. PICK r : r = [loops[i] EXCEPT !.drained = drained, !.path = NoMeeting, !.at = next]
  OBVIOUS
<1>4. r \in LoopStates /\ r.at = next /\ r.drained = drained
  BY <1>1, <1>2, <1>3 DEF LoopStates, MeetCalls
<1>5. loops' = [loops EXCEPT ![i].drained = drained, ![i].path = NoMeeting, ![i].at = next]
  BY <1>2, Zenon DEF Entries
<1>6. loops' = [loops EXCEPT ![i] = r]
  BY <1>1, <1>3, <1>5
<1>7. loops' \in Seq(LoopStates)
  BY <1>4, <1>6 DEF MeetTypes
<1> QED BY <1>2, <1>4, <1>6, <1>7

LEMMA AdmittedKeeps == ASSUME MeetInv, NEW i \in DOMAIN loops, Admitted(i) PROVE MeetInv'
<1>0. MeetTypes
  BY Zenon DEF MeetInv
<1>1. PICK next \in {"drain", "leave"} : Loop(i, next)
  BY Zenon DEF Admitted
<1>2. PICK r \in LoopStates :
           /\ loops' = [loops EXCEPT ![i] = r] /\ loops' \in Seq(LoopStates)
           /\ r.at = next /\ r.path = loops[i].path /\ r.drained = IF next = "ended" THEN <<>> ELSE loops[i].drained
  BY <1>0, <1>1, LoopIs
<1>3. /\ loops[i].at = "admitted" /\ session' = IF Active THEN [session EXCEPT !.inCall = TRUE] ELSE session
      /\ UNCHANGED <<bots, tab, captions, transcript, statusFile, elsewhere, mixed>>
  BY DEF Admitted
<1>4. /\ session' \in {NoSession} \cup MeetSessions /\ (Active' <=> Active)
      /\ Active => session'.meeting = session.meeting /\ session'.lines = session.lines
  BY <1>0, <1>3, ActiveIs DEF Active, MeetSessions
<1>5. MeetTypes'
  BY <1>0, <1>2, <1>3, <1>4 DEF MeetTypes
<1>6. \A m : LoopFits(loops[i], m, tab, captions) => LoopFits(r, m, tab', captions')
  BY <1>1, <1>2, <1>3 DEF LoopFits
<1>7. \A f : Active /\ LinesFit(f, session, loops[i].at = "count") => LinesFit(f, session', r.at = "count")
  BY <1>1, <1>2, <1>3, <1>4 DEF LinesFit
<1>20. StillFits(i, r)
  BY <1>1, <1>2, <1>3, <1>4, <1>5, <1>6, <1>7 DEF StillFits
<1> QED BY <1>1, <1>2, <1>3, <1>4, <1>5, <1>6, <1>7, <1>20, LoopKeeps

LEMMA DrainKeeps == ASSUME MeetInv, NEW i \in DOMAIN loops, Drain(i) PROVE MeetInv'
<1>0. MeetTypes
  BY Zenon DEF MeetInv
<1>1. loops[i].at = "drain" /\ UNCHANGED <<session, bots, tab, transcript, statusFile, elsewhere, mixed>>
  BY DEF Drain
<1>2. CASE Loop(i, "flush") /\ UNCHANGED captions
  BY <1>1, <1>2, LoopGoesOn
<1>3. CASE loops' = Entries(i, [k \in 1 .. captions |-> tab]) /\ captions' = 0
  <2>1. PICK d : d = [k \in 1 .. captions |-> tab]
    OBVIOUS
  <2>2. d \in Seq(MeetCalls) /\ DOMAIN d = 1 .. captions /\ \A k \in 1 .. captions : d[k] = tab
    BY <1>0, <2>1 DEF MeetTypes
  <2>3. PICK r \in LoopStates :
           /\ loops' = [loops EXCEPT ![i] = r] /\ loops' \in Seq(LoopStates)
           /\ r.at = (IF d = <<>> THEN "flush" ELSE "entry") /\ r.drained = d
    BY <1>0, <1>3, <2>1, <2>2, EntriesIs
  <2>4. MeetTypes'
    BY <1>0, <1>1, <1>3, <2>3 DEF MeetTypes
  <2>5. \A m : LoopFits(loops[i], m, tab, captions) => LoopFits(r, m, tab', captions')
    BY <1>1, <1>3, <2>2, <2>3 DEF LoopFits
  <2>20. StillFits(i, r)
    BY <1>1, <1>3, <2>3, <2>4, <2>5 DEF StillFits, LinesFit
  <2> QED BY <1>1, <1>3, <2>3, <2>4, <2>5, <2>20, LoopKeeps DEF Active
<1> QED BY <1>2, <1>3 DEF Drain

(* The entry at the head is done with.                                     *)
LEMMA EntryDone ==
  ASSUME MeetInv, NEW i \in DOMAIN loops, loops[i].at \in {"entry", "count"}, loops' = Entries(i, Tail(loops[i].drained)),
         UNCHANGED <<bots, tab, captions, transcript, statusFile, elsewhere, mixed>>,
         (session' = session /\ (Active => loops[i].at = "entry"))
           \/ session' = IF Active THEN [session EXCEPT !.lines = @ + 1] ELSE session
  PROVE  MeetInv'
<1>0. MeetTypes /\ EntriesThere
  BY Zenon DEF MeetInv
<1>1. loops[i].drained \in Seq(MeetCalls) /\ loops[i].drained # <<>>
  <2>1. loops[i] \in LoopStates
    BY <1>0 DEF MeetTypes
  <2> QED BY <1>0, <2>1 DEF EntriesThere, LoopStates
<1>2. PICK d : d = Tail(loops[i].drained)
  OBVIOUS
<1>3. d \in Seq(MeetCalls) /\ \A k \in DOMAIN d : k + 1 \in DOMAIN loops[i].drained /\ d[k] = loops[i].drained[k + 1]
  BY <1>1, <1>2
<1>4. PICK r \in LoopStates :
           /\ loops' = [loops EXCEPT ![i] = r] /\ loops' \in Seq(LoopStates)
           /\ r.at = (IF d = <<>> THEN "flush" ELSE "entry") /\ r.drained = d
  BY <1>0, <1>2, <1>3, EntriesIs
<1>5. /\ session' \in {NoSession} \cup MeetSessions /\ (Active' <=> Active)
      /\ Active => /\ session'.meeting = session.meeting /\ session'.inCall = session.inCall
                   /\ session'.lines >= session.lines + IF loops[i].at = "count" THEN 1 ELSE 0
  BY <1>0, ActiveIs DEF Active, MeetSessions, MeetTypes
<1>6. MeetTypes'
  BY <1>0, <1>4, <1>5 DEF MeetTypes
<1>7. \A m : LoopFits(loops[i], m, tab, captions) => LoopFits(r, m, tab', captions')
  BY <1>3, <1>4 DEF LoopFits
<1>8. Active /\ LinesFit(transcript[session.meeting], session, loops[i].at = "count")
        => LinesFit(transcript'[session.meeting], session', r.at = "count")
  <2> SUFFICES ASSUME Active, LinesFit(transcript[session.meeting], session, loops[i].at = "count")
               PROVE  LinesFit(transcript'[session.meeting], session', r.at = "count")
    OBVIOUS
  <2>1. session \in MeetSessions /\ session' \in MeetSessions
    BY <1>0, <1>5, ActiveIs DEF Active
  <2>2. transcript[session.meeting] \in MeetFiles
    BY <1>0, <2>1 DEF MeetTypes, MeetSessions
  <2> QED BY <1>4, <1>5, <2>1, <2>2 DEF LinesFit, MeetSessions, MeetFiles
<1>20. StillFits(i, r)
  BY <1>4, <1>5, <1>6, <1>7, <1>8 DEF StillFits
<1> QED BY <1>4, <1>5, <1>6, <1>7, <1>8, <1>20, LoopKeeps

LEMMA NextEntryKeeps == ASSUME MeetInv, NEW i \in DOMAIN loops, NextEntry(i) PROVE MeetInv'
<1>0. MeetTypes /\ EntriesThere
  BY Zenon DEF MeetInv
<1>1. loops[i].at = "entry" /\ UNCHANGED <<session, bots, tab, captions, transcript, statusFile, elsewhere, mixed>>
  BY DEF NextEntry
<1>2. CASE ~Active
  BY <1>1, <1>2, EntryDone DEF NextEntry
<1>3. CASE Active
  <2>1. loops' = [loops EXCEPT ![i].path = session.meeting, ![i].at = "append"]
    BY <1>3 DEF NextEntry
  <2>2. PICK r : r = [loops[i] EXCEPT !.path = session.meeting, !.at = "append"]
    OBVIOUS
  <2>3. loops[i] \in LoopStates /\ session.meeting \in Meetings /\ loops[i].drained # <<>>
    BY <1>0, <1>1, <1>3, ActiveIs DEF MeetTypes, MeetSessions, EntriesThere
  <2>4. r \in LoopStates /\ r.at = "append" /\ r.path = session.meeting /\ r.drained = loops[i].drained
    BY <2>2, <2>3 DEF LoopStates, MeetCalls
  <2>5. loops' = [loops EXCEPT ![i] = r]
    BY <1>0, <2>1, <2>2 DEF MeetTypes
  <2>6. loops' \in Seq(LoopStates)
    BY <1>0, <2>4, <2>5 DEF MeetTypes
  <2>7. MeetTypes'
    BY <1>0, <1>1, <2>6 DEF MeetTypes
  <2>8. LoopFits(loops[i], session.meeting, tab, captions) => LoopFits(r, session.meeting, tab', captions')
    BY <1>1, <2>4 DEF LoopFits
  <2>20. StillFits(i, r)
    BY <1>1, <2>3, <2>4, <2>5, <2>7, <2>8 DEF StillFits, LinesFit
  <2> QED BY <1>1, <2>3, <2>4, <2>5, <2>7, <2>8, <2>20, LoopKeeps DEF Active
<1> QED BY <1>2, <1>3

LEMMA CountLineKeeps == ASSUME MeetInv, NEW i \in DOMAIN loops, CountLine(i) PROVE MeetInv'
BY EntryDone DEF CountLine

LEMMA AppendLineKeeps == ASSUME MeetInv, NEW i \in DOMAIN loops, AppendLine(i) PROVE MeetInv'
<1>0. MeetTypes /\ EntriesThere
  BY Zenon DEF MeetInv
<1>1. PICK m : m = loops[i].path
  OBVIOUS
<1>2. PICK line : line = [known |-> TRUE, lines |-> transcript[m].lines + 1,
                         own |-> transcript[m].own /\ Head(loops[i].drained) = m]
  OBVIOUS
<1>3. /\ loops[i].at = "append" /\ Loop(i, "count")
      /\ \/ transcript[m].known /\ transcript' = [transcript EXCEPT ![m] = line]
         \/ transcript' = transcript
      /\ UNCHANGED <<session, bots, tab, captions, statusFile, elsewhere, mixed>>
  BY <1>1, <1>2 DEF AppendLine
<1>4. loops[i].drained \in Seq(MeetCalls) /\ loops[i].drained # <<>>
  <2>1. loops[i] \in LoopStates
    BY <1>0 DEF MeetTypes
  <2> QED BY <1>0, <1>3, <2>1 DEF EntriesThere, LoopStates
<1>5. PICK r \in LoopStates :
           /\ loops' = [loops EXCEPT ![i] = r] /\ loops' \in Seq(LoopStates)
           /\ r.at = "count" /\ r.path = loops[i].path
           /\ r.drained = IF "count" = "ended" THEN <<>> ELSE loops[i].drained
  BY <1>0, <1>3, LoopIs
<1>6. m \in Meetings =>
        /\ transcript[m] \in MeetFiles /\ line \in MeetFiles
        /\ line.lines = transcript[m].lines + 1 /\ line.own = (transcript[m].own /\ Head(loops[i].drained) = m)
  <2>1. m \in Meetings => transcript[m] \in MeetFiles
    BY <1>0 DEF MeetTypes
  <2> QED BY <1>2, <2>1 DEF MeetFiles
<1>7. transcript' \in [Meetings -> MeetFiles]
  BY <1>0, <1>3, <1>6 DEF MeetTypes
<1>8. MeetTypes'
  BY <1>0, <1>3, <1>5, <1>7 DEF MeetTypes
<1>9. \A n : LoopFits(loops[i], n, tab, captions) => LoopFits(r, n, tab', captions')
  BY <1>3, <1>5 DEF LoopFits
<1>10. ASSUME Active, LoopFits(loops[i], session.meeting, tab, captions),
              LinesFit(transcript[session.meeting], session, loops[i].at = "count")
       PROVE  LinesFit(transcript'[session.meeting], session', r.at = "count")
  <2>1. session \in MeetSessions /\ session.meeting \in Meetings /\ session.lines \in Nat
    BY <1>0, <1>10, ActiveIs DEF MeetSessions
  <2>2. m = session.meeting /\ Head(loops[i].drained) = m
    BY <1>1, <1>3, <1>4, <1>10 DEF LoopFits
  <2>3. CASE transcript' = transcript
    <3>1. transcript[m].lines \in Nat
      BY <1>6, <2>1, <2>2 DEF MeetFiles
    <3> QED BY <1>3, <1>5, <1>10, <2>1, <2>2, <2>3, <3>1 DEF LinesFit
  <2>4. CASE transcript[m].known /\ transcript' = [transcript EXCEPT ![m] = line]
    <3>1. transcript[m].lines \in Nat /\ transcript[m].own /\ transcript[m].lines <= session.lines
      BY <1>3, <1>6, <1>10, <2>1, <2>2, <2>4 DEF LinesFit, MeetFiles
    <3>2. line.own /\ line.lines = transcript[m].lines + 1
      BY <1>6, <2>1, <2>2, <3>1
    <3>3. transcript'[m] = line
      BY <1>0, <2>1, <2>2, <2>4 DEF MeetTypes
    <3> QED BY <1>3, <1>5, <2>1, <2>2, <3>1, <3>2, <3>3 DEF LinesFit
  <2> QED BY <1>3, <2>3, <2>4
<1>20. StillFits(i, r)
  BY <1>3, <1>4, <1>5, <1>8, <1>9, <1>10 DEF StillFits
<1> QED BY <1>3, <1>4, <1>5, <1>8, <1>9, <1>10, <1>20, LoopKeeps DEF Active

(* What a flush makes of the status files.                                 *)
LEMMA SavedIs ==
  ASSUME MeetTypes, NEW m \in Meetings, NEW status \in MeetStatuses, SaveIn(m, status)
  PROVE  statusFile' \in [Meetings -> MeetStatuses] /\ statusFile'[m] \in {status, "old"}
BY DEF SaveIn, MeetTypes, MeetStatuses

LEMMA StatusIs ==
  ASSUME MeetTypes, NEW s \in {NoSession} \cup MeetSessions, SaveStatus(s)
  PROVE  /\ statusFile' \in [Meetings -> MeetStatuses]
         /\ s # NoSession => statusFile'[s.meeting] \in {IF s.inCall THEN "inCall" ELSE "waiting", "old"}
<1>1. CASE s = NoSession
  BY <1>1 DEF SaveStatus, MeetTypes
<1>2. CASE s # NoSession
  <2>1. s.meeting \in Meetings /\ (IF s.inCall THEN "inCall" ELSE "waiting") \in MeetStatuses
    BY <1>2 DEF MeetSessions, MeetStatuses
  <2> QED BY <1>2, <2>1, SavedIs DEF SaveStatus
<1> QED BY <1>1, <1>2

LEMMA FlushStatusKeeps == ASSUME MeetInv, NEW i \in DOMAIN loops, FlushStatus(i) PROVE MeetInv'
<1>0. MeetTypes
  BY Zenon DEF MeetInv
<1>1. /\ loops[i].at = "flush" /\ SaveStatus(session) /\ Loop(i, "sleep")
      /\ UNCHANGED <<session, bots, tab, captions, transcript, elsewhere, mixed>>
  BY DEF FlushStatus
<1>2. PICK r \in LoopStates :
           /\ loops' = [loops EXCEPT ![i] = r] /\ loops' \in Seq(LoopStates)
           /\ r.at = "sleep" /\ r.path = loops[i].path
           /\ r.drained = IF "sleep" = "ended" THEN <<>> ELSE loops[i].drained
  BY <1>0, <1>1, LoopIs
<1>3. statusFile' \in [Meetings -> MeetStatuses]
  BY <1>0, <1>1, StatusIs DEF MeetTypes
<1>4. MeetTypes'
  BY <1>0, <1>1, <1>2, <1>3 DEF MeetTypes
<1>5. \A m : LoopFits(loops[i], m, tab, captions) => LoopFits(r, m, tab', captions')
  BY <1>1, <1>2 DEF LoopFits
<1>20. StillFits(i, r)
  BY <1>1, <1>2, <1>4, <1>5 DEF StillFits, LinesFit
<1> QED BY <1>1, <1>2, <1>4, <1>5, <1>20, LoopKeeps DEF Active

LEMMA ClickLeaveKeeps == ASSUME MeetInv, NEW i \in DOMAIN loops, ClickLeave(i) PROVE MeetInv'
<1>0. MeetTypes
  BY Zenon DEF MeetInv
<1>1. /\ loops[i].at = "leave" /\ tab' \in MeetCalls /\ Loop(i, "final")
      /\ UNCHANGED <<session, bots, captions, transcript, statusFile, elsewhere, mixed>>
  BY <1>0 DEF ClickLeave, MeetTypes, MeetCalls
<1>2. PICK r \in LoopStates :
           /\ loops' = [loops EXCEPT ![i] = r] /\ loops' \in Seq(LoopStates)
           /\ r.at = "final" /\ r.path = loops[i].path
           /\ r.drained = IF "final" = "ended" THEN <<>> ELSE loops[i].drained
  BY <1>0, <1>1, LoopIs
<1>3. MeetTypes'
  BY <1>0, <1>1, <1>2 DEF MeetTypes
<1>4. \A m : LoopFits(loops[i], m, tab, captions) => LoopFits(r, m, tab', captions')
  BY <1>1, <1>2 DEF LoopFits
<1>20. StillFits(i, r)
  BY <1>1, <1>2, <1>3, <1>4 DEF StillFits, LinesFit
<1> QED BY <1>1, <1>2, <1>3, <1>4, <1>20, LoopKeeps DEF Active

LEMMA FinalStatusKeeps == ASSUME MeetInv, NEW i \in DOMAIN loops, FinalStatus(i) PROVE MeetInv'
<1>0. MeetTypes
  BY Zenon DEF MeetInv
<1>1. /\ loops[i].at = "final" /\ SaveStatus(session') /\ Loop(i, "ended")
      /\ session' = IF Active THEN [session EXCEPT !.inCall = FALSE] ELSE session
      /\ UNCHANGED <<bots, tab, captions, transcript, elsewhere, mixed>>
  BY DEF FinalStatus
<1>2. PICK r \in LoopStates :
           /\ loops' = [loops EXCEPT ![i] = r] /\ loops' \in Seq(LoopStates)
           /\ r.at = "ended" /\ r.path = loops[i].path
           /\ r.drained = IF "ended" = "ended" THEN <<>> ELSE loops[i].drained
  BY <1>0, <1>1, LoopIs
<1>3. /\ session' \in {NoSession} \cup MeetSessions /\ (Active' <=> Active)
      /\ Active => session'.meeting = session.meeting /\ session'.lines = session.lines /\ ~session'.inCall
  BY <1>0, <1>1, ActiveIs DEF Active, MeetSessions
<1>4. /\ statusFile' \in [Meetings -> MeetStatuses]
      /\ Active => statusFile'[session.meeting] \in {"waiting", "old"}
  BY <1>0, <1>1, <1>3, StatusIs DEF Active
<1>5. MeetTypes'
  BY <1>0, <1>1, <1>2, <1>3, <1>4 DEF MeetTypes
<1>6. \A m : LoopFits(loops[i], m, tab, captions) => LoopFits(r, m, tab', captions')
  BY <1>1, <1>2 DEF LoopFits
<1>7. \A f : Active /\ LinesFit(f, session, loops[i].at = "count") => LinesFit(f, session', r.at = "count")
  BY <1>1, <1>2, <1>3 DEF LinesFit
<1>20. StillFits(i, r)
  BY <1>1, <1>2, <1>3, <1>4, <1>5, <1>6, <1>7 DEF StillFits
<1> QED BY <1>1, <1>2, <1>3, <1>4, <1>5, <1>6, <1>7, <1>20, LoopKeeps

LEMMA NavigateKeeps == ASSUME MeetInv, NEW i \in DOMAIN loops, Navigate(i) PROVE MeetInv'
<1>0. MeetTypes
  BY Zenon DEF MeetInv
<1>1. /\ loops[i].at = "navigate" /\ UNCHANGED <<session, bots, transcript, statusFile, elsewhere, mixed>>
      /\ \/ Loop(i, "ended") /\ UNCHANGED <<tab, captions>>
         \/ /\ \E next \in {"ended", "sleep"} : Loop(i, next)
            /\ tab' = loops[i].url /\ captions' = 0
  BY DEF Navigate
<1>2. CASE Loop(i, "ended") /\ UNCHANGED <<tab, captions>>
  BY <1>1, <1>2, LoopGoesOn
<1>3. ASSUME NEW next \in {"ended", "sleep"}, Loop(i, next), tab' = loops[i].url /\ captions' = 0 PROVE MeetInv'
  <2>1. PICK r \in LoopStates :
           /\ loops' = [loops EXCEPT ![i] = r] /\ loops' \in Seq(LoopStates)
           /\ r.at = next /\ r.path = loops[i].path
           /\ r.drained = IF next = "ended" THEN <<>> ELSE loops[i].drained
    BY <1>0, <1>3, LoopIs
  <2>2. loops[i].url \in MeetCalls
    <3>1. loops[i] \in LoopStates
      BY <1>0 DEF MeetTypes
    <3> QED BY <3>1 DEF LoopStates
  <2>3. MeetTypes'
    BY <1>0, <1>1, <1>3, <2>1, <2>2 DEF MeetTypes
  <2>4. \A m : LoopFits(loops[i], m, tab, captions) => LoopFits(r, m, tab', captions')
    BY <1>1, <1>3, <2>1 DEF LoopFits
  <2>20. StillFits(i, r)
    BY <1>1, <1>3, <2>1, <2>3, <2>4 DEF StillFits, LinesFit
  <2> QED BY <1>1, <1>3, <2>1, <2>3, <2>4, <2>20, LoopKeeps DEF Active
<1> QED BY <1>1, <1>2, <1>3

LEMMA PollKeeps == ASSUME MeetInv, NEW i \in DOMAIN loops, Poll(i) PROVE MeetInv'
BY LoopGoesOn DEF Poll

(* Someone speaks, and only in a page that is open; the page is another     *)
(* tool's while nothing is on here.                                        *)
LEMMA PageKeeps ==
  ASSUME MeetInv, UNCHANGED <<session, loops, bots, transcript, statusFile, elsewhere, mixed>>,
         \/ tab' = NoMeeting /\ captions' = 0
         \/ tab # NoMeeting /\ tab' = tab /\ captions' = captions + 1
         \/ elsewhere.on /\ tab' \in MeetCalls /\ captions' = 0
  PROVE  MeetInv'
<1>0. MeetTypes /\ EntriesThere /\ InCallHeld /\ StoreReady /\ OthersAlone /\ OneLoop
  BY Zenon DEF MeetInv
<1>1. MeetTypes'
  BY <1>0 DEF MeetTypes, MeetCalls
<1>2. EntriesThere' /\ InCallHeld' /\ StoreReady' /\ OthersAlone'
  BY <1>0 DEF EntriesThere, InCallHeld, StoreReady, OthersAlone, SomeInCall, PastPage, Active, Live
<1>3. ~elsewhere.on => \A l, m : LoopFits(l, m, tab, captions) => LoopFits(l, m, tab', captions')
  BY DEF LoopFits
<1>4. CASE ~elsewhere.on
  <2>1. OneLoop'
    BY <1>0, <1>3, <1>4 DEF OneLoop, Active, Live, SomeInCall, PastPage
  <2> QED BY <1>1, <1>2, <2>1, Zenon DEF MeetInv
<1>5. CASE elsewhere.on
  <2>1. OneLoop'
    BY <1>0, <1>5 DEF OthersAlone, OneLoop, Active
  <2> QED BY <1>1, <1>2, <2>1, Zenon DEF MeetInv
<1> QED BY <1>4, <1>5

(* Another tool begins or ends a meeting, or touches the files.            *)
LEMMA OthersKeep ==
  ASSUME MeetInv, UNCHANGED <<session, loops, bots, tab, captions>>, elsewhere' \in [on : BOOLEAN, joins : Nat], mixed' \in BOOLEAN,
         mixed => mixed', ~elsewhere.on \/ UNCHANGED <<elsewhere, mixed>> \/ (~elsewhere'.on /\ UNCHANGED mixed),
         ~elsewhere.on /\ ~mixed' => ~Active /\ Live = {} /\ \A b \in Bots : bots[b].at # "store",
         transcript' \in [Meetings -> MeetFiles], statusFile' \in [Meetings -> MeetStatuses],
         elsewhere.on \/ UNCHANGED <<transcript, statusFile>>
  PROVE  MeetInv'
<1>0. MeetTypes /\ EntriesThere /\ InCallHeld /\ StoreReady /\ OthersAlone /\ OneLoop
  BY Zenon DEF MeetInv
<1>1. MeetTypes'
  BY <1>0 DEF MeetTypes
<1>2. EntriesThere' /\ InCallHeld'
  BY <1>0 DEF EntriesThere, InCallHeld, SomeInCall, PastPage, Active
<1>3. ~mixed' => ~mixed /\ ~Active /\ Live = {} /\ \A b \in Bots : bots[b].at # "store"
  BY <1>0 DEF OthersAlone
<1>4. StoreReady' /\ OthersAlone' /\ OneLoop'
  BY <1>3 DEF StoreReady, OthersAlone, OneLoop, Active, Live
<1> QED BY <1>1, <1>2, <1>4, Zenon DEF MeetInv

LEMMA OthersDo == ASSUME MeetInv, OthersBegin \/ OthersEnd \/ OthersPage \/ OthersFiles PROVE MeetInv'
<1>0. MeetTypes
  BY Zenon DEF MeetInv
<1>1. CASE OthersBegin
  <2>1. elsewhere' \in [on : BOOLEAN, joins : Nat] /\ mixed' \in BOOLEAN
    BY <1>0, <1>1 DEF OthersBegin, MeetTypes
  <2> QED BY <1>0, <1>1, <2>1, OthersKeep DEF OthersBegin, MeetTypes
<1>2. CASE OthersEnd
  <2>1. elsewhere' \in [on : BOOLEAN, joins : Nat] /\ ~elsewhere'.on
    BY <1>0, <1>2 DEF OthersEnd, MeetTypes
  <2> QED BY <1>0, <1>2, <2>1, OthersKeep DEF OthersEnd, MeetTypes
<1>3. CASE OthersPage
  <2>1. tab' \in MeetCalls
    <3>1. OthersWant \subseteq Meetings
      BY DEF Meetings
    <3>2. tab \in MeetCalls /\ tab' \in OthersWant \cup {NoMeeting, tab}
      BY <1>0, <1>3 DEF OthersPage, MeetTypes
    <3> QED BY <3>1, <3>2 DEF MeetCalls
  <2> QED BY <1>3, <2>1, PageKeeps DEF OthersPage
<1>4. CASE OthersFiles
  <2>1. PICK m \in OthersWant : /\ transcript' = [transcript EXCEPT ![m] = OldFile]
                                /\ statusFile' = [statusFile EXCEPT ![m] = "old"]
    BY <1>4 DEF OthersFiles
  <2>2. transcript' \in [Meetings -> MeetFiles] /\ statusFile' \in [Meetings -> MeetStatuses]
    BY <1>0, <2>1 DEF MeetTypes, MeetFiles, MeetStatuses, OldFile
  <2> QED BY <1>0, <1>4, <2>2, OthersKeep DEF OthersFiles, MeetTypes
<1> QED BY <1>1, <1>2, <1>3, <1>4

LEMMA BotsAre ==
  ASSUME MeetTypes, NEW b \in Bots
  PROVE  /\ bots[b] \in BotStates /\ [at |-> "idle"] \in BotStates
         /\ bots[b].at \in {"disconnect", "kill"} => bots[b].join \in MeetCalls
         /\ bots[b].at \in {"connect", "clear", "store"} => bots[b].join \in Meetings
<1>1. bots[b] \in BotStates
  BY DEF MeetTypes
<1> QED BY <1>1 DEF BotStates

LEMMA ToolKeeps ==
  ASSUME MeetInv, NEW b \in Bots,
         \/ \E m \in Wanted[b] : JoinBegins(b, m)
         \/ LeaveBegins(b, NoMeeting) \/ TakeClient(b) \/ KillMeetBrowser(b) \/ ConnectMeet(b)
  PROVE  MeetInv'
<1>0. MeetTypes
  BY Zenon DEF MeetInv
<1>1. ASSUME NEW m \in MeetCalls, LeaveBegins(b, m) PROVE MeetInv'
  <2>1. [at |-> "disconnect", join |-> m] \in BotStates
    BY DEF BotStates
  <2> QED BY <1>1, <2>1, BotKeeps DEF LeaveBegins
<1>2. ASSUME NEW m \in Wanted[b], JoinBegins(b, m) PROVE MeetInv'
  <2>1. m \in Meetings /\ m \in MeetCalls
    BY DEF Meetings, MeetCalls
  <2>2. [at |-> "connect", join |-> m] \in BotStates
    BY <2>1 DEF BotStates
  <2> QED BY <1>1, <1>2, <2>1, <2>2, BotKeeps DEF JoinBegins
<1>3. ASSUME TakeClient(b) PROVE MeetInv'
  <2>1. [bots[b] EXCEPT !.at = "kill"] \in BotStates /\ [bots[b] EXCEPT !.at = "kill"].at = "kill"
    BY <1>0, <1>3, BotsAre DEF BotStates, TakeClient
  <2> QED BY <1>3, <2>1, BotKeeps DEF TakeClient
<1>4. ASSUME KillMeetBrowser(b) PROVE MeetInv'
  <2>1. AfterLeave(b) \in BotStates /\ AfterLeave(b).at # "store"
    BY <1>0, <1>4, BotsAre DEF BotStates, KillMeetBrowser, AfterLeave, MeetCalls
  <2> QED BY <1>4, <2>1, BotKeeps DEF KillMeetBrowser
<1>5. ASSUME ConnectMeet(b) PROVE MeetInv'
  <2>1. [bots[b] EXCEPT !.at = "clear"] \in BotStates /\ [bots[b] EXCEPT !.at = "clear"].at = "clear"
    BY <1>0, <1>5, BotsAre DEF BotStates, ConnectMeet
  <2>2. [at |-> "idle"] \in BotStates /\ [at |-> "idle"].at # "store"
    BY DEF BotStates
  <2> QED BY <1>5, <2>1, <2>2, BotKeeps DEF ConnectMeet
<1>6. NoMeeting \in MeetCalls
  BY DEF MeetCalls
<1> QED BY <1>1, <1>2, <1>3, <1>4, <1>5, <1>6

LEMMA ClearFilesKeeps == ASSUME MeetInv, NEW b \in Bots, ClearFiles(b) PROVE MeetInv'
<1>0. MeetTypes /\ EntriesThere /\ InCallHeld /\ StoreReady /\ OthersAlone /\ OneLoop
  BY Zenon DEF MeetInv
<1>1. PICK m : m = bots[b].join
  OBVIOUS
<1>2. /\ bots[b].at = "clear" /\ mixed' = (mixed \/ Overlaps(b))
      /\ \E left \in {EmptyFile, OldFile} : transcript' = [transcript EXCEPT ![m] = left]
      /\ SaveIn(m, "waiting")
      /\ bots' = [bots EXCEPT ![b] = [bots[b] EXCEPT !.at = "store"]]
      /\ UNCHANGED <<session, loops, tab, captions, elsewhere>>
  BY <1>1 DEF ClearFiles, BotDoes
<1>3. m \in Meetings /\ [bots[b] EXCEPT !.at = "store"] \in BotStates
      /\ [bots[b] EXCEPT !.at = "store"].at = "store" /\ [bots[b] EXCEPT !.at = "store"].join = m
  BY <1>0, <1>1, <1>2, BotsAre DEF BotStates
<1>4. /\ bots' \in [Bots -> BotStates] /\ bots'[b].at = "store" /\ bots'[b].join = m
      /\ \A c \in Bots : c # b => bots'[c] = bots[c]
  BY <1>0, <1>2, <1>3 DEF MeetTypes
<1>5. /\ transcript' \in [Meetings -> MeetFiles] /\ transcript'[m] \in {EmptyFile, OldFile}
      /\ statusFile' \in [Meetings -> MeetStatuses] /\ statusFile'[m] \in {"waiting", "old"}
  <2>1. EmptyFile \in MeetFiles /\ OldFile \in MeetFiles
    BY DEF EmptyFile, OldFile, MeetFiles
  <2>2. "waiting" \in MeetStatuses
    BY DEF MeetStatuses
  <2>3. statusFile' \in [Meetings -> MeetStatuses] /\ statusFile'[m] \in {"waiting", "old"}
    BY <1>0, <1>2, <1>3, <2>2, SavedIs
  <2>4. PICK left \in {EmptyFile, OldFile} : transcript' = [transcript EXCEPT ![m] = left]
    BY <1>2
  <2>5. left \in MeetFiles /\ transcript \in [Meetings -> MeetFiles]
    BY <1>0, <2>1, <2>4 DEF MeetTypes
  <2>6. transcript' \in [Meetings -> MeetFiles] /\ transcript'[m] = left
    BY <1>3, <2>4, <2>5
  <2> QED BY <2>3, <2>4, <2>6
<1>6. mixed' \in BOOLEAN
  BY <1>0, <1>2 DEF MeetTypes, Overlaps
<1>7. MeetTypes'
  BY <1>0, <1>2, <1>4, <1>5, <1>6 DEF MeetTypes
<1>8. EntriesThere' /\ InCallHeld'
  BY <1>0, <1>2 DEF EntriesThere, InCallHeld, SomeInCall, PastPage, Active
<1>9. ~mixed' => ~Active /\ Live = {} /\ ~elsewhere.on /\ \A c \in Bots : c # b => bots[c].at # "store"
  BY <1>2 DEF Overlaps
<1>10. StoreReady' /\ OthersAlone'
  BY <1>2, <1>4, <1>5, <1>9 DEF StoreReady, OthersAlone, Active, Live
<1>11. OneLoop'
  BY <1>2, <1>9 DEF OneLoop, Active
<1> QED BY <1>7, <1>8, <1>10, <1>11, Zenon DEF MeetInv

LEMMA StoreSessionKeeps == ASSUME MeetInv, NEW b \in Bots, StoreSession(b) PROVE MeetInv'
<1>0. MeetTypes /\ EntriesThere /\ InCallHeld /\ StoreReady /\ OthersAlone /\ OneLoop
  BY Zenon DEF MeetInv
<1>1. PICK m, l : m = bots[b].join /\ l = NewLoop(m)
  OBVIOUS
<1>2. /\ bots[b].at = "store" /\ mixed' = (mixed \/ Overlaps(b)) /\ session' = NewSession(m) /\ loops' = Append(loops, l)
      /\ bots' = [bots EXCEPT ![b] = [at |-> "idle"]] /\ UNCHANGED <<tab, captions, transcript, statusFile, elsewhere>>
  BY <1>1 DEF StoreSession, BotDoes
<1>3. m \in Meetings /\ [at |-> "idle"] \in BotStates
  BY <1>0, <1>1, <1>2, BotsAre
<1>4. l \in LoopStates /\ l.at = "navigate" /\ l.url = m /\ l.drained = <<>>
  BY <1>1, <1>3 DEF NewLoop, LoopStates, MeetCalls
<1>5. /\ session' \in MeetSessions /\ Active' /\ session'.meeting = m /\ ~session'.inCall /\ session'.lines = 0
  BY <1>2, <1>3, ActiveIs DEF NewSession, MeetSessions, Active
<1>6. /\ bots' \in [Bots -> BotStates] /\ bots'[b].at = "idle" /\ \A c \in Bots : c # b => bots'[c] = bots[c]
  BY <1>0, <1>2, <1>3 DEF MeetTypes
<1>7. PICK n \in Nat : DOMAIN loops = 1 .. n /\ n = Len(loops)
  BY <1>0 DEF MeetTypes
<1>8. /\ loops' \in Seq(LoopStates) /\ DOMAIN loops' = 1 .. n + 1 /\ loops'[n + 1] = l
      /\ \A i \in 1 .. n : loops'[i] = loops[i]
  BY <1>0, <1>2, <1>4, <1>7 DEF MeetTypes
<1>9. mixed' \in BOOLEAN
  BY <1>0, <1>2 DEF MeetTypes, Overlaps
<1>10. MeetTypes'
  BY <1>0, <1>2, <1>5, <1>6, <1>8, <1>9 DEF MeetTypes
<1>11. EntriesThere'
  BY <1>0, <1>4, <1>7, <1>8 DEF EntriesThere
<1>12. InCallHeld'
  BY <1>5 DEF InCallHeld
<1>13. ~mixed' => ~mixed /\ Live = {} /\ ~elsewhere.on /\ \A c \in Bots : c # b => bots[c].at # "store"
  BY <1>2 DEF Overlaps
<1>14. StoreReady' /\ OthersAlone'
  BY <1>2, <1>6, <1>13 DEF StoreReady, OthersAlone
<1>15. ASSUME ~mixed' PROVE OneLoop'
  <2>1. transcript[m] \in {EmptyFile, OldFile} /\ statusFile[m] # "inCall" /\ \A i \in 1 .. n : loops[i].at = "ended"
    BY <1>0, <1>1, <1>2, <1>7, <1>13, <1>15 DEF StoreReady, Live
  <2>2. \A i \in Live' : i = n + 1
    BY <1>8, <2>1 DEF Live
  <2>3. LoopFits(l, m, tab', captions')
    BY <1>4 DEF LoopFits
  <2>4. \A i \in DOMAIN loops' : loops'[i].at # "count"
    BY <1>4, <1>8, <2>1
  <2>5. LinesFit(transcript'[m], session', \E i \in DOMAIN loops' : loops'[i].at = "count")
    BY <1>2, <1>5, <2>1, <2>4 DEF LinesFit, EmptyFile, OldFile
  <2>6. \A i \in Live' : LoopFits(loops'[i], session'.meeting, tab', captions')
    BY <1>5, <1>8, <2>2, <2>3, Zenon
  <2> QED BY <1>2, <1>5, <2>1, <2>2, <2>5, <2>6 DEF OneLoop
<1>16. mixed' => OneLoop'
  BY DEF OneLoop
<1> QED BY <1>10, <1>11, <1>12, <1>14, <1>15, <1>16, Zenon DEF MeetInv

LEMMA MeetInvStep == MeetInv /\ [MeetNext]_meetVars => MeetInv'
<1> SUFFICES ASSUME MeetInv, [MeetNext]_meetVars PROVE MeetInv'
  OBVIOUS
<1>1. SomeoneSpeaks \/ MeetBrowserDies => MeetInv'
  BY PageKeeps DEF SomeoneSpeaks, MeetBrowserDies
<1>2. CASE UNCHANGED meetVars
  BY <1>2 DEF meetVars, MeetInv, MeetTypes, EntriesThere, InCallHeld, StoreReady, OthersAlone, OneLoop, SomeInCall, PastPage, Active, Live
<1> QED
  BY <1>1, <1>2, ToolKeeps, ClearFilesKeeps, StoreSessionKeeps, NavigateKeeps, PollKeeps, AdmittedKeeps, DrainKeeps, NextEntryKeeps,
     AppendLineKeeps, CountLineKeeps, FlushStatusKeeps, ClickLeaveKeeps, FinalStatusKeeps, OthersDo, Zenon DEF MeetNext

LEMMA MeetInvShows == MeetInv => MeetKept
<1> SUFFICES ASSUME MeetInv, Active PROVE
      /\ Live = {} => ~session.inCall
      /\ ~mixed =>
         /\ Live = {} => statusFile[session.meeting] # "inCall"
         /\ transcript[session.meeting].known =>
            /\ transcript[session.meeting].own
            /\ transcript[session.meeting].lines
                 <= session.lines + Cardinality({i \in Live : loops[i].at = "count"})
  BY Zenon DEF MeetKept
<1>0. MeetTypes /\ InCallHeld /\ OneLoop
  BY Zenon DEF MeetInv
<1>1. Live = {} => ~SomeInCall
  BY DEF Live, SomeInCall, PastPage
<1>2. ASSUME ~mixed, transcript[session.meeting].known PROVE transcript[session.meeting].lines
              <= session.lines + Cardinality({i \in Live : loops[i].at = "count"})
  <2> DEFINE C == {i \in Live : loops[i].at = "count"}
  <2>1. session.lines \in Nat /\ transcript[session.meeting].lines \in Nat
    <3>1. session \in MeetSessions
      BY <1>0, ActiveIs
    <3> QED BY <1>0, <3>1 DEF MeetTypes, MeetSessions, MeetFiles
  <2>2. LinesFit(transcript[session.meeting], session, \E i \in DOMAIN loops : loops[i].at = "count") /\ \A i, j \in Live : i = j
    BY <1>0, <1>2 DEF OneLoop
  <2>3. CASE \E i \in DOMAIN loops : loops[i].at = "count"
    <3>1. PICK i \in DOMAIN loops : loops[i].at = "count"
      BY <2>3
    <3>2. C = {i}
      BY <2>2, <3>1 DEF Live
    <3>3. Cardinality(C) = 1
      BY <3>2, FS_Singleton
    <3> QED BY <1>2, <2>1, <2>2, <2>3, <3>3 DEF LinesFit
  <2>4. CASE ~\E i \in DOMAIN loops : loops[i].at = "count"
    <3>1. C = {}
      BY <2>4 DEF Live
    <3>2. Cardinality(C) = 0
      BY <3>1, FS_EmptySet
    <3> QED BY <1>2, <2>1, <2>2, <2>4, <3>2 DEF LinesFit
  <2> QED BY <2>3, <2>4
<1> QED BY <1>0, <1>1, <1>2 DEF InCallHeld, OneLoop, LinesFit

(* Whoever left is not shown in a call; and unless meetings are joined over *)
(* others, by this tool or another, a status and a transcript that could be *)
(* written and cleared are those of the session (google_meet.rs), for any   *)
(* number of agents and meetings.                                           *)
THEOREM MeetingsAreKept == MeetSpec => []MeetKept
<1> QED
  BY MeetInvInit, MeetInvStep, MeetInvShows, PTL DEF MeetSpec

-----------------------------------------------------------------------------
(* A streamed turn.                                                        *)

TurnTexts == Nat \cup Questions \cup Sayings
               \cup {"act", "say", "blocked", "result", "results", "error", "limit", "completed"}
PastMessages == [role : {"system", "user", "assistant", "tool"}, text : TurnTexts]
Talks == [at : {"idle", "round", "done"}, since : Nat, model : {"default", "cheap"}, round : Nat,
          acc : Seq(Sayings), follow : Nat, empty : Nat, tries : [ToolNames -> Nat],
          ran : [ToolNames -> Nat], reply : Seq(TurnTexts), hit : BOOLEAN]

TalkTypes ==
  /\ past \in Seq(PastMessages) /\ talk \in Talks /\ minute \in Nat
  /\ talk.since <= Len(past)
  /\ \A a \in answers : a.text \in Sayings

(* What the model said in a turn that still runs is kept for its reply, if *)
(* it says anything, and so is nothing else.                               *)
SaidIsKept(said, acc) ==
  /\ \A m \in said : m.role = "assistant" /\ ~Low(m.text) => m.text \in ToSet(acc)
  /\ \A t \in ToSet(acc) : ~Low(t)
TurnKeeps ==
  talk.at = "round" => /\ SaidIsKept(InTurn, talk.acc)
                       /\ talk.empty > 0 => Said("user", "say") \in InTurn

(* Every run of a tool was counted.                                        *)
RunsCounted == \A c \in ToolNames : talk.ran[c] <= talk.tries[c] /\ talk.ran[c] <= MaxRetries

TalkInv == TalkTypes /\ TurnKeeps /\ RunsCounted /\ RepliesInFull

LEMMA ToSetAppend ==
  ASSUME NEW S, NEW s \in Seq(S), NEW x \in S
  PROVE  Append(s, x) \in Seq(S) /\ ToSet(Append(s, x)) = ToSet(s) \cup {x}
<1>1. Append(s, x) \in Seq(S) /\ Len(Append(s, x)) = Len(s) + 1 /\ DOMAIN s = 1 .. Len(s) /\ Len(s) \in Nat
      /\ DOMAIN Append(s, x) = 1 .. Len(s) + 1
      /\ \A i \in 1 .. Len(s) : Append(s, x)[i] = s[i]
      /\ Append(s, x)[Len(s) + 1] = x
  OBVIOUS
<1> DEFINE r == Append(s, x)
<1>2. ToSet(r) \subseteq ToSet(s) \cup {x}
  <2> SUFFICES ASSUME NEW i \in 1 .. Len(s) + 1 PROVE r[i] \in ToSet(s) \cup {x}
    BY <1>1 DEF ToSet
  <2>1. CASE i \in 1 .. Len(s)
    BY <1>1, <2>1 DEF ToSet
  <2>2. CASE i = Len(s) + 1
    BY <1>1, <2>2
  <2> QED BY <1>1, <2>1, <2>2
<1>3. x \in ToSet(r)
  BY <1>1 DEF ToSet
<1>4. ToSet(s) \subseteq ToSet(r)
  BY <1>1 DEF ToSet
<1> QED BY <1>1, <1>2, <1>3, <1>4

LEMMA ToSetConcat ==
  ASSUME NEW S, NEW x \in S, NEW s \in Seq(S)
  PROVE  ToSet(<<x>> \o s) = {x} \cup ToSet(s)
<1>1. /\ DOMAIN s = 1 .. Len(s) /\ Len(s) \in Nat /\ DOMAIN (<<x>> \o s) = 1 .. Len(s) + 1
      /\ (<<x>> \o s)[1] = x /\ \A i \in 1 .. Len(s) : (<<x>> \o s)[i + 1] = s[i]
  OBVIOUS
<1> DEFINE r == <<x>> \o s
<1> HIDE DEF r
<1>2. /\ DOMAIN r = 1 .. Len(s) + 1 /\ r[1] = x /\ \A i \in 1 .. Len(s) : r[i + 1] = s[i]
  BY <1>1 DEF r
<1>3. ASSUME NEW i \in 1 .. Len(s) + 1 PROVE r[i] \in {x} \cup ToSet(s)
  <2>1. CASE i = 1
    BY <1>2, <2>1
  <2>2. CASE i # 1
    <3>1. i - 1 \in 1 .. Len(s) /\ i = (i - 1) + 1
      BY <1>1, <2>2
    <3>2. r[i] = s[i - 1]
      BY <1>2, <3>1
    <3> QED BY <1>1, <3>1, <3>2 DEF ToSet
  <2> QED BY <2>1, <2>2
<1>4. ASSUME NEW i \in 1 .. Len(s) PROVE s[i] \in ToSet(r)
  <2>1. i + 1 \in 1 .. Len(s) + 1
    BY <1>1
  <2> QED BY <1>2, <2>1 DEF ToSet
<1>5. x \in ToSet(r)
  <2>1. 1 \in 1 .. Len(s) + 1
    BY <1>1
  <2> QED BY <1>2, <2>1 DEF ToSet
<1>6. ToSet(r) \subseteq {x} \cup ToSet(s)
  BY <1>2, <1>3 DEF ToSet
<1>7. ToSet(s) \subseteq ToSet(r)
  BY <1>1, <1>4 DEF ToSet
<1> QED BY <1>5, <1>6, <1>7 DEF r

(* What is put behind the history is said in the turn.                     *)
LEMMA TurnGrows ==
  ASSUME TalkTypes, NEW more \in Seq(PastMessages), past' = past \o more, talk'.since = talk.since
  PROVE  past' \in Seq(PastMessages) /\ talk'.since <= Len(past') /\ InTurn' = InTurn \cup ToSet(more)
<1>1. past \in Seq(PastMessages) /\ talk.since \in Nat /\ talk.since <= Len(past) /\ Len(past) \in Nat
  BY DEF TalkTypes, Talks
<1>2. /\ past' \in Seq(PastMessages) /\ Len(past') = Len(past) + Len(more)
      /\ \A i \in 1 .. Len(past) : past'[i] = past[i]
      /\ \A i \in Len(past) + 1 .. Len(past) + Len(more) : past'[i] = more[i - Len(past)]
  BY <1>1, ConcatIs
<1>3. Len(more) \in Nat /\ DOMAIN more = 1 .. Len(more)
  OBVIOUS
<1> DEFINE n == Len(past) k == Len(more) s == talk.since
<1>4. InTurn' = {past'[i] : i \in s + 1 .. n + k}
  BY <1>2 DEF InTurn
<1>5. InTurn = {past[i] : i \in s + 1 .. n} /\ ToSet(more) = {more[i] : i \in 1 .. k}
  BY <1>3 DEF InTurn, ToSet
<1>6. n \in Nat /\ k \in Nat /\ s \in Nat /\ s <= n
  BY <1>1, <1>3
<1> HIDE DEF n, k, s
<1>7. ASSUME NEW i \in s + 1 .. n + k PROVE past'[i] \in InTurn \cup ToSet(more)
  <2>1. CASE i <= n
    <3>1. i \in 1 .. n /\ i \in s + 1 .. n
      BY <1>6, <2>1
    <3> QED BY <1>2, <1>5, <3>1 DEF n
  <2>2. CASE i > n
    <3>1. i \in n + 1 .. n + k /\ i - n \in 1 .. k
      BY <1>6, <2>2
    <3>2. past'[i] = more[i - n]
      BY <1>2, <3>1 DEF n, k
    <3>3. more[i - n] \in ToSet(more)
      BY <1>5, <3>1
    <3> QED BY <3>2, <3>3
  <2>3. i <= n \/ i > n
    BY <1>6
  <2> QED BY <2>1, <2>2, <2>3, Zenon
<1>8. ASSUME NEW i \in s + 1 .. n PROVE past[i] \in InTurn'
  <2>1. i \in 1 .. n /\ i \in s + 1 .. n + k
    BY <1>6
  <2> QED BY <1>2, <1>4, <2>1 DEF n
<1>9. ASSUME NEW i \in 1 .. k PROVE more[i] \in InTurn'
  <2>1. i + n \in n + 1 .. n + k /\ i + n \in s + 1 .. n + k /\ (i + n) - n = i
    BY <1>6
  <2>2. past'[i + n] = more[i]
    BY <1>2, <2>1 DEF n, k
  <2> QED BY <1>4, <2>1, <2>2
<1>10. InTurn' \subseteq InTurn \cup ToSet(more)
  BY <1>4, <1>7
<1>11. InTurn \subseteq InTurn' /\ ToSet(more) \subseteq InTurn'
  BY <1>5, <1>8, <1>9
<1>12. talk'.since <= Len(past')
  BY <1>2, <1>6 DEF n, k, s
<1> QED BY <1>2, <1>10, <1>11, <1>12

(* A text is kept with what the turn has said, and so the reply is whole.  *)
LEMMA KeepsText ==
  ASSUME TalkTypes, NEW t \in Sayings, NEW said, SaidIsKept(said, talk.acc)
  PROVE  /\ Accumulated(t) \in Seq(Sayings)
         /\ SaidIsKept(said \cup {Said("assistant", t)}, Accumulated(t))
<1>1. talk.acc \in Seq(Sayings)
  BY DEF TalkTypes, Talks
<1>2. ToSet(Append(talk.acc, t)) = ToSet(talk.acc) \cup {t} /\ Append(talk.acc, t) \in Seq(Sayings)
  BY <1>1, ToSetAppend
<1> QED BY <1>1, <1>2 DEF Accumulated, SaidIsKept, Said

LEMMA KeepsNote ==
  ASSUME NEW acc, NEW said, SaidIsKept(said, acc), NEW more, \A m \in more : m.role # "assistant"
  PROVE  SaidIsKept(said \cup more, acc)
BY DEF SaidIsKept

LEMMA TalksIs ==
  ASSUME NEW r, r \in Talks
  PROVE  /\ r.since \in Nat /\ r.round \in Nat /\ r.follow \in Nat /\ r.empty \in Nat /\ r.acc \in Seq(Sayings)
         /\ r.tries \in [ToolNames -> Nat] /\ r.ran \in [ToolNames -> Nat] /\ r.reply \in Seq(TurnTexts)
         /\ r.at \in {"idle", "round", "done"} /\ r.hit \in BOOLEAN /\ r.model \in {"default", "cheap"}
BY DEF Talks

(* A turn that ends with what it said, and a text of its own or nothing.   *)
LEMMA TurnReturns ==
  ASSUME TalkInv, talk.at = "round", NEW reply \in Seq(TurnTexts),
         talk' = [talk EXCEPT !.at = "done", !.reply = reply],
         past' \in Seq(PastMessages), talk.since <= Len(past'), minute' = minute,
         \A a \in answers' : a.text \in Sayings,
         \A m \in InTurn' : m.role = "assistant" /\ ~Low(m.text) => m.text \in ToSet(reply),
         (\A t \in ToSet(reply) : t \in Sayings /\ Low(t)) => Said("user", "say") \in InTurn'
  PROVE  TalkInv'
<1>1. talk' \in Talks
  BY DEF TalkInv, TalkTypes, Talks
<1>2. talk'.at = "done" /\ talk'.since = talk.since /\ talk'.reply = reply /\ talk'.ran = talk.ran /\ talk'.tries = talk.tries
  BY DEF TalkInv, TalkTypes, Talks
<1>3. TalkTypes'
  BY <1>1, <1>2 DEF TalkInv, TalkTypes
<1>4. TurnKeeps'
  BY <1>2 DEF TurnKeeps
<1>5. RunsCounted'
  BY <1>2 DEF TalkInv, RunsCounted
<1>6. RepliesInFull'
  BY <1>2 DEF RepliesInFull
<1> QED BY <1>3, <1>4, <1>5, <1>6 DEF TalkInv

(* A turn that goes on.                                                    *)
LEMMA TurnContinues ==
  ASSUME TalkInv, talk.at = "round", NEW more \in Seq(PastMessages), past' = past \o more,
         talk' \in Talks, talk'.at = "round", talk'.since = talk.since, minute' = minute,
         \A a \in answers' : a.text \in Sayings,
         SaidIsKept(InTurn \cup ToSet(more), talk'.acc),
         talk'.empty > 0 => talk.empty > 0 \/ Said("user", "say") \in ToSet(more),
         RunsCounted'
  PROVE  TalkInv'
<1>1. past' \in Seq(PastMessages) /\ talk'.since <= Len(past') /\ InTurn' = InTurn \cup ToSet(more)
  BY TurnGrows DEF TalkInv
<1>2. TalkTypes'
  BY <1>1 DEF TalkInv, TalkTypes
<1>3. TurnKeeps'
  BY <1>1 DEF TalkInv, TurnKeeps
<1>4. RepliesInFull'
  BY DEF RepliesInFull
<1> QED BY <1>2, <1>3, <1>4 DEF TalkInv

LEMMA TalkRests == TalkInv /\ UNCHANGED talkVars => TalkInv'
BY DEF TalkInv, TalkTypes, TurnKeeps, RunsCounted, RepliesInFull, InTurn, talkVars

LEMMA QuietIs == Quiet \in Talks /\ Quiet.at = "idle" /\ Quiet.since = 0 /\ Quiet.acc = <<>> /\ Quiet.empty = 0
                 /\ (\A c \in ToolNames : Quiet.ran[c] = 0 /\ Quiet.tries[c] = 0)
BY DEF Quiet, Talks

LEMMA TalkStarts == TalkInit => TalkInv
<1> SUFFICES ASSUME TalkInit PROVE TalkInv
  OBVIOUS
<1>1. TalkTypes
  BY QuietIs DEF TalkInit, TalkTypes
<1> QED BY <1>1, QuietIs, TurnAssumption DEF TalkInit, TalkInv, TurnKeeps, RunsCounted, RepliesInFull

LEMMA SlashResetKeeps == TalkInv /\ SlashReset => TalkInv'
<1> SUFFICES ASSUME TalkInv, SlashReset PROVE TalkInv'
  OBVIOUS
<1>1. TalkTypes'
  BY QuietIs DEF TalkInv, TalkTypes, SlashReset
<1> QED BY <1>1, QuietIs, TurnAssumption DEF SlashReset, TalkInv, TurnKeeps, RunsCounted, RepliesInFull

LEMMA TurnBeginKeeps == ASSUME TalkInv, NEW q \in Questions, TurnBegin(q) PROVE TalkInv'
<1>1. past \in Seq(PastMessages) /\ minute \in Nat
  BY DEF TalkInv, TalkTypes
<1>2. Said("system", minute) \in PastMessages /\ Said("user", q) \in PastMessages
  BY <1>1 DEF Said, PastMessages, TurnTexts
<1>3. (IF past = <<>> THEN past ELSE Tail(past)) \in Seq(PastMessages)
  BY <1>1
<1>4. past' \in Seq(PastMessages) /\ Len(past') \in Nat
  BY <1>2, <1>3 DEF TurnBegin
<1>5. talk' = [Quiet EXCEPT !.at = "round", !.model = RouteModel(q), !.since = Len(past')]
  BY DEF TurnBegin
<1>6. RouteModel(q) \in {"default", "cheap"}
  BY DEF RouteModel
<1>7. /\ talk' \in Talks /\ talk'.at = "round" /\ talk'.since = Len(past') /\ talk'.acc = <<>> /\ talk'.empty = 0
      /\ \A c \in ToolNames : talk'.ran[c] = 0 /\ talk'.tries[c] = 0
  BY <1>4, <1>5, <1>6, QuietIs DEF Talks
<1>8. TalkTypes'
  BY <1>1, <1>4, <1>7 DEF TalkInv, TalkTypes, TurnBegin
<1>9. InTurn' = {}
  BY <1>4, <1>7 DEF InTurn
<1>10. TurnKeeps'
  BY <1>7, <1>9 DEF TurnKeeps, SaidIsKept, ToSet
<1>11. RunsCounted' /\ RepliesInFull'
  BY <1>7, TurnAssumption DEF RunsCounted, RepliesInFull
<1> QED BY <1>8, <1>10, <1>11 DEF TalkInv

LEMMA CacheHitKeeps == TalkInv /\ CacheHit => TalkInv'
<1> SUFFICES ASSUME TalkInv, CacheHit PROVE TalkInv'
  OBVIOUS
<1>1. PICK a \in CachedFor(CacheKey) : talk' = [talk EXCEPT !.at = "done", !.reply = <<a.text>>, !.hit = TRUE]
  BY DEF CacheHit
<1>2. a.text \in Sayings
  BY DEF CachedFor, TalkInv, TalkTypes
<1>3. <<a.text>> \in Seq(TurnTexts)
  BY <1>2 DEF TurnTexts
<1>4. /\ talk' \in Talks /\ talk'.at = "done" /\ talk'.hit /\ talk'.since = talk.since
      /\ talk'.ran = talk.ran /\ talk'.tries = talk.tries
  BY <1>1, <1>3 DEF TalkInv, TalkTypes, Talks
<1>5. UNCHANGED <<past, answers, minute>>
  BY DEF CacheHit
<1> QED BY <1>4, <1>5 DEF TalkInv, TalkTypes, TurnKeeps, RunsCounted, RepliesInFull

(* A turn that is ended by a provider or the limit.                        *)
LEMMA TurnCut ==
  ASSUME TalkInv, talk.at = "round", NEW note \in {"error", "limit"}, Return(Append(talk.acc, note)),
         UNCHANGED <<past, answers, minute>>
  PROVE  TalkInv'
<1>1. talk.acc \in Seq(Sayings) /\ talk.since \in Nat
  BY TalksIs DEF TalkInv, TalkTypes
<1>2. note \in TurnTexts /\ talk.acc \in Seq(TurnTexts) /\ note \notin Sayings
  BY <1>1, TurnAssumption DEF TurnTexts
<1>3. PICK reply : reply = Append(talk.acc, note)
  OBVIOUS
<1>4. reply \in Seq(TurnTexts) /\ ToSet(reply) = ToSet(talk.acc) \cup {note}
  BY <1>2, <1>3, ToSetAppend
<1>5. talk' = [talk EXCEPT !.at = "done", !.reply = reply]
  BY <1>3 DEF Return
<1>6. InTurn' = InTurn
  <2>1. talk'.since = talk.since
    BY <1>5 DEF TalkInv, TalkTypes, Talks
  <2> QED BY <2>1 DEF InTurn
<1>7. \A m \in InTurn : m.role = "assistant" /\ ~Low(m.text) => m.text \in ToSet(talk.acc)
  BY DEF TalkInv, TurnKeeps, SaidIsKept
<1> QED BY <1>2, <1>4, <1>5, <1>6, <1>7, TurnReturns DEF TalkInv, TalkTypes

LEMMA EndsKeep == TalkInv /\ (AskFails \/ RoundsExhausted) => TalkInv'
BY TurnCut DEF AskFails, RoundsExhausted, Asking

LEMMA MinutePassesKeeps == TalkInv /\ MinutePasses => TalkInv'
<1> SUFFICES ASSUME TalkInv, MinutePasses PROVE TalkInv'
  OBVIOUS
<1>1. TalkTypes'
  BY DEF TalkInv, TalkTypes, MinutePasses
<1> QED BY <1>1 DEF TalkInv, TurnKeeps, RunsCounted, RepliesInFull, InTurn, MinutePasses

LEMMA AppendOne ==
  ASSUME NEW S, NEW s \in Seq(S), NEW x \in S
  PROVE  <<x>> \in Seq(S) /\ Append(s, x) = s \o <<x>> /\ ToSet(<<x>>) = {x}
<1>1. ToSet(<<x>>) = {x}
  BY DEF ToSet
<1> QED BY <1>1

LEMMA AppendTwo ==
  ASSUME NEW S, NEW s \in Seq(S), NEW x \in S, NEW y \in S
  PROVE  <<x, y>> \in Seq(S) /\ Append(Append(s, x), y) = s \o <<x, y>> /\ ToSet(<<x, y>>) = {x, y}
<1>1. ToSet(<<x, y>>) = {x, y}
  BY DEF ToSet
<1>2. Append(Append(s, x), y) = s \o <<x, y>>
  OBVIOUS
<1> QED BY <1>1, <1>2

LEMMA SpeakKeeps ==
  ASSUME TalkInv, NEW t \in Sayings, NEW broken \in BOOLEAN, talk.at = "round", Speak(t, broken)
  PROVE  TalkInv'
<1>0. TalkTypes /\ past \in Seq(PastMessages) /\ talk \in Talks
  BY DEF TalkInv, TalkTypes
<1> DEFINE h == Append(past, Said("assistant", t))
           acc == Accumulated(t)
           nudge(n) == Append(h, Said("user", n))
<1>1. /\ SaidIsKept(InTurn, talk.acc)
      /\ talk.empty > 0 => Said("user", "say") \in InTurn
      /\ talk.empty \in Nat
  BY <1>0, TalksIs DEF TalkInv, TurnKeeps
<1>2. acc \in Seq(Sayings) /\ SaidIsKept(InTurn \cup {Said("assistant", t)}, acc)
  BY <1>0, <1>1, KeepsText
<1>9. Said("assistant", t) \in PastMessages /\ Said("user", "act") \in PastMessages /\ Said("user", "say") \in PastMessages
  BY DEF Said, PastMessages, TurnTexts
<1>3. PICK am \in PastMessages : am = Said("assistant", t) /\ \A n \in {"act", "say"} : Said("user", n) \in PastMessages
  BY <1>9
<1>4. minute' = minute /\ \A a \in answers' : a.text \in Sayings
  BY <1>0 DEF Speak, TalkTypes
<1>5. \/ NextRound(nudge("act"), acc, 1, 0)
      \/ NudgesEmpty(acc, t) /\ NextRound(nudge("say"), acc, 0, 1)
      \/ ~NudgesEmpty(acc, t) /\ past' = h /\ Return(FinalText(acc, t, h))
  BY DEF Speak
<1> HIDE DEF acc
<1>6. ASSUME NEW n \in {"act", "say"}, NEW f \in {0, 1}, NEW e \in {0, 1}, NextRound(nudge(n), acc, f, e),
             e = 1 => n = "say"
      PROVE  TalkInv'
  <2>1. talk' = [talk EXCEPT !.round = @ + 1, !.acc = acc, !.follow = @ + f, !.empty = @ + e] /\ past' = nudge(n)
    BY <1>6 DEF NextRound
  <2>0. f \in Nat /\ e \in Nat /\ talk.round + 1 \in Nat /\ talk.follow + f \in Nat /\ talk.empty + e \in Nat
    BY <1>0, TalksIs
  <2>2. talk' \in Talks /\ talk'.at = "round" /\ talk'.since = talk.since /\ talk'.acc = acc
        /\ talk'.empty = talk.empty + e /\ talk'.ran = talk.ran /\ talk'.tries = talk.tries
    BY <1>0, <1>2, <2>0, <2>1 DEF Talks
  <2>3. PICK nm \in PastMessages : nm = Said("user", n)
    BY <1>3
  <2>4. PICK more \in Seq(PastMessages) : past' = past \o more /\ ToSet(more) = {Said("assistant", t), Said("user", n)}
    <3>0. nm \in PastMessages
      BY <2>3
    <3>1. past' = Append(Append(past, am), nm)
      BY <1>3, <2>1, <2>3
    <3>2. <<am, nm>> \in Seq(PastMessages) /\ past' = past \o <<am, nm>> /\ ToSet(<<am, nm>>) = {am, nm}
      <4>1. past \in Seq(PastMessages) /\ am \in PastMessages
        BY <1>0
      <4>2. /\ <<am, nm>> \in Seq(PastMessages) /\ ToSet(<<am, nm>>) = {am, nm}
            /\ Append(Append(past, am), nm) = past \o <<am, nm>>
        BY <3>0, <4>1, AppendTwo
      <4> QED BY <3>1, <4>2, Zenon
    <3> QED BY <1>3, <2>3, <3>2
  <2>5. SaidIsKept(InTurn \cup ToSet(more), acc)
    <3>1. SaidIsKept((InTurn \cup {Said("assistant", t)}) \cup {Said("user", n)}, acc)
      <4>1. \A m \in {Said("user", n)} : m.role # "assistant"
        BY DEF Said
      <4> QED BY <1>2, <4>1, KeepsNote
    <3> QED BY <2>4, <3>1 DEF SaidIsKept
  <2>6. RunsCounted'
    BY <2>2 DEF TalkInv, RunsCounted
  <2>7. talk'.empty > 0 => talk.empty > 0 \/ Said("user", "say") \in ToSet(more)
    BY <1>1, <1>6, <2>2, <2>4
  <2> QED BY <1>4, <2>2, <2>4, <2>5, <2>6, <2>7, TurnContinues
<1>7. ASSUME ~NudgesEmpty(acc, t), past' = h, Return(FinalText(acc, t, h)) PROVE TalkInv'
  <2>1. PICK reply : reply = FinalText(acc, t, h)
    OBVIOUS
  <2>2. talk' = [talk EXCEPT !.at = "done", !.reply = reply]
    BY <1>7, <2>1 DEF Return
  <2>3. talk'.since = talk.since
    BY <1>0, <2>2 DEF Talks
  <2>4. past' = past \o <<Said("assistant", t)>> /\ ToSet(<<Said("assistant", t)>>) = {Said("assistant", t)}
        /\ <<Said("assistant", t)>> \in Seq(PastMessages)
    <3>1. past' = Append(past, am)
      BY <1>3, <1>7
    <3>2. <<am>> \in Seq(PastMessages) /\ past' = past \o <<am>> /\ ToSet(<<am>>) = {am}
      BY <1>0, <3>1, AppendOne, Zenon
    <3> QED BY <1>3, <3>2
  <2>5. past' \in Seq(PastMessages) /\ talk.since <= Len(past') /\ InTurn' = InTurn \cup {Said("assistant", t)}
    BY <1>0, <2>3, <2>4, TurnGrows
  <2>6. CASE acc # <<>>
    <3>1. reply = acc
      BY <2>1, <2>6 DEF FinalText
    <3>2. reply \in Seq(TurnTexts)
      BY <1>2, <3>1 DEF TurnTexts
    <3>3. acc[1] \in ToSet(acc)
      BY <1>2, <2>6 DEF ToSet
    <3>4. \E x \in ToSet(reply) : ~(x \in Sayings /\ Low(x))
      BY <1>2, <3>1, <3>3 DEF SaidIsKept
    <3> QED BY <1>2, <1>4, <2>2, <2>5, <3>1, <3>2, <3>4, TurnReturns DEF SaidIsKept
  <2>7. CASE acc = <<>>
    <3>1. ToSet(acc) = {}
      BY <2>7 DEF ToSet
    <3>2. \A m \in InTurn' : m.role = "assistant" => Low(m.text)
      BY <1>2, <2>5, <3>1 DEF SaidIsKept
    <3>3. Low(t)
      <4>1. Said("assistant", t).role = "assistant" /\ Said("assistant", t).text = t
        BY DEF Said
      <4>2. Said("assistant", t) \in InTurn'
        BY <2>5
      <4> QED BY <3>2, <4>1, <4>2
    <3>5. talk.empty > 0
      BY <1>1, <1>7, <2>7, <3>3 DEF NudgesEmpty
    <3>6. Said("user", "say") \in InTurn'
      BY <1>1, <2>5, <3>5
    <3>7. reply = <<"completed">> \/ reply = <<t>>
      BY <2>1, <2>7 DEF FinalText
    <3>8. reply \in Seq(TurnTexts)
      <4>1. t \in TurnTexts /\ "completed" \in TurnTexts
        BY DEF TurnTexts
      <4>2. <<t>> \in Seq(TurnTexts) /\ <<"completed">> \in Seq(TurnTexts)
        BY <4>1
      <4> QED BY <3>7, <4>2, Zenon
    <3> QED BY <1>4, <2>2, <2>5, <3>2, <3>6, <3>8, TurnReturns
  <2> QED BY <2>6, <2>7
<1> QED BY <1>5, <1>6, <1>7

LEMMA ResultsAre ==
  ASSUME NEW made, IsFiniteSet(made)
  PROVE  ResultMessages(made) \in Seq(PastMessages) /\ \A m \in ToSet(ResultMessages(made)) : m.role # "assistant"
<1>1. Said("tool", "result") \in PastMessages /\ Said("user", "results") \in PastMessages
  BY DEF Said, PastMessages, TurnTexts
<1>2. Cardinality(made) \in Nat
  BY FS_CardinalityType
<1>3. CASE talk.model \in NativeModels
  BY <1>1, <1>2, <1>3 DEF ResultMessages, ToSet, Said
<1>4. CASE talk.model \notin NativeModels
  BY <1>1, <1>4 DEF ResultMessages, ToSet, Said
<1> QED BY <1>3, <1>4

LEMMA CallToolsKeeps ==
  ASSUME TalkInv, IsFiniteSet(ToolNames), NEW t \in Sayings, NEW made \in SUBSET ToolNames, NEW failed \in SUBSET ToolNames,
         talk.at = "round", CallTools(t, made, failed)
  PROVE  TalkInv'
<1>0. TalkTypes /\ past \in Seq(PastMessages) /\ talk \in Talks
  BY DEF TalkInv, TalkTypes
<1>1. /\ SaidIsKept(InTurn, talk.acc)
      /\ talk.empty > 0 => Said("user", "say") \in InTurn
  BY <1>0, TalksIs DEF TalkInv, TurnKeeps
<1>2. PICK acc : acc = Accumulated(t)
  OBVIOUS
<1>3. acc \in Seq(Sayings) /\ SaidIsKept(InTurn \cup {Said("assistant", t)}, acc)
  BY <1>0, <1>1, <1>2, KeepsText
<1>4. PICK tries : tries = Counted(made)
  OBVIOUS
<1>5. /\ tries \in [ToolNames -> Nat]
      /\ \A c \in ToolNames : tries[c] = talk.tries[c] + IF c \in made THEN 1 ELSE 0
  BY <1>0, <1>4, TalksIs DEF Counted
<1>6. PICK am \in PastMessages : am = Said("assistant", t)
  BY DEF Said, PastMessages, TurnTexts
<1>7. /\ answers' = answers /\ minute' = minute
      /\ \/ /\ past' = Append(Append(past, am), Said("user", "blocked"))
            /\ talk' = [talk EXCEPT !.round = @ + 1, !.acc = acc, !.tries = tries]
         \/ /\ {c \in made : tries[c] > MaxRetries} = {}
            /\ past' = Append(past, am) \o ResultMessages(made)
            /\ talk' = [talk EXCEPT !.round = @ + 1, !.acc = acc, !.tries = tries,
                          !.ran = [c \in ToolNames |-> @[c] + IF c \in RunsOf(made) THEN 1 ELSE 0]]
  BY <1>2, <1>4, <1>6 DEF CallTools
<1>8. talk.round + 1 \in Nat /\ talk.ran \in [ToolNames -> Nat] /\ talk.tries \in [ToolNames -> Nat]
  BY <1>0, TalksIs
<1>9. ASSUME NEW more \in Seq(PastMessages), \A m \in ToSet(more) : m.role # "assistant",
             past' = Append(past, am) \o more, talk' \in Talks, talk'.at = "round", talk'.since = talk.since,
             talk'.acc = acc, talk'.empty = talk.empty, RunsCounted'
      PROVE  TalkInv'
  <2>1. past' = past \o (<<am>> \o more) /\ <<am>> \o more \in Seq(PastMessages)
    BY <1>0, <1>9
  <2>2. ToSet(<<am>> \o more) = {am} \cup ToSet(more)
    BY <1>9, ToSetConcat
  <2>3. SaidIsKept((InTurn \cup {am}) \cup ToSet(more), acc)
    BY <1>3, <1>6, <1>9, KeepsNote
  <2>4. (InTurn \cup {am}) \cup ToSet(more) = InTurn \cup ToSet(<<am>> \o more)
    BY <2>2
  <2>5. SaidIsKept(InTurn \cup ToSet(<<am>> \o more), talk'.acc)
    BY <1>9, <2>3, <2>4
  <2>6. \A a \in answers' : a.text \in Sayings
    BY <1>0, <1>7 DEF TalkTypes
  <2>7. PICK all \in Seq(PastMessages) : all = <<am>> \o more
    BY <2>1
  <2> QED BY <1>7, <1>9, <2>1, <2>5, <2>6, <2>7, TurnContinues
<1>10. CASE /\ past' = Append(Append(past, am), Said("user", "blocked"))
            /\ talk' = [talk EXCEPT !.round = @ + 1, !.acc = acc, !.tries = tries]
  <2>1. /\ talk' \in Talks /\ talk'.at = "round" /\ talk'.since = talk.since /\ talk'.acc = acc
        /\ talk'.empty = talk.empty /\ talk'.ran = talk.ran /\ talk'.tries = tries
    BY <1>0, <1>3, <1>5, <1>8, <1>10 DEF Talks
  <2>2. RunsCounted'
    BY <1>5, <1>8, <2>1 DEF TalkInv, RunsCounted
  <2>8. Said("user", "blocked") \in PastMessages /\ Said("user", "blocked").role = "user"
    BY DEF Said, PastMessages, TurnTexts
  <2>3. PICK bm \in PastMessages : bm = Said("user", "blocked") /\ bm.role # "assistant"
    BY <2>8
  <2>4. <<bm>> \in Seq(PastMessages) /\ ToSet(<<bm>>) = {bm}
    BY DEF ToSet
  <2>5. past' = Append(past, am) \o <<bm>>
    BY <1>0, <1>10, <2>3
  <2> QED BY <1>9, <2>1, <2>2, <2>3, <2>4, <2>5
<1>11. CASE /\ {c \in made : tries[c] > MaxRetries} = {}
            /\ past' = Append(past, am) \o ResultMessages(made)
            /\ talk' = [talk EXCEPT !.round = @ + 1, !.acc = acc, !.tries = tries,
                          !.ran = [c \in ToolNames |-> @[c] + IF c \in RunsOf(made) THEN 1 ELSE 0]]
  <2>1. PICK ran : ran = [c \in ToolNames |-> talk.ran[c] + IF c \in RunsOf(made) THEN 1 ELSE 0]
    OBVIOUS
  <2>2. ran \in [ToolNames -> Nat] /\ \A c \in ToolNames : ran[c] = talk.ran[c] + IF c \in RunsOf(made) THEN 1 ELSE 0
    BY <1>8, <2>1
  <2>3. talk' = [talk EXCEPT !.round = @ + 1, !.acc = acc, !.tries = tries, !.ran = ran]
    BY <1>0, <1>11, <2>1
  <2>4. /\ talk' \in Talks /\ talk'.at = "round" /\ talk'.since = talk.since /\ talk'.acc = acc
        /\ talk'.empty = talk.empty /\ talk'.ran = ran /\ talk'.tries = tries
    BY <1>0, <1>3, <1>5, <1>8, <2>2, <2>3 DEF Talks
  <2>5. \A c \in RunsOf(made) : c \in made /\ tries[c] <= MaxRetries
    BY <1>5, <1>11, TurnAssumption DEF RunsOf
  <2>6. RunsCounted'
    <3> SUFFICES ASSUME NEW c \in ToolNames PROVE ran[c] <= tries[c] /\ ran[c] <= MaxRetries
      BY <2>4 DEF RunsCounted
    <3>1. talk.ran[c] <= talk.tries[c] /\ talk.ran[c] <= MaxRetries /\ talk.ran[c] \in Nat /\ talk.tries[c] \in Nat
      BY <1>8 DEF TalkInv, RunsCounted
    <3>2. CASE c \in RunsOf(made)
      BY <1>5, <2>2, <2>5, <3>1, <3>2, TurnAssumption
    <3>3. CASE c \notin RunsOf(made)
      BY <1>5, <2>2, <3>1, <3>3, TurnAssumption
    <3> QED BY <3>2, <3>3
  <2>7. IsFiniteSet(made)
    BY FS_Subset
  <2> QED BY <1>9, <1>11, <2>4, <2>6, <2>7, ResultsAre
<1> QED BY <1>7, <1>10, <1>11

LEMMA TalkInvStep == IsFiniteSet(ToolNames) /\ TalkInv /\ [TalkNext]_talkVars => TalkInv'
<1> SUFFICES ASSUME IsFiniteSet(ToolNames), TalkInv, [TalkNext]_talkVars PROVE TalkInv'
  OBVIOUS
<1>1. CASE UNCHANGED talkVars
  BY <1>1, TalkRests
<1>2. CASE SlashReset \/ CacheHit \/ AskFails \/ RoundsExhausted \/ MinutePasses
  BY <1>2, SlashResetKeeps, CacheHitKeeps, EndsKeep, MinutePassesKeeps
<1>3. ASSUME NEW q \in Questions, TurnBegin(q) PROVE TalkInv'
  BY <1>3, TurnBeginKeeps
<1>4. ASSUME talk.at = "round", NEW t \in Sayings, NEW broken \in BOOLEAN, Speak(t, broken) PROVE TalkInv'
  BY <1>4, SpeakKeeps
<1>5. ASSUME talk.at = "round", NEW t \in Sayings, NEW made \in SUBSET ToolNames \ {{}}, NEW failed \in SUBSET ToolNames,
             CallTools(t, made, failed)
      PROVE  TalkInv'
  BY <1>5, CallToolsKeeps
<1> QED BY <1>1, <1>2, <1>3, <1>4, <1>5 DEF TalkNext

(* The reply of a streamed turn carries each text the model said in it, and *)
(* no call is run more often than MaxRetries allows, whatever rounds, nudges*)
(* and cached answers come between (turn_stream).                          *)
THEOREM TurnsAnswer == TalkSpec => []TurnAnswers
<1>1. TalkInv => TurnAnswers
  BY DEF TalkInv, TurnAnswers, SameCallBounded, RunsCounted
<1> QED BY <1>1, TalkStarts, TalkInvStep, TurnAssumption, PTL DEF TalkSpec

-----------------------------------------------------------------------------
(* The setup wizard.                                                       *)

StepNames == {Steps[i] : i \in DOMAIN Steps} \cup {"welcome", "summary", "done"}
StageNames == {"none", "select", "confirm", "details", "key", "base_url", "gemini_auth", "fetching", "models",
               "telegram", "both", "whatsapp", "email", "another"}
Screens == [on : BOOLEAN, edit : BOOLEAN, step : StepNames, stage : StageNames, pick : WizNames, cheapPick : WizNames,
            models : WizNames, fetching : BOOLEAN, rx : Nat, fetches : Nat, save : BOOLEAN, touched : SUBSET Parts,
            bare : SUBSET WizNames]
Files == [exists : BOOLEAN, parses : BOOLEAN, config : Configs]

WizTypes ==
  /\ ui \in Screens /\ cfg \in Configs /\ visit \in Nat
  /\ threads \subseteq [chan : Nat, of : WizNames] /\ mail \subseteq [of : WizNames, got : {"models", "none", "error"}]
  /\ configFile \in Files

(* What is on the screen of the steps that choose models fits what is      *)
(* configured; what is asked for then belongs to it.                       *)
Target(u, c) == IF u.step = "provider" THEN c.provider ELSE c.cheap
PickOf(u) == IF u.step = "provider" THEN u.pick ELSE u.cheapPick
StageFits(u, c) ==
  /\ u.step = "provider" /\ u.stage # "select" => u.pick # Unset
  /\ u.step = "provider" /\ u.stage = "base_url" => u.pick = Custom
  /\ u.step \in {"provider", "cheap"} /\ u.stage = "models" =>
       ModelFits(u, Target(u, c), u.models) /\ PickOf(u) = Target(u, c) /\ u.step \in u.touched
  /\ u.fetching => u.step \in {"provider", "cheap"} /\ u.stage = "fetching" /\ u.rx > 0 /\ PickOf(u) = Target(u, c) /\ u.step \in u.touched
  /\ ~u.fetching => u.rx = 0
  /\ u.save /\ u.on => u.step = "done"

AnswersFit ==
  /\ \A t \in threads : 0 < t.chan /\ t.chan <= ui.fetches
  /\ ui.fetching => /\ \A t \in threads : t.chan = ui.rx => t.of = Target(ui, cfg)
                    /\ \A m \in mail : m.of = Target(ui, cfg)
  /\ ~ui.fetching => mail = {}

OwnIs(u, c) ==
  /\ c.provider = Unset => c.own = Unset /\ c.model = Unset
  /\ c.provider # Unset => c.own # Unset
  /\ "provider" \in u.touched => c.provider # Unset /\ ModelFits(u, c.provider, c.own)

(* What was not touched is as it was loaded.                               *)
SameProvider(c, d) == c.provider = d.provider /\ c.own = d.own /\ c.model = d.model
SameCheap(c, d) == c.cheap = d.cheap /\ c.cheapModel = d.cheapModel
SectionsFit(u, c) == \A s \in Sections \ u.touched : c.is[s] = configFile.config.is[s]
Untouched(u, c) ==
  configFile.parses =>
    /\ SectionsFit(u, c)
    /\ "provider" \notin u.touched => SameProvider(c, FromJson(configFile.config))
    /\ "cheap" \notin u.touched => SameCheap(c, configFile.config)

PastProvider(step) == step \notin {"welcome", "provider"}
PastCheap(step) == step \notin {"welcome", "provider", "cheap"}
FirstFits(u, c) ==
  /\ PastProvider(u.step) => c.model = c.own
  /\ PastCheap(u.step) => ModelFits(u, c.cheap, c.cheapModel)

Session(u, c) ==
  /\ OwnIs(u, c)
  /\ u.on => Untouched(u, c) /\ (~u.edit => FirstFits(u, c))

WizInv ==
  /\ WizTypes /\ StageFits(ui, cfg) /\ AnswersFit /\ Session(ui, cfg)
  /\ ~ui.on => threads = {} /\ mail = {} /\ ui = Closed

-----------------------------------------------------------------------------
(* Navigation.                                                             *)

LEMMA StepIs == /\ Len(Steps) = 9 /\ DOMAIN Steps = 1 .. 9
                /\ Steps[1] = "provider" /\ Steps[2] = "cheap" /\ Steps[3] = "timezone" /\ Steps[4] = "memory"
                /\ Steps[5] = "voice" /\ Steps[6] = "channels" /\ Steps[7] = "composio" /\ Steps[8] = "web"
                /\ Steps[9] = "pushover"
BY DEF Steps

LEMMA StepFound ==
  ASSUME NEW k \in 1 .. 9, NEW x, x = Steps[k]
  PROVE  {i \in 1 .. Len(Steps) : Steps[i] = x} = {k} /\ Min({k}) = k
<1>1. \A i \in 1 .. 9 : Steps[i] = Steps[k] => i = k
  BY StepIs
<1>2. {i \in 1 .. Len(Steps) : Steps[i] = x} = {k}
  BY <1>1, StepIs
<1>3. Min({k}) = k
  BY MinIs
<1> QED BY <1>2, <1>3

(* A screen that is entered, and that shows nothing of a choice of models. *)
Enters(u, v) ==
  \E st \in {"none", "select", "confirm"} :
    /\ v = [u EXCEPT !.step = v.step, !.stage = st, !.models = Unset, !.pick = Unset, !.cheapPick = Unset]
    /\ v.step \in StepNames
    /\ v.step = "provider" => st = "select"

LEMMA StepsEntered ==
  ASSUME NEW u \in Screens, NEW i \in 1 .. 9
  PROVE  Enters(u, Enter(u, Steps[i])) /\ Enter(u, Steps[i]).step = Steps[i]
<1>1. Opening(Steps[i]) \in {"none", "select", "confirm"} /\ (Steps[i] = "provider" => Opening(Steps[i]) = "select")
  BY DEF Opening
<1>2. Steps[i] \in StepNames
  BY StepIs DEF StepNames
<1> QED BY <1>1, <1>2 DEF Enter, At, Enters, Screens

LEMMA AdvanceIs ==
  ASSUME NEW u \in Screens, NEW k \in 1 .. 9, u.step = Steps[k]
  PROVE  /\ Enters(u, AdvanceStep(u))
         /\ AdvanceStep(u).step = IF u.edit \/ k = 9 THEN "summary" ELSE Steps[k + 1]
<1>1. SelectInSeq(Steps, LAMBDA s : s = u.step) = k
  BY StepFound DEF SelectInSeq
<1>2. AdvanceStep(u) = IF u.edit \/ k = 9 THEN At(u, "summary", "none") ELSE Enter(u, Steps[k + 1])
  BY <1>1, StepIs DEF AdvanceStep
<1>3. Enters(u, At(u, "summary", "none")) /\ At(u, "summary", "none").step = "summary"
  BY DEF At, Enters, Screens, StepNames
<1>4. k # 9 => k + 1 \in 1 .. 9
  OBVIOUS
<1> QED BY <1>2, <1>3, <1>4, StepsEntered

LEMMA GoBackIs ==
  ASSUME NEW u \in Screens, NEW k \in 1 .. 9, u.step = Steps[k]
  PROVE  /\ Enters(u, GoBack(u))
         /\ GoBack(u).step = IF u.edit THEN "summary" ELSE IF k = 1 THEN "welcome" ELSE Steps[k - 1]
<1>1. SelectInSeq(Steps, LAMBDA s : s = u.step) = k
  BY StepFound DEF SelectInSeq
<1>2. GoBack(u) = IF u.edit THEN At(u, "summary", "none")
                  ELSE IF k = 1 THEN At(u, "welcome", "none") ELSE Enter(u, Steps[k - 1])
  BY <1>1, StepIs DEF GoBack
<1>3. \A s \in {"summary", "welcome"} : Enters(u, At(u, s, "none")) /\ At(u, s, "none").step = s
  BY DEF At, Enters, Screens, StepNames
<1>4. k # 1 => k - 1 \in 1 .. 9
  OBVIOUS
<1> QED BY <1>2, <1>3, <1>4, StepsEntered

(* Without a fetch, a screen may be replaced by one that fits.             *)
Replaces(v, c) ==
  /\ v \in Screens /\ c \in Configs
  /\ v.on /\ ~v.fetching /\ v.edit = ui.edit /\ v.fetches = ui.fetches
  /\ StageFits(v, c)
  /\ OwnIs(v, c)
  /\ Untouched(ui, cfg) => Untouched(v, c)
  /\ ~ui.edit /\ FirstFits(ui, cfg) => FirstFits(v, c)

LEMMA Replaced ==
  ASSUME WizInv, ui.on, ~ui.fetching, Replaces(ui', cfg'), UNCHANGED <<threads, mail, configFile, visit>>
  PROVE  WizInv'
<1>1. WizTypes'
  BY DEF WizInv, WizTypes, Replaces
<1>2. StageFits(ui, cfg)'
  BY DEF Replaces, StageFits, Target, PickOf, ModelFits
<1>3. AnswersFit'
  BY DEF WizInv, AnswersFit, Replaces
<1>4. Untouched(ui', cfg') => Untouched(ui, cfg)'
  BY DEF Untouched, SectionsFit
<1>5. Session(ui, cfg)'
  BY <1>4 DEF WizInv, Session, Replaces, OwnIs, FirstFits, ModelFits
<1> QED BY <1>1, <1>2, <1>3, <1>5 DEF WizInv, Replaces

(* A step is left, or another entered, and nothing of the choices of       *)
(* models changes.                                                         *)
LEMMA EnteredFits ==
  ASSUME WizInv, ui.on, ~ui.fetching, ~ui.save, NEW v, Enters(ui, v)
  PROVE  /\ v \in Screens /\ v.on /\ ~v.fetching /\ v.edit = ui.edit /\ v.fetches = ui.fetches /\ v.save = ui.save
         /\ v.touched = ui.touched /\ v.bare = ui.bare
         /\ \A c : StageFits(v, c)
<1>1. PICK st \in {"none", "select", "confirm"} :
         /\ v = [ui EXCEPT !.step = v.step, !.stage = st, !.models = Unset, !.pick = Unset, !.cheapPick = Unset]
         /\ v.step \in StepNames
         /\ v.step = "provider" => st = "select"
  BY Zenon DEF Enters
<1>2. ui \in Screens /\ StageFits(ui, cfg)
  BY DEF WizInv, WizTypes
<1>3. Unset \in WizNames /\ st \in StageNames
  BY DEF WizNames, StageNames
<1>4. /\ v \in Screens /\ v.on = ui.on /\ v.fetching = ui.fetching /\ v.edit = ui.edit /\ v.fetches = ui.fetches /\ v.save = ui.save
      /\ v.touched = ui.touched /\ v.bare = ui.bare /\ v.stage = st /\ v.rx = ui.rx
  BY <1>1, <1>2, <1>3 DEF Screens
<1>5. v.rx = 0
  BY <1>2, <1>4 DEF StageFits
<1> QED BY <1>1, <1>4, <1>5 DEF StageFits

(* A screen that fits the configuration as it is, and comes later than the *)
(* steps of models only where those are done.                              *)
Shows(v) ==
  /\ v \in Screens /\ v.on /\ ~v.fetching /\ v.edit = ui.edit /\ v.fetches = ui.fetches
  /\ v.touched = ui.touched /\ v.bare = ui.bare /\ StageFits(v, cfg)
  /\ ~ui.edit => /\ PastProvider(v.step) => PastProvider(ui.step)
                 /\ PastCheap(v.step) => PastCheap(ui.step)

SameNames(c) ==
  /\ c.provider = cfg.provider /\ c.own = cfg.own /\ c.model = cfg.model
  /\ c.cheap = cfg.cheap /\ c.cheapModel = cfg.cheapModel

LEMMA TouchIs ==
  ASSUME NEW v \in Screens, NEW chosen
  PROVE  LET w == Touch(v, chosen)
         IN /\ w \in Screens /\ w.touched = v.touched \cup (chosen \cap Parts)
            /\ w.on = v.on /\ w.edit = v.edit /\ w.step = v.step /\ w.stage = v.stage /\ w.pick = v.pick
            /\ w.cheapPick = v.cheapPick /\ w.models = v.models /\ w.fetching = v.fetching /\ w.rx = v.rx
            /\ w.fetches = v.fetches /\ w.save = v.save /\ w.bare = v.bare
<1>1. PICK tt \in SUBSET Parts : tt = v.touched \cup (chosen \cap Parts)
  BY DEF Screens
<1>2. Touch(v, chosen) = [v EXCEPT !.touched = tt]
  BY <1>1 DEF Touch, Screens
<1> QED BY <1>1, <1>2 DEF Screens

LEMMA PartsAre == Sections \subseteq Parts /\ "provider" \in Parts /\ "cheap" \in Parts
                  /\ "provider" \notin Sections /\ "cheap" \notin Sections
BY WizardAssumption DEF Parts

LEMMA ShownWith ==
  ASSUME WizInv, ui.on, ~ui.fetching, NEW v, Shows(v), NEW chosen, ui' = Touch(v, chosen),
         "provider" \notin chosen, "cheap" \notin chosen,
         cfg' \in Configs, SameNames(cfg'), \A s \in Sections \ chosen : cfg'.is[s] = cfg.is[s],
         UNCHANGED <<threads, mail, configFile, visit>>
  PROVE  WizInv'
<1>1. v \in Screens
  BY DEF Shows
<1>2. PICK tt : tt = v.touched \cup (chosen \cap Parts)
  OBVIOUS
<1>3. /\ ui' \in Screens /\ ui'.on /\ ~ui'.fetching /\ ui'.edit = ui.edit /\ ui'.fetches = ui.fetches
      /\ ui'.touched = tt /\ ui.touched \subseteq tt /\ ui'.bare = ui.bare
      /\ ui'.step = v.step /\ ui'.stage = v.stage /\ ui'.pick = v.pick /\ ui'.cheapPick = v.cheapPick
      /\ ui'.models = v.models /\ ui'.rx = v.rx /\ ui'.save = v.save /\ ui'.bare = v.bare
  BY <1>1, <1>2, TouchIs DEF Shows
<1>4. StageFits(ui', cfg')
  BY <1>2, <1>3 DEF Shows, StageFits, SameNames, Target, PickOf, ModelFits
<1>5. ("provider" \in tt <=> "provider" \in ui.touched) /\ ("cheap" \in tt <=> "cheap" \in ui.touched)
  BY <1>2 DEF Shows
<1>6. OwnIs(ui', cfg')
  BY <1>3, <1>5 DEF WizInv, Session, OwnIs, SameNames, ModelFits
<1>7. SectionsFit(ui, cfg) => SectionsFit(ui', cfg')
  BY <1>2, <1>3, PartsAre DEF SectionsFit, Shows
<1>8. Untouched(ui, cfg) => Untouched(ui', cfg')
  BY <1>3, <1>5, <1>7 DEF Untouched, SameNames, SameProvider, SameCheap
<1>9. ~ui.edit /\ FirstFits(ui, cfg) => FirstFits(ui', cfg')
  BY <1>3 DEF FirstFits, Shows, SameNames, ModelFits
<1> QED BY <1>3, <1>4, <1>6, <1>8, <1>9, Replaced DEF Replaces

LEMMA GotoKeeps ==
  ASSUME WizInv, ui.on, ~ui.fetching, NEW v, Shows(v), Goto(v)
  PROVE  WizInv'
<1>1. ui' = Touch(v, {})
  BY DEF Touch, Goto, Shows, Screens
<1>2. cfg' \in Configs /\ SameNames(cfg') /\ \A s \in Sections \ {} : cfg'.is[s] = cfg.is[s]
  BY DEF Goto, SameNames, WizInv, WizTypes
<1> QED BY <1>1, <1>2, ShownWith DEF Goto

LEMMA FillKeeps ==
  ASSUME WizInv, ui.on, ~ui.fetching, NEW v, Shows(v), NEW section, section \notin {"provider", "cheap"}, NEW value \in Nat,
         Fill(v, section, value)
  PROVE  WizInv'
<1>1. ui' = Touch(v, {section}) /\ UNCHANGED <<threads, mail, configFile, visit>>
  BY DEF Fill
<1>2. cfg' \in Configs /\ SameNames(cfg') /\ \A s \in Sections \ {section} : cfg'.is[s] = cfg.is[s]
  BY DEF Fill, Put, SameNames, WizInv, WizTypes, Configs
<1> QED BY <1>1, <1>2, ShownWith

LEMMA ScreenIs ==
  ASSUME WizInv, NEW step, NEW stage, Showing(step, stage)
  PROVE  /\ ui \in Screens /\ ui.on /\ ~ui.fetching /\ ui.step = step /\ ui.stage = stage
         /\ (step # "done" => ~ui.save) /\ ui.rx = 0
BY DEF Showing, WizInv, WizTypes, StageFits

(* Another stage of the step.                                              *)
LEMMA StageShows ==
  ASSUME WizInv, ui.on, ~ui.fetching, ~ui.save, NEW st \in StageNames,
         ui.step = "provider" => st = "select" \/ (st = "key" /\ ui.pick # Unset),
         ui.step = "cheap" => st # "models"
  PROVE  Shows([ui EXCEPT !.stage = st])
<1>1. ui \in Screens /\ StageFits(ui, cfg)
  BY DEF WizInv, WizTypes
<1>2. PICK v : v = [ui EXCEPT !.stage = st]
  OBVIOUS
<1>3. /\ v \in Screens /\ v.stage = st /\ v.on = ui.on /\ v.fetching = ui.fetching /\ v.edit = ui.edit
      /\ v.fetches = ui.fetches /\ v.touched = ui.touched /\ v.step = ui.step /\ v.pick = ui.pick
      /\ v.save = ui.save /\ v.rx = ui.rx /\ v.bare = ui.bare
  BY <1>1, <1>2 DEF Screens
<1>4. StageFits(v, cfg)
  BY <1>1, <1>3 DEF StageFits
<1> QED BY <1>2, <1>3, <1>4 DEF Shows

LEMMA StageKeeps ==
  ASSUME WizInv, ui.on, ~ui.fetching, ~ui.save, NEW st \in StageNames, Stage(st),
         ui.step = "provider" => st = "select" \/ (st = "key" /\ ui.pick # Unset),
         ui.step = "cheap" => st # "models"
  PROVE  WizInv'
BY StageShows, GotoKeeps DEF Stage

LEMMA EntersShows ==
  ASSUME WizInv, ui.on, ~ui.fetching, ~ui.save, NEW v, Enters(ui, v),
         ~ui.edit => (PastProvider(v.step) => PastProvider(ui.step)) /\ (PastCheap(v.step) => PastCheap(ui.step))
  PROVE  Shows(v)
BY EnteredFits DEF Shows

(* Onwards from a step after those of models, and back from any.           *)
LEMMA AdvanceShows ==
  ASSUME WizInv, ui.on, ~ui.fetching, ~ui.save,
         ui.step \in {"timezone", "memory", "voice", "channels", "composio", "web", "pushover"}
  PROVE  Shows(AdvanceStep(ui))
<1>1. ui \in Screens
  BY DEF WizInv, WizTypes
<1>2. PICK k \in 3 .. 9 : ui.step = Steps[k]
  BY StepIs
<1>3. Enters(ui, AdvanceStep(ui))
  BY <1>1, <1>2, AdvanceIs
<1>4. PastProvider(ui.step) /\ PastCheap(ui.step)
  BY DEF PastProvider, PastCheap
<1> QED BY <1>3, <1>4, EntersShows

LEMMA GoBackShows ==
  ASSUME WizInv, ui.on, ~ui.fetching, ~ui.save, NEW k \in 1 .. 9, ui.step = Steps[k]
  PROVE  Shows(GoBack(ui))
<1>1. ui \in Screens
  BY DEF WizInv, WizTypes
<1>2. /\ Enters(ui, GoBack(ui))
      /\ GoBack(ui).step = IF ui.edit THEN "summary" ELSE IF k = 1 THEN "welcome" ELSE Steps[k - 1]
  BY <1>1, GoBackIs
<1>3. CASE k \in {1, 2, 3}
  BY <1>2, <1>3, StepIs, EntersShows DEF PastProvider, PastCheap
<1>4. CASE k \in 4 .. 9
  BY <1>2, <1>4, StepIs, EntersShows DEF PastProvider, PastCheap
<1> QED BY <1>3, <1>4

-----------------------------------------------------------------------------
(* The steps after those of models.                                        *)

LEMMA ConfirmedKeeps ==
  ASSUME WizInv, NEW step \in {"voice", "composio", "pushover"},
         Confirmed(step, Fill(AdvanceStep(ui), step, 0))
  PROVE  WizInv'
<1>1. CASE Showing(step, "confirm") /\ (Stage("details") \/ Goto(GoBack(ui)) \/ Fill(AdvanceStep(ui), step, 0))
  <2>1. ui.on /\ ~ui.fetching /\ ~ui.save /\ ui.step = step
    BY <1>1, ScreenIs
  <2>2. "details" \in StageNames
    BY DEF StageNames
  <2>3. ASSUME Stage("details") PROVE WizInv'
    BY <2>1, <2>2, <2>3, StageKeeps
  <2>4. Shows(GoBack(ui))
    <3>1. PICK k \in 1 .. 9 : ui.step = Steps[k]
      BY <2>1, StepIs
    <3> QED BY <2>1, <3>1, GoBackShows
  <2>5. Shows(AdvanceStep(ui))
    BY <2>1, AdvanceShows
  <2> QED BY <1>1, <2>1, <2>3, <2>4, <2>5, GotoKeeps, FillKeeps
<1>2. CASE Showing(step, "details") /\ (Stage("confirm") \/ Fill(AdvanceStep(ui), step, visit))
  <2>1. ui.on /\ ~ui.fetching /\ ~ui.save /\ ui.step = step
    BY <1>2, ScreenIs
  <2>2. "confirm" \in StageNames /\ visit \in Nat
    BY DEF StageNames, WizInv, WizTypes
  <2>3. ASSUME Stage("confirm") PROVE WizInv'
    BY <2>1, <2>2, <2>3, StageKeeps
  <2>4. Shows(AdvanceStep(ui))
    BY <2>1, AdvanceShows
  <2> QED BY <1>2, <2>1, <2>2, <2>3, <2>4, FillKeeps
<1> QED BY <1>1, <1>2 DEF Confirmed

LEMMA TimezoneKeeps == WizInv /\ Timezone => WizInv'
<1> SUFFICES ASSUME WizInv, Timezone PROVE WizInv'
  OBVIOUS
<1>1. ui.on /\ ~ui.fetching /\ ~ui.save /\ ui.step = "timezone"
  BY ScreenIs DEF Timezone
<1>2. Shows(AdvanceStep(ui))
  BY <1>1, AdvanceShows
<1>3. Shows(GoBack(ui))
  BY <1>1, StepIs, GoBackShows
<1>4. visit \in Nat
  BY DEF WizInv, WizTypes
<1> QED BY <1>1, <1>2, <1>3, <1>4, GotoKeeps, FillKeeps DEF Timezone

LEMMA WebSearchKeeps == WizInv /\ WebSearch => WizInv'
<1> SUFFICES ASSUME WizInv, WebSearch PROVE WizInv'
  OBVIOUS
<1>1. ui.on /\ ~ui.fetching /\ ~ui.save /\ ui.step = "web"
  BY ScreenIs DEF WebSearch
<1>2. Shows(AdvanceStep(ui))
  BY <1>1, AdvanceShows
<1>3. visit \in Nat /\ 0 \in Nat
  BY DEF WizInv, WizTypes
<1> QED BY <1>1, <1>2, <1>3, GotoKeeps, FillKeeps DEF WebSearch

LEMMA MemoryBackendKeeps == WizInv /\ MemoryBackend => WizInv'
<1> SUFFICES ASSUME WizInv, MemoryBackend PROVE WizInv'
  OBVIOUS
<1>1. ui.on /\ ~ui.fetching /\ ~ui.save /\ ui.step = "memory"
  BY ScreenIs DEF MemoryBackend
<1>2. Shows(AdvanceStep(ui))
  BY <1>1, AdvanceShows
<1>3. visit \in Nat
  BY DEF WizInv, WizTypes
<1>4. {"confirm", "details", "select"} \subseteq StageNames
  BY DEF StageNames
<1>5. Shows([ui EXCEPT !.stage = "confirm"])
  BY <1>1, <1>4, StageShows
<1>6. ASSUME NEW st \in {"confirm", "details", "select"}, Stage(st) PROVE WizInv'
  BY <1>1, <1>4, <1>6, StageKeeps
<1>7. ASSUME NEW section \in {"memory", "embed"}, NEW v, v = AdvanceStep(ui) \/ v = [ui EXCEPT !.stage = "confirm"], Fill(v, section, visit) PROVE WizInv'
  BY <1>1, <1>2, <1>3, <1>5, <1>7, FillKeeps
<1>8. ASSUME Goto(AdvanceStep(ui)) PROVE WizInv'
  BY <1>1, <1>2, <1>8, GotoKeeps
<1> QED BY <1>6, <1>7, <1>8, Zenon DEF MemoryBackend

(* A form of channels, and one that switches them off.                     *)
LEMMA ChannelsPut ==
  ASSUME WizInv, ui.on, ~ui.fetching, NEW v, Shows(v), NEW sections, NEW value \in Nat,
         "provider" \notin sections, "cheap" \notin sections,
         ui' = Touch(v, sections), cfg' = [cfg EXCEPT !.is = [s \in Sections |-> IF s \in sections THEN value ELSE @[s]]],
         UNCHANGED <<threads, mail, configFile, visit>>
  PROVE  WizInv'
<1>1. cfg \in Configs
  BY DEF WizInv, WizTypes
<1>2. cfg' \in Configs /\ SameNames(cfg') /\ \A s \in Sections \ sections : cfg'.is[s] = cfg.is[s]
  BY <1>1 DEF SameNames, Configs
<1> QED BY <1>2, ShownWith

LEMMA ChannelsKeeps == WizInv /\ Channels => WizInv'
<1> SUFFICES ASSUME WizInv, Channels PROVE WizInv'
  OBVIOUS
<1>1. ui.on /\ ~ui.fetching /\ ~ui.save /\ ui.step = "channels"
  BY ScreenIs DEF Channels
<1>2. Shows(AdvanceStep(ui))
  BY <1>1, AdvanceShows
<1>3. visit \in Nat /\ 0 \in Nat
  BY DEF WizInv, WizTypes
<1>4. {"select", "telegram", "both", "whatsapp", "email", "another"} \subseteq StageNames
  BY DEF StageNames
<1>5. Shows([ui EXCEPT !.stage = "another"])
  BY <1>1, <1>4, StageShows
<1>6. ASSUME NEW st \in {"select", "telegram", "both", "whatsapp", "email", "another"}, Stage(st) PROVE WizInv'
  BY <1>1, <1>4, <1>6, StageKeeps
<1>7. CASE /\ ui' = Touch(AdvanceStep(ui), {"telegram", "whatsapp", "email"})
           /\ cfg' = [cfg EXCEPT !.is = [s \in Sections |-> IF s \in {"telegram", "whatsapp", "email"} THEN 0 ELSE @[s]]]
           /\ UNCHANGED <<threads, mail, configFile, visit>>
  BY <1>1, <1>2, <1>3, <1>7, ChannelsPut
<1>8. CASE /\ ui' = Touch([ui EXCEPT !.stage = "another"], {"telegram", "whatsapp"})
           /\ cfg' = [cfg EXCEPT !.is = [s \in Sections |-> IF s \in {"telegram", "whatsapp"} THEN visit ELSE @[s]]]
           /\ UNCHANGED <<threads, mail, configFile, visit>>
  BY <1>1, <1>3, <1>5, <1>8, ChannelsPut
<1>9. ASSUME NEW channel \in {"telegram", "whatsapp", "email"}, Fill([ui EXCEPT !.stage = "another"], channel, visit) PROVE WizInv'
  BY <1>1, <1>3, <1>5, <1>9, FillKeeps
<1>10. ASSUME Goto(AdvanceStep(ui)) PROVE WizInv'
  BY <1>1, <1>2, <1>10, GotoKeeps
<1> QED BY <1>6, <1>7, <1>8, <1>9, <1>10 DEF Channels

LEMMA BackFromListKeeps == WizInv /\ BackFromList => WizInv'
<1> SUFFICES ASSUME WizInv, NEW step \in {"provider", "cheap", "memory", "channels"}, Showing(step, "select"), Goto(GoBack(ui))
             PROVE  WizInv'
  BY DEF BackFromList
<1>1. ui.on /\ ~ui.fetching /\ ~ui.save /\ ui.step = step
  BY ScreenIs
<1>2. PICK k \in 1 .. 9 : ui.step = Steps[k]
  BY <1>1, StepIs
<1> QED BY <1>1, <1>2, GoBackShows, GotoKeeps

-----------------------------------------------------------------------------
(* Sessions.                                                               *)

LEMMA ClosedIs ==
  /\ Closed \in Screens /\ ~Closed.on /\ ~Closed.fetching /\ ~Closed.save /\ Closed.rx = 0 /\ Closed.step = "done"
  /\ Closed.touched = {}
  /\ EmptyConfig \in Configs /\ EmptyConfig.own = Unset /\ EmptyConfig.provider = Unset /\ EmptyConfig.model = Unset
  /\ NoFile \in Files /\ ~NoFile.parses /\ BrokenFile \in Files /\ ~BrokenFile.parses
<1>1. Unset \in WizNames /\ "done" \in StepNames /\ "none" \in StageNames
  BY DEF WizNames, StepNames, StageNames
<1>2. EmptyConfig \in Configs /\ EmptyConfig.own = Unset /\ EmptyConfig.provider = Unset /\ EmptyConfig.model = Unset
  BY <1>1 DEF EmptyConfig, Configs
<1>3. /\ Closed \in Screens /\ ~Closed.on /\ ~Closed.fetching /\ ~Closed.save /\ Closed.rx = 0 /\ Closed.step = "done"
      /\ Closed.touched = {}
  BY <1>1 DEF Closed, Screens
<1>4. NoFile \in Files /\ ~NoFile.parses
  BY <1>2 DEF NoFile, Files
<1>5. BrokenFile \in Files /\ ~BrokenFile.parses
  BY <1>4 DEF BrokenFile, Files
<1> QED BY <1>2, <1>3, <1>4, <1>5

LEMMA FilesAre == \A c \in Configs : FileOf(c) \in Files /\ FileOf(c).parses /\ FileOf(c).config = c
BY DEF FileOf, Files

LEMMA WizardStarts == WizardInit => WizInv
<1> SUFFICES ASSUME WizardInit PROVE WizInv
  OBVIOUS
<1>1. configFile \in Files
  BY ClosedIs, FilesAre, WizardAssumption DEF WizardInit
<1>2. WizTypes
  BY <1>1, ClosedIs DEF WizardInit, WizTypes
<1>3. StageFits(ui, cfg) /\ AnswersFit /\ Session(ui, cfg)
  BY ClosedIs DEF WizardInit, StageFits, AnswersFit, Session, OwnIs
<1> QED BY <1>2, <1>3 DEF WizInv, WizardInit

LEMMA LoadedIs ==
  ASSUME WizTypes
  PROVE  /\ Loaded \in Configs
         /\ Loaded.provider = Unset => Loaded.own = Unset /\ Loaded.model = Unset
         /\ Loaded.provider # Unset => Loaded.own # Unset
         /\ configFile.parses => /\ Loaded = FromJson(configFile.config) /\ Loaded.is = configFile.config.is
                                 /\ SameCheap(Loaded, configFile.config)
         /\ ~configFile.parses => Loaded = EmptyConfig
<1>1. PICK c \in Configs : c = configFile.config
  BY DEF WizTypes, Files
<1>2. NoModel # Unset /\ Unset \in WizNames /\ NoModel \in WizNames
  BY WizardAssumption DEF WizNames
<1>3. /\ FromJson(c) \in Configs /\ FromJson(c).is = c.is /\ SameCheap(FromJson(c), c)
      /\ FromJson(c).provider = Unset => FromJson(c).own = Unset /\ FromJson(c).model = Unset
      /\ FromJson(c).provider # Unset => FromJson(c).own # Unset
  <2>1. CASE c.provider = Unset
    BY <1>2, <2>1 DEF FromJson, Configs, SameCheap
  <2>2. CASE c.provider # Unset
    <3>1. PICK own \in WizNames : own = (IF c.own # Unset THEN c.own ELSE IF c.model # Unset THEN c.model ELSE NoModel) /\ own # Unset
      BY <1>2 DEF Configs
    <3>2. FromJson(c) = [c EXCEPT !.own = own]
      BY <2>2, <3>1 DEF FromJson, Configs
    <3> QED BY <2>2, <3>1, <3>2 DEF Configs, SameCheap
  <2> QED BY <2>1, <2>2
<1>4. configFile.parses => Loaded = FromJson(c)
  BY <1>1 DEF Loaded
<1>5. ~configFile.parses => Loaded = EmptyConfig
  BY DEF Loaded
<1> QED BY <1>1, <1>3, <1>4, <1>5, ClosedIs

LEMMA OpenKeeps == WizInv /\ Start => WizInv'
<1> SUFFICES ASSUME WizInv, Start PROVE WizInv'
  OBVIOUS
<1>1. WizTypes /\ ui = Closed /\ threads = {} /\ mail = {}
  BY DEF WizInv, Start
<1>2. /\ visit' = visit + 1 /\ cfg' = Loaded /\ UNCHANGED <<threads, mail, configFile>>
      /\ ui' = [Closed EXCEPT !.on = TRUE, !.edit = configFile.exists,
                            !.step = IF configFile.exists THEN "summary" ELSE "welcome"]
  BY DEF Start
<1>3. configFile.exists \in BOOLEAN /\ visit \in Nat
  BY <1>1 DEF WizTypes, Files
<1>4. {"summary", "welcome"} \subseteq StepNames
  BY DEF StepNames
<1>5. /\ ui' \in Screens /\ ui'.on /\ ui'.edit = configFile.exists /\ ~ui'.fetching /\ ui'.rx = 0 /\ ~ui'.save
      /\ ui'.step = (IF configFile.exists THEN "summary" ELSE "welcome") /\ ui'.touched = {}
  BY <1>2, <1>3, <1>4, ClosedIs DEF Screens
<1>6. WizTypes'
  BY <1>1, <1>2, <1>3, <1>5, LoadedIs DEF WizTypes
<1>7. StageFits(ui, cfg)' /\ AnswersFit'
  BY <1>1, <1>2, <1>5 DEF StageFits, AnswersFit
<1>8. OwnIs(ui, cfg)'
  BY <1>1, <1>2, <1>5, LoadedIs DEF OwnIs
<1>9. Untouched(ui, cfg)'
  BY <1>1, <1>2, <1>5, LoadedIs DEF Untouched, SectionsFit, SameProvider, SameCheap
<1>10. ~ui'.edit => FirstFits(ui, cfg)'
  BY <1>5 DEF FirstFits, PastProvider, PastCheap
<1>11. Session(ui, cfg)'
  BY <1>8, <1>9, <1>10 DEF Session
<1> QED BY <1>5, <1>6, <1>7, <1>11 DEF WizInv

(* What a session writes.                                                  *)
SavedFits ==
  LET old == configFile.config  new == configFile'.config
  IN /\ "provider" \in ui.touched => ModelFits(ui, new.provider, new.own)
     /\ ~ui.edit => new.model = new.own /\ ModelFits(ui, new.cheap, new.cheapModel)
     /\ configFile.parses =>
          /\ \A s \in Sections \ ui.touched : new.is[s] = old.is[s]
          /\ "provider" \notin ui.touched /\ old.provider # Unset =>
               \A name \in {"provider", "own", "model"} : old[name] # Unset => new[name] = old[name]
          /\ "cheap" \notin ui.touched => new.cheap = old.cheap /\ new.cheapModel = old.cheapModel

LEMMA JsonIs ==
  ASSUME cfg \in Configs
  PROVE  /\ Json \in Configs /\ Json.cheap = cfg.cheap /\ Json.cheapModel = cfg.cheapModel /\ Json.is = cfg.is
         /\ Json.provider = IF cfg.provider = Unset THEN "gemini" ELSE cfg.provider
         /\ Json.own = IF cfg.provider = Unset THEN "gemini" ELSE cfg.own
         /\ Json.model = IF cfg.model = Unset THEN "gemini" ELSE cfg.model
<1>1. PICK provider, own, model :
        /\ provider = IF cfg.provider = Unset THEN "gemini" ELSE cfg.provider
        /\ own = IF cfg.provider = Unset THEN "gemini" ELSE cfg.own
        /\ model = IF cfg.model = Unset THEN "gemini" ELSE cfg.model
  OBVIOUS
<1>2. provider \in WizNames /\ own \in WizNames /\ model \in WizNames
  BY <1>1 DEF Configs, WizNames
<1>3. Json = [cfg EXCEPT !.provider = provider, !.own = own, !.model = model]
  BY <1>1 DEF Json, Configs
<1> QED BY <1>1, <1>2, <1>3 DEF Configs

LEMMA FromJsonKeeps ==
  ASSUME NEW old \in Configs, old.provider # Unset
  PROVE  /\ FromJson(old).provider = old.provider /\ FromJson(old).model = old.model
         /\ old.own # Unset => FromJson(old).own = old.own
<1>1. PICK own : own = IF old.own # Unset THEN old.own ELSE IF old.model # Unset THEN old.model ELSE NoModel
  OBVIOUS
<1>2. own \in WizNames
  BY <1>1 DEF Configs, WizNames
<1>3. FromJson(old) = [old EXCEPT !.own = own]
  BY <1>1 DEF FromJson, Configs
<1> QED BY <1>1, <1>2, <1>3 DEF Configs

LEMMA JsonFits == ASSUME WizInv, ui.on, ui.save, configFile'.config = Json PROVE SavedFits
<1>1. /\ cfg \in Configs /\ configFile.config \in Configs /\ OwnIs(ui, cfg) /\ Untouched(ui, cfg)
      /\ ~ui.edit => FirstFits(ui, cfg)
  BY DEF WizInv, WizTypes, Files, Session
<1>2. PICK old \in Configs, new \in Configs : old = configFile.config /\ new = Json
  BY <1>1, JsonIs
<1>3. /\ new.cheap = cfg.cheap /\ new.cheapModel = cfg.cheapModel /\ new.is = cfg.is
      /\ new.provider = IF cfg.provider = Unset THEN "gemini" ELSE cfg.provider
      /\ new.own = IF cfg.provider = Unset THEN "gemini" ELSE cfg.own
      /\ new.model = IF cfg.model = Unset THEN "gemini" ELSE cfg.model
  BY <1>1, <1>2, JsonIs
<1>4. "provider" \in ui.touched => ModelFits(ui, new.provider, new.own)
  BY <1>1, <1>3 DEF OwnIs
<1>5. ASSUME ~ui.edit PROVE new.model = new.own /\ ModelFits(ui, new.cheap, new.cheapModel)
  <2>1. ui.step = "done"
    BY DEF WizInv, StageFits
  <2>2. cfg.model = cfg.own /\ ModelFits(ui, cfg.cheap, cfg.cheapModel)
    BY <1>1, <1>5, <2>1 DEF FirstFits, PastProvider, PastCheap
  <2> QED BY <1>1, <1>3, <2>2 DEF OwnIs
<1>6. ASSUME configFile.parses PROVE
        /\ \A s \in Sections \ ui.touched : new.is[s] = old.is[s]
        /\ "cheap" \notin ui.touched => new.cheap = old.cheap /\ new.cheapModel = old.cheapModel
  BY <1>1, <1>2, <1>3, <1>6 DEF Untouched, SectionsFit, SameCheap
<1>7. ASSUME configFile.parses, "provider" \notin ui.touched, old.provider # Unset PROVE
        \A name \in {"provider", "own", "model"} : old[name] # Unset => new[name] = old[name]
  <2>1. cfg.provider = FromJson(old).provider /\ cfg.own = FromJson(old).own /\ cfg.model = FromJson(old).model
    BY <1>1, <1>2, <1>7 DEF Untouched, SameProvider
  <2>2. cfg.provider = old.provider /\ cfg.model = old.model /\ (old.own # Unset => cfg.own = old.own)
    BY <1>7, <2>1, FromJsonKeeps
  <2>3. /\ old.provider # Unset => new.provider = old.provider
        /\ old.own # Unset => new.own = old.own
        /\ old.model # Unset => new.model = old.model
    BY <1>3, <1>7, <2>2
  <2> QED BY <2>3
<1> QED BY <1>2, <1>4, <1>5, <1>6, <1>7 DEF SavedFits

(* What a session leaves behind.                                           *)
LEMMA LeaveKeeps ==
  ASSUME WizInv, ui.on, Leave
  PROVE  WizInv' /\ (Saved => SavedFits)
<1>1. WizTypes
  BY DEF WizInv
<1>2. /\ ui' = Closed /\ cfg' = EmptyConfig /\ threads' = {} /\ mail' = {} /\ visit' = visit
      /\ configFile' = configFile \/ configFile' = BrokenFile \/ (ui.save /\ configFile' = FileOf(Json))
  BY DEF Leave
<1>3. Json \in Configs /\ FileOf(Json) \in Files /\ FileOf(Json).config = Json
  BY <1>1, JsonIs, FilesAre DEF WizTypes
<1>4. WizTypes'
  BY <1>1, <1>2, <1>3, ClosedIs DEF WizTypes
<1>5. StageFits(ui, cfg)' /\ AnswersFit' /\ Session(ui, cfg)'
  BY <1>2, ClosedIs DEF StageFits, AnswersFit, Session, OwnIs
<1>6. Saved => ui.save /\ configFile'.config = Json
  BY <1>2, <1>3, ClosedIs DEF Saved
<1>7. Saved => SavedFits
  BY <1>6, JsonFits
<1> QED BY <1>2, <1>4, <1>5, <1>7, ClosedIs DEF WizInv

-----------------------------------------------------------------------------
(* Fetching models.                                                        *)

(* A fetch of the models of what the step then has configured.             *)
LEMMA SpawnFetchKeeps ==
  ASSUME WizInv, ui.on, ~ui.fetching, ~ui.save, ui.step \in {"provider", "cheap"},
         NEW w \in Screens, w.on = ui.on, w.fetching = ui.fetching, w.edit = ui.edit, w.step = ui.step,
         w.fetches = ui.fetches, w.save = ui.save, w.touched = ui.touched, w.bare = ui.bare,
         NEW c \in Configs, c.is = cfg.is, NEW of, of = Target(w, c), of = PickOf(w),
         w.step = "provider" => w.pick # Unset /\ c.provider # Unset /\ c.own = c.provider /\ SameCheap(c, cfg),
         w.step = "cheap" => SameProvider(c, cfg),
         SpawnFetch(Touch(w, {ui.step}), of, c)
  PROVE  WizInv'
<1>0. PICK u, step : u = Touch(w, step) /\ step = {ui.step}
  OBVIOUS
<1>00. step \cap Parts = {ui.step}
  BY <1>0, PartsAre
<1>000. u \in Screens /\ u.touched = w.touched \cup (step \cap Parts)
        /\ u.on = w.on /\ u.edit = w.edit /\ u.step = w.step /\ u.pick = w.pick
        /\ u.cheapPick = w.cheapPick /\ u.fetching = w.fetching
        /\ u.fetches = w.fetches /\ u.save = w.save /\ u.bare = w.bare
  BY <1>0, TouchIs
<1>01. /\ u \in Screens /\ u.on = ui.on /\ u.fetching = ui.fetching /\ u.edit = ui.edit /\ u.step = ui.step
       /\ u.fetches = ui.fetches /\ u.save = ui.save /\ u.bare = ui.bare /\ u.pick = w.pick /\ u.cheapPick = w.cheapPick
       /\ u.touched = ui.touched \cup {ui.step}
  BY <1>00, <1>000
<1>02. of = Target(u, c) /\ of = PickOf(u) /\ SpawnFetch(u, of, c)
  BY <1>0, <1>01 DEF Target, PickOf
<1>1. WizTypes /\ Session(ui, cfg) /\ AnswersFit
  BY DEF WizInv
<1>2. PICK n \in Nat : n = ui.fetches + 1 /\ n > 0
  BY <1>1 DEF WizTypes, Screens
<1>3. /\ cfg' = c /\ UNCHANGED <<mail, configFile, visit>>
      /\ ui' = [u EXCEPT !.stage = "fetching", !.fetching = TRUE, !.fetches = n, !.rx = n]
      /\ threads' = threads \cup {[chan |-> n, of |-> of]}
  BY <1>02, <1>2 DEF SpawnFetch, NextFetch, Channel
<1>4. /\ ui' \in Screens /\ ui'.on = ui.on /\ ui'.fetching /\ ui'.edit = ui.edit /\ ui'.step = u.step /\ ui'.stage = "fetching"
      /\ ui'.pick = u.pick /\ ui'.cheapPick = u.cheapPick /\ ui'.fetches = n /\ ui'.rx = n /\ ui'.save = ui.save
      /\ ui'.touched = u.touched /\ ui'.bare = ui.bare
  BY <1>01, <1>2, <1>3 DEF Screens, StageNames
<1>5. of \in WizNames
  BY <1>02 DEF Target, Configs
<1>6. WizTypes'
  BY <1>1, <1>3, <1>4, <1>5 DEF WizTypes
<1>7. Target(ui', cfg') = of /\ PickOf(ui') = of
  BY <1>02, <1>3, <1>4 DEF Target, PickOf
<1>8. StageFits(ui', cfg')
  BY <1>01, <1>2, <1>4, <1>7 DEF StageFits
<1>9. AnswersFit'
  <2>1. \A t \in threads : t.chan \in Nat /\ 0 < t.chan /\ t.chan < n
    BY <1>1, <1>2 DEF AnswersFit, WizTypes, Screens
  <2>2. mail' = {}
    BY <1>1, <1>3 DEF AnswersFit
  <2>3. ASSUME NEW t \in threads' PROVE 0 < t.chan /\ t.chan <= n /\ (t.chan = n => t.of = of)
    <3>1. CASE t \in threads
      BY <1>2, <2>1, <3>1
    <3>2. CASE t = [chan |-> n, of |-> of]
      BY <1>2, <3>2
    <3> QED BY <1>3, <3>1, <3>2
  <2> QED BY <1>4, <1>7, <2>2, <2>3 DEF AnswersFit
<1>10. Session(ui, cfg)'
  <2>1. /\ cfg' = c /\ configFile' = configFile /\ ui'.touched = ui.touched \cup {ui.step} /\ ui'.bare = ui.bare
        /\ ui'.step = ui.step /\ ui'.edit = ui.edit
    BY <1>01, <1>3, <1>4
  <2>2. OwnIs(ui, cfg) /\ Untouched(ui, cfg) /\ (~ui.edit => FirstFits(ui, cfg))
    BY <1>1 DEF Session
  <2>3. OwnIs(ui', cfg')
    <3>1. CASE ui.step = "provider"
      BY <1>01, <2>1, <3>1 DEF OwnIs, ModelFits
    <3>2. CASE ui.step = "cheap"
      BY <1>01, <2>1, <2>2, <3>2 DEF OwnIs, ModelFits, SameProvider
    <3> QED BY <3>1, <3>2
  <2>4. Untouched(ui', cfg')
    <3>1. SectionsFit(ui, cfg) => SectionsFit(ui', cfg')
      BY <2>1 DEF SectionsFit
    <3> QED BY <1>01, <2>1, <2>2, <3>1 DEF Untouched, SameProvider, SameCheap
  <2>5. ~ui'.edit => FirstFits(ui', cfg')
    BY <1>01, <2>1, <2>2 DEF FirstFits, PastProvider, PastCheap, SameProvider
  <2>6. OwnIs(ui, cfg)' /\ Untouched(ui, cfg)' /\ (~ui'.edit => FirstFits(ui, cfg)')
    BY <2>1, <2>3, <2>4, <2>5 DEF OwnIs, Untouched, SectionsFit, FirstFits, ModelFits
  <2> QED BY <2>6 DEF Session
<1> QED BY <1>4, <1>6, <1>8, <1>9, <1>10 DEF WizInv, StageFits, Target, PickOf, ModelFits

LEMMA FetchAnswersKeeps == WizInv /\ FetchAnswers => WizInv'
<1> SUFFICES ASSUME WizInv, NEW t \in threads, NEW got \in {"models", "none", "error"},
                    threads' = threads \ {t},
                    mail' = IF t.chan = ui.rx THEN mail \cup {[of |-> t.of, got |-> got]} ELSE mail,
                    UNCHANGED <<ui, cfg, configFile, visit>>
             PROVE  WizInv'
  BY DEF FetchAnswers
<1>1. WizTypes /\ AnswersFit /\ StageFits(ui, cfg) /\ ui.on
  BY DEF WizInv
<1>2. WizTypes'
  BY <1>1 DEF WizTypes
<1>3. ~ui.fetching => t.chan # ui.rx
  BY <1>1 DEF AnswersFit, StageFits
<1>4. AnswersFit'
  BY <1>1, <1>3 DEF AnswersFit, Target
<1>5. Session(ui, cfg)' /\ StageFits(ui, cfg)'
  BY DEF WizInv, Session, Untouched, OwnIs, ModelFits, SectionsFit, FirstFits, StageFits, Target, PickOf
<1> QED BY <1>1, <1>2, <1>4, <1>5 DEF WizInv

(* A fetch is over: its models are shown, or the list of providers.        *)
LEMMA FetchEnds ==
  ASSUME WizInv, ui.on, ui.fetching, NEW st \in {"models", "select"}, NEW models \in WizNames, NEW bare \in SUBSET WizNames,
         ui' = [ui EXCEPT !.fetching = FALSE, !.rx = 0, !.stage = st, !.models = models, !.bare = bare],
         ui.bare \subseteq bare,
         st = "models" => models = Target(ui, cfg) \/ (models = NoModel /\ Target(ui, cfg) \in bare),
         mail' = {}, UNCHANGED <<cfg, threads, configFile, visit>>
  PROVE  WizInv'
<1>1. WizTypes /\ AnswersFit /\ StageFits(ui, cfg) /\ Session(ui, cfg)
  BY DEF WizInv
<1>2. /\ ui' \in Screens /\ ui'.on /\ ~ui'.fetching /\ ui'.edit = ui.edit /\ ui'.step = ui.step /\ ui'.stage = st
      /\ ui'.pick = ui.pick /\ ui'.cheapPick = ui.cheapPick /\ ui'.fetches = ui.fetches /\ ui'.rx = 0 /\ ui'.save = ui.save
      /\ ui'.touched = ui.touched /\ ui'.models = models /\ ui'.bare = bare
  BY <1>1 DEF WizTypes, Screens, StageNames
<1>3. WizTypes'
  BY <1>1, <1>2 DEF WizTypes
<1>4. StageFits(ui, cfg)'
  BY <1>1, <1>2 DEF StageFits, Target, PickOf, ModelFits
<1>5. AnswersFit'
  BY <1>1, <1>2 DEF AnswersFit
<1>6. \A name, model : ModelFits(ui, name, model) => ModelFits(ui', name, model)
  BY <1>2 DEF ModelFits
<1>7. Session(ui, cfg)'
  BY <1>1, <1>2, <1>6 DEF Session, Untouched, OwnIs, SectionsFit, FirstFits, ModelFits
<1> QED BY <1>2, <1>3, <1>4, <1>5, <1>7 DEF WizInv

LEMMA CancelFetchKeeps == WizInv /\ CancelFetch => WizInv'
<1> SUFFICES ASSUME WizInv, CancelFetch PROVE WizInv'
  OBVIOUS
<1>1. ui \in Screens
  BY DEF WizInv, WizTypes
<1>2. /\ ui.models \in WizNames /\ ui.bare \in SUBSET WizNames
      /\ ui' = [ui EXCEPT !.fetching = FALSE, !.rx = 0, !.stage = "select", !.models = ui.models, !.bare = ui.bare]
  BY <1>1 DEF CancelFetch, Screens
<1>3. ui.on /\ ui.fetching /\ mail' = {} /\ UNCHANGED <<cfg, threads, configFile, visit>>
  BY DEF CancelFetch
<1>4. PICK models \in WizNames, bare \in SUBSET WizNames : models = ui.models /\ bare = ui.bare
  BY <1>2
<1>5. ui' = [ui EXCEPT !.fetching = FALSE, !.rx = 0, !.stage = "select", !.models = models, !.bare = bare]
  BY <1>2, <1>4
<1> QED BY <1>3, <1>4, <1>5, FetchEnds

LEMMA TickKeeps == WizInv /\ Tick => WizInv'
<1> SUFFICES ASSUME WizInv, Tick PROVE WizInv'
  OBVIOUS
<1>1. WizTypes /\ AnswersFit /\ StageFits(ui, cfg) /\ ui.on /\ ui.fetching
  BY ClosedIs DEF WizInv, Tick
<1>2. PICK m \in mail : ui' = [ui EXCEPT !.fetching = FALSE, !.rx = 0, !.stage = "models", !.models = Offered(m),
                               !.bare = IF Offered(m) = NoModel THEN ui.bare \cup {Selected} ELSE ui.bare]
  BY DEF Tick
<1>3. Selected = Target(ui, cfg) /\ m.of = Target(ui, cfg)
  BY <1>1 DEF AnswersFit, StageFits, PickOf, Selected
<1>4. Offered(m) \in {Target(ui, cfg), NoModel}
  BY <1>3 DEF Offered
<1>5. Target(ui, cfg) \in WizNames /\ NoModel \in WizNames /\ ui.bare \in SUBSET WizNames
  BY <1>1 DEF Target, WizTypes, Configs, WizNames, Screens
<1>6. PICK models \in WizNames, bare \in SUBSET WizNames :
        models = Offered(m) /\ bare = IF Offered(m) = NoModel THEN ui.bare \cup {Selected} ELSE ui.bare
  BY <1>3, <1>4, <1>5
<1>7. ui' = [ui EXCEPT !.fetching = FALSE, !.rx = 0, !.stage = "models", !.models = models, !.bare = bare]
  BY <1>2, <1>6
<1>8. models = Target(ui, cfg) \/ (models = NoModel /\ Target(ui, cfg) \in bare)
  BY <1>3, <1>4, <1>6
<1>9. ui.bare \subseteq bare
  BY <1>6
<1>10. mail' = {} /\ UNCHANGED <<cfg, threads, configFile, visit>>
  BY DEF Tick
<1> QED BY <1>1, <1>7, <1>8, <1>9, <1>10, FetchEnds

-----------------------------------------------------------------------------
(* The steps that choose models.                                           *)

LEMMA ChosenIs ==
  ASSUME WizInv, NEW p \in WizNames
  PROVE  /\ Chosen(p) \in Configs /\ Chosen(p).provider = p /\ Chosen(p).own = p /\ Chosen(p).model = cfg.model
         /\ SameCheap(Chosen(p), cfg) /\ Chosen(p).is = cfg.is
<1>1. cfg \in Configs
  BY DEF WizInv, WizTypes
<1> QED BY <1>1 DEF Chosen, Configs, SameCheap

LEMMA SelectProviderKeeps ==
  ASSUME WizInv, NEW p \in KeyProviders \cup LocalProviders \cup {Custom}, SelectProvider(p)
  PROVE  WizInv'
<1>1. ui \in Screens /\ ui.on /\ ~ui.fetching /\ ~ui.save /\ ui.step = "provider" /\ ui.rx = 0 /\ StageFits(ui, cfg)
  BY ScreenIs DEF SelectProvider, WizInv
<1>2. p \in WizNames /\ p # Unset
  BY WizardAssumption DEF WizNames
<1>3. PICK u : u = [ui EXCEPT !.pick = p]
  OBVIOUS
<1>4. /\ u \in Screens /\ u.on = ui.on /\ u.fetching = ui.fetching /\ u.edit = ui.edit /\ u.step = ui.step
      /\ u.fetches = ui.fetches /\ u.save = ui.save /\ u.touched = ui.touched /\ u.pick = p /\ u.rx = ui.rx
      /\ u.bare = ui.bare
  BY <1>1, <1>2, <1>3 DEF Screens
<1>5. CASE SpawnFetch(Touch(u, {"provider"}), p, Chosen(p))
  <2>1. PICK c \in Configs : c = Chosen(p) /\ c.provider = p /\ c.own = p /\ SameCheap(c, cfg) /\ c.is = cfg.is
    BY <1>2, ChosenIs
  <2>2. p = Target(u, c) /\ p = PickOf(u)
    BY <1>1, <1>4, <2>1 DEF Target, PickOf
  <2>3. SpawnFetch(Touch(u, {ui.step}), p, c)
    BY <1>1, <1>5, <2>1
  <2> QED BY <1>1, <1>2, <1>4, <2>1, <2>2, <2>3, SpawnFetchKeeps
<1>6. ASSUME NEW st \in {"gemini_auth", "base_url", "key"}, st = "base_url" => p = Custom, Goto([u EXCEPT !.stage = st])
      PROVE  WizInv'
  <2>1. PICK v : v = [u EXCEPT !.stage = st]
    OBVIOUS
  <2>2. /\ v \in Screens /\ v.on = ui.on /\ v.fetching = ui.fetching /\ v.edit = ui.edit /\ v.step = ui.step
        /\ v.fetches = ui.fetches /\ v.save = ui.save /\ v.touched = ui.touched /\ v.pick = p /\ v.rx = ui.rx /\ v.stage = st
        /\ v.bare = ui.bare
    BY <1>4, <2>1 DEF Screens, StageNames
  <2>3. Shows(v)
    BY <1>1, <1>2, <1>6, <2>2 DEF Shows, StageFits
  <2> QED BY <1>1, <1>6, <2>1, <2>3, GotoKeeps
<1>7. \/ SpawnFetch(Touch(u, {"provider"}), p, Chosen(p))
      \/ Goto([u EXCEPT !.stage = IF p = "gemini" THEN "gemini_auth" ELSE IF p = Custom THEN "base_url" ELSE "key"])
  BY <1>3 DEF SelectProvider
<1> QED BY <1>5, <1>6, <1>7

(* The configuration of the step has changed, and the next step is entered.*)
LEMMA AdvanceKeeps ==
  ASSUME WizInv, ui.on, ~ui.fetching, ~ui.save, ui.step \in {"provider", "cheap"}, NEW v, v = AdvanceStep(ui),
         ui' = Touch(v, {ui.step}) \/ (ui' = v /\ ui.step \in ui.touched),
         cfg' \in Configs, cfg'.is = cfg.is,
         ui.step = "provider" => /\ cfg'.provider # Unset /\ cfg'.own # Unset /\ cfg'.model = cfg'.own
                                 /\ ModelFits(ui, cfg'.provider, cfg'.own) /\ SameCheap(cfg', cfg),
         ui.step = "cheap" => SameProvider(cfg', cfg) /\ ModelFits(ui, cfg'.cheap, cfg'.cheapModel),
         UNCHANGED <<threads, mail, configFile, visit>>
  PROVE  WizInv'
<1>1. ui \in Screens /\ Session(ui, cfg)
  BY DEF WizInv, WizTypes
<1>2. PICK k \in {1, 2} : ui.step = Steps[k]
  BY StepIs
<1>3. Enters(ui, v) /\ v.step = IF ui.edit THEN "summary" ELSE Steps[k + 1]
  BY <1>1, <1>2, AdvanceIs
<1>4. /\ v \in Screens /\ v.on /\ ~v.fetching /\ v.edit = ui.edit /\ v.fetches = ui.fetches /\ v.save = ui.save
      /\ v.touched = ui.touched /\ v.bare = ui.bare /\ StageFits(v, cfg')
  BY <1>3, EnteredFits
<1>5. /\ ui' \in Screens /\ ui'.on /\ ~ui'.fetching /\ ui'.edit = ui.edit /\ ui'.fetches = ui.fetches
      /\ ui'.touched = ui.touched \cup {ui.step} /\ ui'.bare = ui.bare
      /\ ui'.step = v.step /\ ui'.stage = v.stage /\ ui'.pick = v.pick /\ ui'.cheapPick = v.cheapPick
      /\ ui'.models = v.models /\ ui'.rx = v.rx /\ ui'.save = v.save
  <2>1. CASE ui' = Touch(v, {ui.step})
    BY <1>4, <2>1, TouchIs, PartsAre
  <2>2. CASE ui' = v /\ ui.step \in ui.touched
    BY <1>4, <2>2
  <2> QED BY <2>1, <2>2
<1>6. v.stage # "models"
  <2>1. PICK st \in {"none", "select", "confirm"} :
          v = [ui EXCEPT !.step = v.step, !.stage = st, !.models = Unset, !.pick = Unset, !.cheapPick = Unset]
    BY <1>3 DEF Enters
  <2> QED BY <1>1, <2>1 DEF Screens
<1>7. StageFits(ui', cfg')
  BY <1>4, <1>5, <1>6 DEF StageFits
<1>8. ~ui.edit => ui'.step = IF ui.step = "provider" THEN "cheap" ELSE "timezone"
  BY <1>2, <1>3, <1>5, StepIs
<1>9. ~ui.edit /\ FirstFits(ui, cfg) => FirstFits(ui', cfg')
  BY <1>5, <1>8 DEF FirstFits, PastProvider, PastCheap, ModelFits, SameProvider
<1>10. SectionsFit(ui, cfg) => SectionsFit(ui', cfg')
  BY <1>5 DEF SectionsFit
<1>11. Untouched(ui, cfg) => Untouched(ui', cfg')
  BY <1>5, <1>10 DEF Untouched, SameProvider, SameCheap
<1>12. OwnIs(ui', cfg')
  <2>1. CASE ui.step = "provider"
    BY <1>5, <2>1 DEF OwnIs, ModelFits
  <2>2. CASE ui.step = "cheap"
    BY <1>1, <1>5, <2>2 DEF Session, OwnIs, ModelFits, SameProvider
  <2> QED BY <2>1, <2>2
<1> QED BY <1>5, <1>7, <1>9, <1>11, <1>12, Replaced DEF Replaces

LEMMA GeminiAuthKeeps == WizInv /\ GeminiAuth => WizInv'
<1> SUFFICES ASSUME WizInv, GeminiAuth PROVE WizInv'
  OBVIOUS
<1>1. ui.on /\ ~ui.fetching /\ ~ui.save /\ ui.step = "provider" /\ ui.stage = "gemini_auth" /\ StageFits(ui, cfg)
  BY ScreenIs DEF GeminiAuth, WizInv
<1>2. {"key", "select"} \subseteq StageNames /\ ui.pick # Unset
  BY <1>1 DEF StageNames, StageFits
<1>3. ASSUME NEW st \in {"key", "select"}, Stage(st) PROVE WizInv'
  BY <1>1, <1>2, <1>3, StageKeeps
<1>4. CASE /\ ui' = Touch(AdvanceStep(ui), {"provider"})
           /\ cfg' = [Chosen("gemini") EXCEPT !.model = "gemini"]
           /\ UNCHANGED <<threads, mail, configFile, visit>>
  <2>1. "gemini" \in WizNames /\ "gemini" # Unset
    BY WizardAssumption DEF WizNames
  <2>2. PICK c \in Configs : /\ c = Chosen("gemini") /\ c.provider = "gemini" /\ c.own = "gemini" /\ c.is = cfg.is
                             /\ SameCheap(c, cfg)
    BY <2>1, ChosenIs
  <2>3. cfg' = [c EXCEPT !.model = "gemini"]
    BY <1>4, <2>2
  <2>4. /\ cfg' \in Configs /\ cfg'.provider = "gemini" /\ cfg'.own = "gemini" /\ cfg'.model = "gemini" /\ cfg'.is = cfg.is
        /\ cfg'.cheap = c.cheap /\ cfg'.cheapModel = c.cheapModel
    BY <2>1, <2>2, <2>3 DEF Configs
  <2>5. SameCheap(cfg', cfg) /\ ModelFits(ui, cfg'.provider, cfg'.own)
    BY <2>2, <2>4 DEF SameCheap, ModelFits
  <2> QED BY <1>1, <1>4, <2>1, <2>4, <2>5, AdvanceKeeps
<1> QED BY <1>3, <1>4 DEF GeminiAuth

LEMMA ProviderKeyKeeps == WizInv /\ (ProviderKey \/ BaseUrl) => WizInv'
<1> SUFFICES ASSUME WizInv, ProviderKey \/ BaseUrl PROVE WizInv'
  OBVIOUS
<1>1. /\ ui \in Screens /\ ui.on /\ ~ui.fetching /\ ~ui.save /\ ui.step = "provider"
      /\ ui.stage \in {"key", "base_url"} /\ StageFits(ui, cfg)
  BY ScreenIs DEF ProviderKey, BaseUrl, WizInv
<1>2. "select" \in StageNames /\ ui.pick # Unset /\ ui.pick \in WizNames /\ (ui.stage = "base_url" => ui.pick = Custom)
  BY <1>1 DEF StageNames, StageFits, Screens
<1>3. ASSUME Stage("select") PROVE WizInv'
  BY <1>1, <1>2, <1>3, StageKeeps
<1>4. ASSUME SpawnFetch(Touch(ui, {"provider"}), ui.pick, Chosen(ui.pick)) PROVE WizInv'
  <2>1. PICK c \in Configs : /\ c = Chosen(ui.pick) /\ c.provider = ui.pick /\ c.own = ui.pick /\ c.is = cfg.is
                             /\ SameCheap(c, cfg)
    BY <1>2, ChosenIs
  <2>2. ui.pick = Target(ui, c) /\ ui.pick = PickOf(ui)
    BY <1>1, <2>1 DEF Target, PickOf
  <2>3. SpawnFetch(Touch(ui, {ui.step}), ui.pick, c)
    BY <1>1, <1>4, <2>1
  <2> QED BY <1>1, <1>2, <2>1, <2>2, <2>3, SpawnFetchKeeps
<1> QED BY <1>1, <1>2, <1>3, <1>4, ScreenIs DEF ProviderKey, BaseUrl

LEMMA PickModelKeeps == WizInv /\ PickModel => WizInv'
<1> SUFFICES ASSUME WizInv, PickModel PROVE WizInv'
  OBVIOUS
<1>1. /\ ui \in Screens /\ ui.on /\ ~ui.fetching /\ ~ui.save /\ ui.step = "provider" /\ ui.stage = "models"
      /\ StageFits(ui, cfg) /\ cfg \in Configs
  BY ScreenIs DEF PickModel, WizInv, WizTypes
<1>2. /\ "select" \in StageNames /\ ModelFits(ui, cfg.provider, ui.models) /\ cfg.provider # Unset
      /\ "provider" \in ui.touched /\ ui.models \in WizNames
  BY <1>1 DEF StageNames, StageFits, Target, PickOf, Screens
<1>3. ASSUME Stage("select") PROVE WizInv'
  BY <1>1, <1>2, <1>3, StageKeeps
<1>4. CASE /\ ui' = AdvanceStep(ui)
           /\ cfg' = IF cfg.provider = Unset THEN cfg ELSE [cfg EXCEPT !.own = ui.models, !.model = ui.models]
           /\ UNCHANGED <<threads, mail, configFile, visit>>
  <2>1. /\ cfg' \in Configs /\ cfg'.provider = cfg.provider /\ cfg'.own = ui.models /\ cfg'.model = ui.models
        /\ cfg'.is = cfg.is /\ SameCheap(cfg', cfg)
    BY <1>1, <1>2, <1>4 DEF Configs, SameCheap
  <2>2. ui.models # Unset
    BY <1>2, WizardAssumption DEF ModelFits
  <2> QED BY <1>1, <1>2, <1>4, <2>1, <2>2, AdvanceKeeps
<1> QED BY <1>3, <1>4 DEF PickModel

LEMMA SelectCheapKeeps ==
  ASSUME WizInv, NEW p \in CheapProviders \cup {"none"}, SelectCheap(p) PROVE WizInv'
<1>1. /\ ui \in Screens /\ ui.on /\ ~ui.fetching /\ ~ui.save /\ ui.step = "cheap" /\ ui.rx = 0
      /\ StageFits(ui, cfg) /\ cfg \in Configs
  BY ScreenIs DEF SelectCheap, WizInv, WizTypes
<1>2. Unset \in WizNames
  BY DEF WizNames
<1>3. CASE p # "none"
  <2>1. PICK v : v = [ui EXCEPT !.cheapPick = p, !.stage = "key"]
    OBVIOUS
  <2>2. p \in WizNames
    BY <1>3 DEF WizNames
  <2>3. /\ v \in Screens /\ v.on /\ ~v.fetching /\ v.edit = ui.edit /\ v.step = "cheap"
        /\ v.fetches = ui.fetches /\ v.save = ui.save /\ v.touched = ui.touched /\ v.rx = ui.rx /\ v.stage = "key"
        /\ v.bare = ui.bare
    BY <1>1, <2>1, <2>2 DEF Screens, StageNames
  <2>4. Shows(v)
    BY <1>1, <2>3 DEF Shows, StageFits
  <2> QED BY <1>1, <1>3, <2>1, <2>4, GotoKeeps DEF SelectCheap
<1>4. CASE p = "none"
  <2>1. /\ ui' = Touch(AdvanceStep([ui EXCEPT !.cheapPick = Unset]), {"cheap"})
        /\ cfg' = [cfg EXCEPT !.cheap = Unset, !.cheapModel = Unset]
        /\ UNCHANGED <<threads, mail, configFile, visit>>
    BY <1>4 DEF SelectCheap
  <2>2. cfg' \in Configs /\ SameProvider(cfg', cfg) /\ ModelFits(ui, cfg'.cheap, cfg'.cheapModel) /\ cfg'.is = cfg.is
    BY <1>1, <1>2, <2>1 DEF Configs, SameProvider, ModelFits
  <2>3. AdvanceStep([ui EXCEPT !.cheapPick = Unset]) = AdvanceStep(ui)
    <3>1. PICK w : w = [ui EXCEPT !.cheapPick = Unset]
      OBVIOUS
    <3>2. w \in Screens /\ w.step = ui.step /\ w.edit = ui.edit
      BY <1>1, <1>2, <3>1 DEF Screens
    <3>3. \A step, stage : At(w, step, stage) = At(ui, step, stage)
      BY <1>1, <1>2, <3>1 DEF At, Screens
    <3>4. \A step : Enter(w, step) = Enter(ui, step)
      BY <3>3 DEF Enter
    <3> QED BY <3>1, <3>2, <3>3, <3>4 DEF AdvanceStep
  <2>4. ui' = Touch(AdvanceStep(ui), {ui.step})
    BY <1>1, <2>1, <2>3
  <2> QED BY <1>1, <2>1, <2>2, <2>4, AdvanceKeeps
<1> QED BY <1>3, <1>4

LEMMA CheapKeyKeeps == WizInv /\ CheapKey => WizInv'
<1> SUFFICES ASSUME WizInv, CheapKey PROVE WizInv'
  OBVIOUS
<1>1. /\ ui \in Screens /\ ui.on /\ ~ui.fetching /\ ~ui.save /\ ui.step = "cheap" /\ cfg \in Configs
  BY ScreenIs DEF CheapKey, WizInv, WizTypes
<1>2. "select" \in StageNames /\ ui.cheapPick \in WizNames
  BY <1>1 DEF StageNames, Screens
<1>3. ASSUME Stage("select") PROVE WizInv'
  BY <1>1, <1>2, <1>3, StageKeeps
<1>4. ASSUME SpawnFetch(Touch(ui, {"cheap"}), ui.cheapPick, [cfg EXCEPT !.cheap = ui.cheapPick]) PROVE WizInv'
  <2>0. PICK c : c = [cfg EXCEPT !.cheap = ui.cheapPick]
    OBVIOUS
  <2>1. c \in Configs /\ c.cheap = ui.cheapPick /\ c.is = cfg.is /\ SameProvider(c, cfg)
    BY <1>1, <1>2, <2>0 DEF Configs, SameProvider
  <2>2. ui.cheapPick = Target(ui, c) /\ ui.cheapPick = PickOf(ui)
    BY <1>1, <2>1 DEF Target, PickOf
  <2>3. SpawnFetch(Touch(ui, {ui.step}), ui.cheapPick, c)
    BY <1>1, <1>4, <2>0
  <2> QED BY <1>1, <1>2, <2>1, <2>2, <2>3, SpawnFetchKeeps
<1> QED BY <1>3, <1>4 DEF CheapKey

LEMMA PickCheapModelKeeps == WizInv /\ PickCheapModel => WizInv'
<1> SUFFICES ASSUME WizInv, PickCheapModel PROVE WizInv'
  OBVIOUS
<1>1. /\ ui \in Screens /\ ui.on /\ ~ui.fetching /\ ~ui.save /\ ui.step = "cheap" /\ ui.stage = "models"
      /\ StageFits(ui, cfg) /\ cfg \in Configs
  BY ScreenIs DEF PickCheapModel, WizInv, WizTypes
<1>2. /\ "select" \in StageNames /\ ModelFits(ui, cfg.cheap, ui.models) /\ "cheap" \in ui.touched
      /\ ui.models \in WizNames
  BY <1>1 DEF StageNames, StageFits, Target, Screens
<1>3. ASSUME Stage("select") PROVE WizInv'
  BY <1>1, <1>2, <1>3, StageKeeps
<1>4. CASE /\ ui' = AdvanceStep(ui)
           /\ cfg' = [cfg EXCEPT !.cheapModel = ui.models]
           /\ UNCHANGED <<threads, mail, configFile, visit>>
  <2>1. /\ cfg' \in Configs /\ SameProvider(cfg', cfg) /\ ModelFits(ui, cfg'.cheap, cfg'.cheapModel) /\ cfg'.is = cfg.is
    BY <1>1, <1>2, <1>4 DEF Configs, SameProvider
  <2> QED BY <1>1, <1>2, <1>4, <2>1, AdvanceKeeps
<1> QED BY <1>3, <1>4 DEF PickCheapModel

(* The first screen and the last ones.                                     *)
LEMMA WelcomeGoes == ASSUME WizInv, Showing("welcome", "none"), Goto(Enter(ui, "provider")) PROVE WizInv'
<1>1. ui \in Screens /\ ui.on /\ ~ui.fetching /\ ~ui.save
  BY ScreenIs
<1>2. Enters(ui, Enter(ui, "provider")) /\ Enter(ui, "provider").step = "provider"
  BY <1>1, StepsEntered, StepIs
<1>3. Shows(Enter(ui, "provider"))
  BY <1>1, <1>2, EntersShows DEF PastProvider, PastCheap
<1> QED BY <1>1, <1>3, GotoKeeps

LEMMA SummaryGoes ==
  ASSUME WizInv, Showing("summary", "none"),
         \/ \E i \in DOMAIN Steps : Goto(Enter(ui, Steps[i]))
         \/ Goto([ui EXCEPT !.save = TRUE, !.step = "done"])
  PROVE  WizInv'
<1>1. /\ ui \in Screens /\ ui.on /\ ~ui.fetching /\ ~ui.save /\ ui.step = "summary" /\ ui.rx = 0
  BY ScreenIs
<1>2. PastProvider(ui.step) /\ PastCheap(ui.step)
  BY <1>1 DEF PastProvider, PastCheap
<1>3. ASSUME NEW i \in DOMAIN Steps, Goto(Enter(ui, Steps[i])) PROVE WizInv'
  <2>1. Enters(ui, Enter(ui, Steps[i]))
    BY <1>1, StepIs, StepsEntered
  <2>2. Shows(Enter(ui, Steps[i]))
    BY <1>1, <1>2, <2>1, EntersShows
  <2> QED BY <1>1, <1>3, <2>2, GotoKeeps
<1>4. CASE Goto([ui EXCEPT !.save = TRUE, !.step = "done"])
  <2>1. PICK v : v = [ui EXCEPT !.save = TRUE, !.step = "done"]
    OBVIOUS
  <2>2. /\ v \in Screens /\ v.on /\ ~v.fetching /\ v.edit = ui.edit /\ v.step = "done"
        /\ v.fetches = ui.fetches /\ v.touched = ui.touched /\ v.rx = ui.rx /\ v.bare = ui.bare
    BY <1>1, <2>1 DEF Screens, StepNames
  <2>3. Shows(v)
    BY <1>1, <1>2, <2>2 DEF Shows, StageFits
  <2> QED BY <1>1, <1>4, <2>1, <2>3, GotoKeeps
<1> QED BY <1>3, <1>4

-----------------------------------------------------------------------------
(* Every step but the end of a session leaves the file as it is.           *)
KeepsFile == configFile' = configFile
StepGood == WizInv' /\ (Saved => SavedFits)

LEMMA SelectsKeepFile == \A p : SelectProvider(p) \/ SelectCheap(p) => KeepsFile
<1>1. \A u, of, c : SpawnFetch(u, of, c) \/ Goto(u) => KeepsFile
  BY DEF SpawnFetch, Goto, KeepsFile
<1>2. ASSUME NEW p, SelectProvider(p) PROVE KeepsFile
  <2>1. PICK u : SpawnFetch(Touch(u, {"provider"}), p, Chosen(p)) \/ \E v : Goto(v)
    BY <1>2, Zenon DEF SelectProvider
  <2> QED BY <1>1, <2>1
<1>3. ASSUME NEW p, SelectCheap(p) PROVE KeepsFile
  <2>1. (\E v : Goto(v)) \/ UNCHANGED <<threads, mail, configFile, visit>>
    BY <1>3, Zenon DEF SelectCheap
  <2> QED BY <1>1, <2>1 DEF KeepsFile
<1> QED BY <1>2, <1>3

LEMMA WizInvStep ==
  ASSUME WizInv, [WizardNext]_wizVars
  PROVE  StepGood
<1>1. WizInv' /\ KeepsFile => StepGood
  BY DEF StepGood, Saved, KeepsFile
<1>2. ui.on /\ Leave => StepGood
  BY LeaveKeeps DEF StepGood
<1>3. CASE UNCHANGED wizVars
  <2>1. WizInv'
    BY <1>3 DEF WizInv, WizTypes, StageFits, AnswersFit, Session, Untouched, OwnIs, ModelFits, SectionsFit, FirstFits,
                  Target, PickOf, wizVars
  <2> QED BY <1>1, <1>3, <2>1 DEF KeepsFile, wizVars
<1>4. CASE Start
  BY <1>1, <1>4, OpenKeeps DEF Start, KeepsFile
<1>5. CASE CtrlC
  BY <1>2, <1>5 DEF CtrlC
<1>6. CASE Welcome
  <2>1. CASE Showing("welcome", "none") /\ Goto(Enter(ui, "provider"))
    BY <1>1, <2>1, WelcomeGoes DEF Goto, KeepsFile
  <2>2. CASE Showing("welcome", "none") /\ Leave
    BY <1>2, <2>2 DEF Showing
  <2> QED BY <1>6, <2>1, <2>2 DEF Welcome
<1>7. CASE FetchAnswers
  BY <1>1, <1>7, FetchAnswersKeeps DEF FetchAnswers, KeepsFile
<1>8. CASE Tick
  BY <1>1, <1>8, TickKeeps DEF Tick, KeepsFile
<1>9. CASE CancelFetch
  BY <1>1, <1>9, CancelFetchKeeps DEF CancelFetch, KeepsFile
<1>10. ASSUME NEW p \in KeyProviders \cup LocalProviders \cup {Custom}, SelectProvider(p) PROVE StepGood
  BY <1>1, <1>10, SelectProviderKeeps, SelectsKeepFile
<1>11. CASE GeminiAuth \/ ProviderKey \/ BaseUrl \/ PickModel
  <2>1. KeepsFile
    BY <1>11 DEF GeminiAuth, ProviderKey, BaseUrl, PickModel, Stage, SpawnFetch, Goto, KeepsFile
  <2> QED BY <1>1, <1>11, <2>1, GeminiAuthKeeps, ProviderKeyKeeps, PickModelKeeps
<1>12. ASSUME NEW p \in CheapProviders \cup {"none"}, SelectCheap(p) PROVE StepGood
  BY <1>1, <1>12, SelectCheapKeeps, SelectsKeepFile
<1>13. CASE CheapKey \/ PickCheapModel \/ BackFromList
  <2>1. KeepsFile
    BY <1>13 DEF CheapKey, PickCheapModel, BackFromList, Stage, SpawnFetch, Goto, KeepsFile
  <2> QED BY <1>1, <1>13, <2>1, CheapKeyKeeps, PickCheapModelKeeps, BackFromListKeeps
<1>14. CASE Timezone \/ MemoryBackend \/ Channels \/ WebSearch
  <2>1. KeepsFile
    BY <1>14 DEF Timezone, MemoryBackend, Channels, WebSearch, Fill, Stage, Goto, KeepsFile
  <2> QED BY <1>1, <1>14, <2>1, TimezoneKeeps, MemoryBackendKeeps, ChannelsKeeps, WebSearchKeeps
<1>15. CASE Voice \/ Composio \/ Pushover
  <2>1. KeepsFile
    BY <1>15 DEF Voice, Composio, Pushover, Confirmed, Fill, Stage, Goto, KeepsFile
  <2> QED BY <1>1, <1>15, <2>1, ConfirmedKeeps DEF Voice, Composio, Pushover
<1>16. CASE Summary
  <2>1. CASE Showing("summary", "none") /\ Leave
    BY <1>2, <2>1 DEF Showing
  <2>2. CASE /\ Showing("summary", "none")
             /\ \/ \E i \in DOMAIN Steps : Goto(Enter(ui, Steps[i]))
                \/ Goto([ui EXCEPT !.save = TRUE, !.step = "done"])
    BY <1>1, <2>2, SummaryGoes DEF Goto, KeepsFile
  <2> QED BY <1>16, <2>1, <2>2 DEF Summary
<1>17. CASE Done
  BY <1>2, <1>17 DEF Done, Showing
<1> QED BY <1>3, <1>4, <1>5, <1>6, <1>7, <1>8, <1>9, <1>10, <1>11, <1>12, <1>13, <1>14, <1>15, <1>16, <1>17
          DEF WizardNext

(* Whatever is typed at the wizard, from any config.json: the model saved   *)
(* for a provider chosen is one of its own, or "" where there was none to   *)
(* offer, and what was not touched is saved as it was loaded, unless the    *)
(* file could not be parsed (interactive_onboard, App, PartialConfig).      *)
THEOREM WhatIsAskedIsSaved == WizardSpec => SavedIsAsked
<1>1. WizInv /\ [WizardNext]_wizVars => WizInv'
  BY WizInvStep DEF StepGood
<1>2. WizInv /\ [WizardNext]_wizVars => [Saved => SavedFits]_wizVars
  BY WizInvStep DEF StepGood
<1>3. [Saved => SavedFits]_wizVars =>
        [Saved =>
           LET old == configFile.config  new == configFile'.config
           IN /\ "provider" \in ui.touched => ModelFits(ui, new.provider, new.own)
              /\ ~ui.edit => new.model = new.own /\ ModelFits(ui, new.cheap, new.cheapModel)
              /\ configFile.parses =>
                   /\ \A s \in Sections \ ui.touched : new.is[s] = old.is[s]
                   /\ "provider" \notin ui.touched /\ old.provider # Unset =>
                        \A name \in {"provider", "own", "model"} : old[name] # Unset => new[name] = old[name]
                   /\ "cheap" \notin ui.touched => new.cheap = old.cheap /\ new.cheapModel = old.cheapModel]_wizVars
  BY DEF SavedFits
<1> QED BY <1>1, <1>2, <1>3, WizardStarts, PTL DEF WizardSpec, SavedIsAsked
=============================================================================
