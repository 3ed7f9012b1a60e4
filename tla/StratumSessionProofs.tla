------------------------- MODULE StratumSessionProofs -------------------------
(***************************************************************************)
(* Proofs about a pool connection, for any extranonces, difficulties and   *)
(* targets, any bounds of the two channels and any number of lines and     *)
(* shares.                                                                 *)
(*                                                                         *)
(* The handler is behind the pool by the lines it has not read: replayed   *)
(* from what it holds (`nonce_mask`, `current_difficulty`), they lead to   *)
(* what the pool has announced, and give each job still unread just what   *)
(* the pool meant by it.                                                   *)
(***************************************************************************)
EXTENDS StratumSession, Integers, TLAPS

Difficulties == Difficulty \union {Garbled, Absent}

\* The extranonce and the difficulty that are in force before each unread line,
\* and behind the last one
After(queue, space, difficulty) ==
  \A i \in 1..Len(queue) :
    /\ space[i + 1] = IF queue[i].kind = "extranonce" THEN queue[i].value ELSE space[i]
    /\ difficulty[i + 1] =
         IF queue[i].kind = "difficulty" THEN queue[i].value ELSE difficulty[i]

\* An unread job is announced with what is in force before its line.
Meant(queue, jobs, space, difficulty) ==
  \A i \in 1..Len(queue) :
    queue[i].kind = "notify" =>
      /\ queue[i].id \in 1..Len(jobs)
      /\ jobs[queue[i].id] =
           [space |-> space[i],
            target |-> IF queue[i].value = Absent THEN difficulty[i] ELSE queue[i].value,
            difficulty |-> difficulty[i]]

\* From extranonce x0 and difficulty y0, the queue leads to x and y.
Replays(queue, jobs, x0, y0, x, y) ==
  \E space \in [1..(Len(queue) + 1) -> NonceSpaces],
     difficulty \in [1..(Len(queue) + 1) -> Difficulties] :
    /\ After(queue, space, difficulty) /\ Meant(queue, jobs, space, difficulty)
    /\ space[1] = x0 /\ difficulty[1] = y0
    /\ space[Len(queue) + 1] = x /\ difficulty[Len(queue) + 1] = y

UnreadOK ==
  Replays(lines, announced, nonceSpace, currentDifficulty, poolExtranonce, poolDifficulty)

\* A job that has reached the slot is one of those announced.
Known(job, jobs) ==
  job # NoJob =>
    /\ job.id \in 1..Len(jobs)
    /\ jobs[job.id].space = job.space /\ jobs[job.id].target = job.target

KnownOK ==
  /\ Known(slot, announced) /\ Known(work, announced) /\ Known(inHand, announced)
  /\ \A i \in 1..Len(submit) : Known(submit[i], announced)
  /\ \A i \in 1..Len(writer) : Known(writer[i], announced)

\* The jobs announced after a line, sent while x and y are in force
Announces(line, jobs, more, x, y) ==
  /\ Len(jobs) <= Len(more) /\ \A n \in 1..Len(jobs) : more[n] = jobs[n]
  /\ line.kind = "notify" =>
       /\ line.id \in 1..Len(more)
       /\ more[line.id] =
            [space |-> x, target |-> IF line.value = Absent THEN y ELSE line.value,
             difficulty |-> y]

\* Each job announced took a line.
CountOK == Len(announced) <= sent

IInv == TypeOK /\ CountOK /\ UnreadOK /\ KnownOK

-----------------------------------------------------------------------------
(* Lines, and queues of them                                               *)

\* What a line means to `handle_line` comes with its kind.
LEMMA LineKinds ==
  ASSUME NEW line \in Line
  PROVE  /\ line.kind \in {"difficulty", "extranonce", "notify", "other", "malformed"}
         /\ line.kind = "difficulty" => line.value \in Difficulty \union {Garbled}
         /\ line.kind = "extranonce" => line.value \in Extranonce
         /\ line.kind = "notify" =>
              line.value \in OwnTarget \union {Absent} /\ line.id \in 1..MaxLines
BY DEF Line

\* Reading the first line leads on to the rest, and a job that it brings was meant
\* as the handler now takes it.
LEMMA ReplayTail ==
  ASSUME NEW queue \in Seq(Line), queue # <<>>, NEW jobs, NEW x0, NEW y0, NEW x, NEW y,
         Replays(queue, jobs, x0, y0, x, y)
  PROVE  /\ Replays(Tail(queue), jobs,
                    IF queue[1].kind = "extranonce" THEN queue[1].value ELSE x0,
                    IF queue[1].kind = "difficulty" THEN queue[1].value ELSE y0, x, y)
         /\ Announces(queue[1], jobs, jobs, x0, y0)
<1>0. PICK space \in [1..(Len(queue) + 1) -> NonceSpaces],
           difficulty \in [1..(Len(queue) + 1) -> Difficulties] :
        /\ After(queue, space, difficulty) /\ Meant(queue, jobs, space, difficulty)
        /\ space[1] = x0 /\ difficulty[1] = y0
        /\ space[Len(queue) + 1] = x /\ difficulty[Len(queue) + 1] = y
  BY DEF Replays
<1> DEFINE rest == Tail(queue)
           s == [i \in 1..(Len(rest) + 1) |-> space[i + 1]]
           d == [i \in 1..(Len(rest) + 1) |-> difficulty[i + 1]]
<1>1. /\ Len(queue) \in Nat \ {0} /\ Len(rest) = Len(queue) - 1
      /\ \A i \in 1..Len(rest) : i + 1 \in 1..Len(queue) /\ rest[i] = queue[i + 1]
  OBVIOUS
<1> HIDE DEF rest
<1>2. s \in [1..(Len(rest) + 1) -> NonceSpaces] /\ d \in [1..(Len(rest) + 1) -> Difficulties]
  BY <1>1
<1>3. \A i \in 1..(Len(rest) + 1) : s[i] = space[i + 1] /\ d[i] = difficulty[i + 1]
  OBVIOUS
<1> HIDE DEF s, d
<1>4. After(rest, s, d)
  <2> SUFFICES ASSUME NEW i \in 1..Len(rest)
               PROVE  /\ s[i + 1] = IF rest[i].kind = "extranonce" THEN rest[i].value ELSE s[i]
                      /\ d[i + 1] = IF rest[i].kind = "difficulty" THEN rest[i].value ELSE d[i]
    BY DEF After
  <2> DEFINE j == i + 1
  <2>1. j \in 1..Len(queue) /\ rest[i] = queue[j]
    BY <1>1
  <2>2. s[i] = space[j] /\ s[i + 1] = space[j + 1]
    BY <1>1, <1>3
  <2>3. d[i] = difficulty[j] /\ d[i + 1] = difficulty[j + 1]
    BY <1>1, <1>3
  <2> HIDE DEF j
  <2>4. /\ space[j + 1] = IF queue[j].kind = "extranonce" THEN queue[j].value ELSE space[j]
        /\ difficulty[j + 1] =
             IF queue[j].kind = "difficulty" THEN queue[j].value ELSE difficulty[j]
    BY <1>0, <2>1 DEF After
  <2> QED
    BY <2>1, <2>2, <2>3, <2>4
<1>5. Meant(rest, jobs, s, d)
  <2> SUFFICES ASSUME NEW i \in 1..Len(rest), rest[i].kind = "notify"
               PROVE  /\ rest[i].id \in 1..Len(jobs)
                      /\ jobs[rest[i].id] =
                           [space |-> s[i],
                            target |-> IF rest[i].value = Absent THEN d[i] ELSE rest[i].value,
                            difficulty |-> d[i]]
    BY DEF Meant
  <2> DEFINE j == i + 1
  <2>1. j \in 1..Len(queue) /\ rest[i] = queue[j] /\ s[i] = space[j] /\ d[i] = difficulty[j]
    BY <1>1, <1>3
  <2> HIDE DEF j
  <2> QED
    BY <1>0, <2>1 DEF Meant
<1>6. /\ s[1] = space[2] /\ d[1] = difficulty[2]
      /\ s[Len(rest) + 1] = space[Len(queue) + 1]
      /\ d[Len(rest) + 1] = difficulty[Len(queue) + 1]
  BY <1>1, <1>3
<1>7. 1 \in 1..Len(queue)
  BY <1>1
<1>8. /\ space[2] = IF queue[1].kind = "extranonce" THEN queue[1].value ELSE x0
      /\ difficulty[2] = IF queue[1].kind = "difficulty" THEN queue[1].value ELSE y0
  <2>1. /\ space[1 + 1] = IF queue[1].kind = "extranonce" THEN queue[1].value ELSE space[1]
        /\ difficulty[1 + 1] =
             IF queue[1].kind = "difficulty" THEN queue[1].value ELSE difficulty[1]
    BY <1>0, <1>7 DEF After
  <2> QED
    BY <1>0, <2>1
<1>9. Announces(queue[1], jobs, jobs, x0, y0)
  <2>1. Len(jobs) <= Len(jobs)
    OBVIOUS
  <2> QED
    BY <1>0, <1>7, <2>1 DEF Meant, Announces
<1> QED
  BY <1>0, <1>2, <1>4, <1>5, <1>6, <1>8, <1>9 DEF rest, Replays

\* A line more goes on from what is in force behind the others.
LEMMA ReplayAppend ==
  ASSUME NEW queue \in Seq(Line), NEW line \in Line,
         NEW jobs \in Seq(Announcement), NEW more \in Seq(Announcement),
         NEW x0, NEW y0, NEW x1, NEW y1,
         Replays(queue, jobs, x0, y0, x1, y1), Announces(line, jobs, more, x1, y1)
  PROVE  Replays(Append(queue, line), more, x0, y0,
                 IF line.kind = "extranonce" THEN line.value ELSE x1,
                 IF line.kind = "difficulty" THEN line.value ELSE y1)
<1>0. PICK space \in [1..(Len(queue) + 1) -> NonceSpaces],
           difficulty \in [1..(Len(queue) + 1) -> Difficulties] :
        /\ After(queue, space, difficulty) /\ Meant(queue, jobs, space, difficulty)
        /\ space[1] = x0 /\ difficulty[1] = y0
        /\ space[Len(queue) + 1] = x1 /\ difficulty[Len(queue) + 1] = y1
  BY DEF Replays
<1> DEFINE n == Len(queue) + 1
           all == Append(queue, line)
           x == IF line.kind = "extranonce" THEN line.value ELSE x1
           y == IF line.kind = "difficulty" THEN line.value ELSE y1
           s == [i \in 1..(n + 1) |-> IF i <= n THEN space[i] ELSE x]
           d == [i \in 1..(n + 1) |-> IF i <= n THEN difficulty[i] ELSE y]
<1>1. /\ n \in Nat \ {0} /\ Len(all) = n /\ all[n] = line
      /\ \A i \in 1..Len(queue) : i < n /\ all[i] = queue[i]
      /\ \A i \in 1..n : i < n => i \in 1..Len(queue)
  OBVIOUS
<1>2. x \in NonceSpaces /\ y \in Difficulties
  <2>1. x1 \in NonceSpaces /\ y1 \in Difficulties
    BY <1>0, <1>1
  <2>2. /\ line.kind = "difficulty" => line.value \in Difficulty \union {Garbled}
        /\ line.kind = "extranonce" => line.value \in Extranonce
    BY LineKinds
  <2> HIDE DEF n
  <2> QED
    BY <2>1, <2>2 DEF NonceSpaces, Difficulties
<1> HIDE DEF all, x, y
<1>3. s \in [1..(n + 1) -> NonceSpaces] /\ d \in [1..(n + 1) -> Difficulties]
  BY <1>2
<1>4. /\ \A i \in 1..n : s[i] = space[i] /\ d[i] = difficulty[i]
      /\ s[n + 1] = x /\ d[n + 1] = y
  BY <1>1
<1> HIDE DEF s, d
<1>5. After(all, s, d)
  <2> SUFFICES ASSUME NEW i \in 1..n
               PROVE  /\ s[i + 1] = IF all[i].kind = "extranonce" THEN all[i].value ELSE s[i]
                      /\ d[i + 1] = IF all[i].kind = "difficulty" THEN all[i].value ELSE d[i]
    BY <1>1 DEF After
  <2>1. CASE i = n
    BY <1>0, <1>1, <1>4, <2>1 DEF x, y
  <2>2. CASE i < n
    <3>1. i \in 1..Len(queue) /\ i + 1 \in 1..n
      BY <1>1, <2>2
    <3> QED
      BY <1>0, <1>1, <1>4, <3>1 DEF After
  <2> QED
    BY <1>1, <2>1, <2>2
<1>6. Meant(all, more, s, d)
  <2> SUFFICES ASSUME NEW i \in 1..n, all[i].kind = "notify"
               PROVE  /\ all[i].id \in 1..Len(more)
                      /\ more[all[i].id] =
                           [space |-> s[i],
                            target |-> IF all[i].value = Absent THEN d[i] ELSE all[i].value,
                            difficulty |-> d[i]]
    BY <1>1 DEF Meant
  <2>1. CASE i = n
    BY <1>0, <1>1, <1>4, <2>1 DEF Announces
  <2>2. CASE i < n
    <3>1. i \in 1..Len(queue) /\ all[i] = queue[i]
      BY <1>1, <2>2
    <3>2. /\ queue[i].id \in 1..Len(jobs)
          /\ jobs[queue[i].id] =
               [space |-> space[i],
                target |-> IF queue[i].value = Absent THEN difficulty[i] ELSE queue[i].value,
                difficulty |-> difficulty[i]]
      BY <1>0, <3>1 DEF Meant
    <3>3. queue[i].id \in 1..Len(more) /\ more[queue[i].id] = jobs[queue[i].id]
      BY <3>2 DEF Announces
    <3>4. s[i] = space[i] /\ d[i] = difficulty[i]
      BY <1>4
    <3>5. more[queue[i].id] =
            [space |-> s[i],
             target |-> IF queue[i].value = Absent THEN d[i] ELSE queue[i].value,
             difficulty |-> d[i]]
      BY <3>2, <3>3, <3>4, Zenon
    <3> QED
      BY <3>1, <3>3, <3>5, Zenon
  <2> QED
    BY <1>1, <2>1, <2>2
<1> QED
  <2>1. s[1] = x0 /\ d[1] = y0
    <3>1. 1 \in 1..n
      BY <1>1
    <3>2. s[1] = space[1] /\ d[1] = difficulty[1]
      BY <1>4, <3>1, Zenon
    <3> QED
      BY <1>0, <3>2, Zenon
  <2>2. s[n + 1] = x /\ d[n + 1] = y /\ Len(all) = n
    BY <1>1, <1>4
  <2>3. Replays(all, more, x0, y0, x, y)
    BY <1>3, <1>5, <1>6, <2>1, <2>2 DEF Replays
  <2> QED
    BY <2>3, Zenon DEF all, x, y

\* Announcing more does not change what was announced.
LEMMA KnownGrows ==
  ASSUME NEW job, NEW jobs \in Seq(Announcement), NEW more \in Seq(Announcement),
         NEW line, NEW x, NEW y, Announces(line, jobs, more, x, y), Known(job, jobs)
  PROVE  Known(job, more)
BY DEF Known, Announces

-----------------------------------------------------------------------------
(* The invariant                                                           *)

\* The constants are what the assumptions of StratumSession say.
LEMMA Constants ==
  /\ SubmitSlots \in Nat \ {0} /\ WriterSlots \in Nat \ {0, 1}
  /\ MaxLines \in Nat /\ MaxShares \in Nat
BY SlotsAssumption, BoundsAssumption

\* `connect` begins with no job and no line.
LEMMA InitIInv == Init => IInv
<1> SUFFICES ASSUME Init PROVE IInv
  OBVIOUS
<1>1. TypeOK
  <2>1. lines \in Seq(Line) /\ announced \in Seq(Announcement) /\ submit \in Seq(Job)
    BY DEF Init
  <2>2. writer \in Seq(Job \union {NoShare}) /\ Len(writer) <= WriterSlots /\ Len(submit) <= SubmitSlots
    BY Constants DEF Init
  <2>3. writing \in BOOLEAN
    BY DEF Init
  <2> QED
    BY <2>1, <2>2, <2>3, Constants DEF Init, TypeOK, NonceSpaces
<1>2. CountOK
  BY DEF Init, CountOK
<1>3. UnreadOK
  <2> DEFINE space == [i \in {1} |-> Whole]
             difficulty == [i \in {1} |-> Absent]
  <2>1. Len(lines) = 0 /\ 1..(Len(lines) + 1) = {1}
    BY DEF Init
  <2>2. space \in [{1} -> NonceSpaces] /\ difficulty \in [{1} -> Difficulties]
    BY DEF NonceSpaces, Difficulties
  <2>3. space[1] = Whole /\ difficulty[1] = Absent
    OBVIOUS
  <2> HIDE DEF space, difficulty
  <2>4. After(lines, space, difficulty) /\ Meant(lines, announced, space, difficulty)
    BY <2>1 DEF After, Meant
  <2> QED
    BY <2>1, <2>2, <2>3, <2>4 DEF Init, UnreadOK, Replays
<1>4. KnownOK
  <2>1. Len(submit) = 0 /\ Len(writer) = 2 /\ writer[1] = NoJob /\ writer[2] = NoJob
    BY DEF Init, NoShare
  <2>2. \A i \in 1..Len(writer) : writer[i] = NoJob
    BY <2>1
  <2> QED
    BY <2>1, <2>2 DEF Init, KnownOK, Known
<1> QED
  BY <1>1, <1>2, <1>3, <1>4 DEF IInv

\* A line of the pool, with what the pool means by it
LEMMA PoolStep ==
  ASSUME IInv, NEW line \in Line, PoolSends(line),
         announced' \in Seq(Announcement), Len(announced') <= Len(announced) + 1,
         Announces(line, announced, announced', poolExtranonce, poolDifficulty),
         poolExtranonce' = IF line.kind = "extranonce" THEN line.value ELSE poolExtranonce,
         poolDifficulty' = IF line.kind = "difficulty" THEN line.value ELSE poolDifficulty
  PROVE  IInv'
<1>1. /\ sent < MaxLines /\ sent' = sent + 1 /\ lines' = Append(lines, line)
      /\ UNCHANGED <<nonceSpace, currentDifficulty, slot, work, found, submit, writer, writing,
                     lpc, inHand>>
  BY DEF PoolSends, handlerVars, workVars, channelVars, listenVars
<1>2. Len(announced) \in Nat /\ Len(announced') \in Nat /\ Len(announced) <= Len(announced')
  BY DEF IInv, TypeOK, Announces
<1>3. TypeOK'
  <2>1. lines' \in Seq(Line)
    BY <1>1 DEF IInv, TypeOK
  <2>2. poolExtranonce' \in NonceSpaces
    BY LineKinds DEF IInv, TypeOK, NonceSpaces
  <2>3. poolDifficulty' \in Difficulty \union {Garbled, Absent}
    BY LineKinds DEF IInv, TypeOK
  <2>4. sent' \in 0..MaxLines
    BY <1>1, Constants DEF IInv, TypeOK
  <2> QED
    BY <1>1, <2>1, <2>2, <2>3, <2>4 DEF IInv, TypeOK
<1>4. CountOK'
  BY <1>1, <1>2 DEF IInv, TypeOK, CountOK
<1>5. UnreadOK'
  <2>1. lines \in Seq(Line) /\ announced \in Seq(Announcement)
    BY DEF IInv, TypeOK
  <2>2. Replays(lines, announced, nonceSpace, currentDifficulty, poolExtranonce, poolDifficulty)
    BY DEF IInv, UnreadOK
  <2>3. Replays(Append(lines, line), announced', nonceSpace, currentDifficulty,
                IF line.kind = "extranonce" THEN line.value ELSE poolExtranonce,
                IF line.kind = "difficulty" THEN line.value ELSE poolDifficulty)
    BY <2>1, <2>2, ReplayAppend
  <2> QED
    BY <1>1, <2>3 DEF UnreadOK
<1>6. KnownOK'
  <2>1. \A job : Known(job, announced) => Known(job, announced')
    BY <1>2, KnownGrows DEF IInv, TypeOK
  <2> QED
    BY <1>1, <2>1 DEF IInv, KnownOK
<1> QED
  BY <1>3, <1>4, <1>5, <1>6 DEF IInv

\* Most lines announce no job.
LEMMA NoJobStep ==
  ASSUME IInv, NEW line \in Line, line.kind # "notify", PoolSends(line), announced' = announced,
         poolExtranonce' = IF line.kind = "extranonce" THEN line.value ELSE poolExtranonce,
         poolDifficulty' = IF line.kind = "difficulty" THEN line.value ELSE poolDifficulty
  PROVE  IInv'
<1>1. announced' \in Seq(Announcement) /\ Len(announced') <= Len(announced) + 1
  BY DEF IInv, TypeOK
<1>2. Announces(line, announced, announced', poolExtranonce, poolDifficulty)
  BY <1>1 DEF Announces
<1> QED
  BY <1>1, <1>2, PoolStep

\* `handle_line` reads the first line.
LEMMA HandleLineStep ==
  ASSUME IInv, HandleLine
  PROVE  IInv'
<1> DEFINE line == Head(lines)
<1>1. /\ lines # <<>> /\ lines' = Tail(lines)
      /\ UNCHANGED <<announced, poolExtranonce, poolDifficulty, sent, work, found, submit,
                     writer, writing, inHand>>
  BY DEF HandleLine, poolVars, workVars, channelVars
<1>2. \/ line.kind = "extranonce" /\ SetExtranonce(line.value) /\ UNCHANGED lpc
      \/ line.kind = "difficulty" /\ SetDifficulty(line.value) /\ UNCHANGED lpc
      \/ line.kind = "notify" /\ Notify(line.id, line.value) /\ UNCHANGED lpc
      \/ line.kind = "other" /\ UNCHANGED <<handlerVars, slot, lpc>>
      \/ line.kind = "malformed" /\ lpc' = "error" /\ UNCHANGED <<handlerVars, slot>>
  BY DEF HandleLine
<1>3. lines \in Seq(Line) /\ Len(lines) \in Nat \ {0} /\ line = lines[1] /\ line \in Line
  BY <1>1 DEF IInv, TypeOK
<1> HIDE DEF line
<1>4. /\ line.kind = "difficulty" => line.value \in Difficulty \union {Garbled}
      /\ line.kind = "extranonce" => line.value \in Extranonce
      /\ line.kind = "notify" => line.value \in OwnTarget \union {Absent} /\ line.id \in 1..MaxLines
  BY <1>3, LineKinds
<1>5. /\ Replays(Tail(lines), announced,
                 IF line.kind = "extranonce" THEN line.value ELSE nonceSpace,
                 IF line.kind = "difficulty" THEN line.value ELSE currentDifficulty,
                 poolExtranonce, poolDifficulty)
      /\ Announces(line, announced, announced, nonceSpace, currentDifficulty)
  BY <1>1, <1>3, ReplayTail DEF IInv, UnreadOK
<1>6. /\ nonceSpace' = IF line.kind = "extranonce" THEN line.value ELSE nonceSpace
      /\ currentDifficulty' = IF line.kind = "difficulty" THEN line.value ELSE currentDifficulty
      /\ slot' = IF line.kind = "notify" /\ currentDifficulty \in Difficulty
                   THEN [id |-> line.id, space |-> nonceSpace, target |-> ChooseTarget(line.value)]
                   ELSE slot
      /\ lpc' \in {lpc, "error"}
  BY <1>2 DEF SetExtranonce, SetDifficulty, Notify, handlerVars
<1>7. slot' # slot => slot' \in Job /\ Known(slot', announced)
  <2> SUFFICES ASSUME slot' # slot PROVE slot' \in Job /\ Known(slot', announced)
    OBVIOUS
  <2>1. line.kind = "notify" /\ currentDifficulty \in Difficulty
    BY <1>6
  <2>2. slot' = [id |-> line.id, space |-> nonceSpace, target |-> ChooseTarget(line.value)]
    BY <1>6, <2>1
  <2>3. ChooseTarget(line.value) \in ShareTarget
    BY <1>4, <2>1 DEF ChooseTarget, ShareTarget
  <2>4. slot' \in Job
    BY <1>4, <2>1, <2>2, <2>3 DEF Job, IInv, TypeOK
  <2>5. /\ line.id \in 1..Len(announced)
        /\ announced[line.id].space = nonceSpace
        /\ announced[line.id].target = ChooseTarget(line.value)
    BY <1>5, <2>1 DEF Announces, ChooseTarget
  <2>6. slot'.id = line.id /\ slot'.space = nonceSpace /\ slot'.target = ChooseTarget(line.value)
    BY <2>2
  <2> QED
    BY <2>4, <2>5, <2>6 DEF Known
<1>8. TypeOK'
  <2>1. lines' \in Seq(Line)
    BY <1>1, <1>3
  <2>2. nonceSpace' \in NonceSpaces
    BY <1>4, <1>6 DEF IInv, TypeOK, NonceSpaces
  <2>3. currentDifficulty' \in Difficulty \union {Garbled, Absent}
    BY <1>4, <1>6 DEF IInv, TypeOK
  <2>4. slot' \in Job \union {NoJob} /\ lpc' \in {"select", "sending", "eof", "error"}
    BY <1>6, <1>7 DEF IInv, TypeOK
  <2> QED
    BY <1>1, <2>1, <2>2, <2>3, <2>4 DEF IInv, TypeOK
<1>9. UnreadOK'
  BY <1>1, <1>5, <1>6 DEF UnreadOK
<1> QED
  BY <1>1, <1>7, <1>8, <1>9 DEF IInv, CountOK, KnownOK

\* Every step of the pool, the handler, the writer task and the worker
LEMMA NextIInv == IInv /\ [Next]_vars => IInv'
<1> SUFFICES ASSUME IInv, [Next]_vars PROVE IInv'
  OBVIOUS
<1>0. Len(announced) \in Nat
  BY DEF IInv, TypeOK
<1>1. CASE PoolSetsDifficulty
  <2>1. PICK d \in Difficulty \union {Garbled} :
          PoolSends([kind |-> "difficulty", value |-> d]) /\ poolDifficulty' = d
    BY <1>1 DEF PoolSetsDifficulty
  <2>2. UNCHANGED <<announced, poolExtranonce>>
    BY <1>1 DEF PoolSetsDifficulty
  <2>3. [kind |-> "difficulty", value |-> d] \in Line
    BY DEF Line
  <2> QED
    BY <2>1, <2>2, <2>3, NoJobStep
<1>2. CASE PoolSetsExtranonce
  <2>1. PICK x \in Extranonce :
          PoolSends([kind |-> "extranonce", value |-> x]) /\ poolExtranonce' = x
    BY <1>2 DEF PoolSetsExtranonce
  <2>2. UNCHANGED <<announced, poolDifficulty>>
    BY <1>2 DEF PoolSetsExtranonce
  <2>3. [kind |-> "extranonce", value |-> x] \in Line
    BY DEF Line
  <2> QED
    BY <2>1, <2>2, <2>3, NoJobStep
<1>3. CASE PoolNotifies
  <2> DEFINE n == Len(announced) + 1
  <2>1. PICK own \in OwnTarget \union {Absent} :
          /\ PoolSends([kind |-> "notify", value |-> own, id |-> n])
          /\ announced' = Append(announced,
               [space |-> poolExtranonce,
                target |-> IF own = Absent THEN poolDifficulty ELSE own,
                difficulty |-> poolDifficulty])
    BY <1>3 DEF PoolNotifies
  <2>2. UNCHANGED <<poolExtranonce, poolDifficulty>>
    BY <1>3 DEF PoolNotifies
  <2> DEFINE meaning ==
        [space |-> poolExtranonce,
         target |-> IF own = Absent THEN poolDifficulty ELSE own,
         difficulty |-> poolDifficulty]
  <2>3. n \in 1..MaxLines
    BY <1>0, <2>1, Constants DEF PoolSends, IInv, TypeOK, CountOK
  <2>4. [kind |-> "notify", value |-> own, id |-> n] \in Line
    BY <2>3 DEF Line
  <2>5. meaning \in Announcement
    BY DEF Announcement, ShareTarget, IInv, TypeOK
  <2> HIDE DEF meaning
  <2>6. /\ announced' \in Seq(Announcement) /\ Len(announced') = n /\ announced'[n] = meaning
        /\ \A i \in 1..Len(announced) : announced'[i] = announced[i]
    BY <1>0, <2>1, <2>5 DEF IInv, TypeOK, meaning
  <2> QED
    BY <1>0, <2>1, <2>2, <2>4, <2>6, PoolStep DEF meaning, Announces
<1>4. CASE PoolSendsElse
  <2>1. PICK kind \in {"other", "malformed"} : PoolSends([kind |-> kind])
    BY <1>4 DEF PoolSendsElse
  <2>2. UNCHANGED <<announced, poolExtranonce, poolDifficulty>>
    BY <1>4 DEF PoolSendsElse
  <2>3. [kind |-> kind] \in Line
    BY DEF Line
  <2> QED
    BY <2>1, <2>2, <2>3, NoJobStep
<1>5. CASE HandleLine
  BY <1>5, HandleLineStep
<1>6. CASE TakeShare
  <2>1. /\ submit # <<>> /\ submit' = Tail(submit) /\ inHand' = Head(submit) /\ lpc' = "sending"
        /\ UNCHANGED <<lines, poolVars, handlerVars, slot, workVars, writer, writing>>
    BY <1>6 DEF TakeShare
  <2>2. /\ submit' \in Seq(Job) /\ Len(submit') <= SubmitSlots /\ inHand' \in Job
        /\ inHand' = submit[1] /\ 1 \in 1..Len(submit)
        /\ \A i \in 1..Len(submit') : i + 1 \in 1..Len(submit) /\ submit'[i] = submit[i + 1]
    BY <2>1, Constants DEF IInv, TypeOK
  <2>3. TypeOK'
    BY <2>1, <2>2 DEF IInv, TypeOK, poolVars, handlerVars, workVars
  <2>4. KnownOK'
    BY <2>1, <2>2 DEF IInv, KnownOK, poolVars, workVars
  <2> QED
    BY <2>1, <2>3, <2>4 DEF IInv, CountOK, UnreadOK, poolVars, handlerVars
<1>7. CASE SendCommand
  <2>1. /\ Len(writer) < WriterSlots /\ writer' = Append(writer, inHand)
        /\ inHand' = NoJob /\ lpc' = "select"
        /\ UNCHANGED <<lines, poolVars, handlerVars, slot, workVars, submit, writing>>
    BY <1>7 DEF SendCommand
  <2>2. inHand \in Job \union {NoShare}
    BY DEF IInv, TypeOK, NoShare
  <2>3. /\ writer' \in Seq(Job \union {NoShare}) /\ Len(writer') <= WriterSlots
        /\ \A i \in 1..Len(writer') : writer'[i] = inHand \/ (i \in 1..Len(writer) /\ writer'[i] = writer[i])
    BY <2>1, <2>2, Constants DEF IInv, TypeOK
  <2>4. TypeOK'
    BY <2>1, <2>3 DEF IInv, TypeOK, poolVars, handlerVars, workVars
  <2>5. KnownOK'
    BY <2>1, <2>3 DEF IInv, KnownOK, Known, poolVars, workVars
  <2> QED
    BY <2>1, <2>4, <2>5 DEF IInv, CountOK, UnreadOK, poolVars, handlerVars
<1>8. CASE SendCommandFails \/ EndListen
  <2>1. /\ lpc' \in {"eof", "error"}
        /\ UNCHANGED <<lines, poolVars, handlerVars, slot, workVars, channelVars, inHand>>
    BY <1>8 DEF SendCommandFails, EndListen
  <2> QED
    BY <2>1 DEF IInv, TypeOK, CountOK, UnreadOK, KnownOK, poolVars, handlerVars, workVars,
                channelVars
<1>9. CASE Write
  <2>1. /\ writer # <<>> /\ writer' = Tail(writer)
        /\ UNCHANGED <<lines, poolVars, handlerVars, slot, workVars, submit, writing, listenVars>>
    BY <1>9 DEF Write
  <2>2. /\ writer' \in Seq(Job \union {NoShare}) /\ Len(writer') <= WriterSlots
        /\ \A i \in 1..Len(writer') : i + 1 \in 1..Len(writer) /\ writer'[i] = writer[i + 1]
    BY <2>1, Constants DEF IInv, TypeOK
  <2>3. TypeOK'
    BY <2>1, <2>2 DEF IInv, TypeOK, poolVars, handlerVars, workVars, listenVars
  <2>4. KnownOK'
    BY <2>1, <2>2 DEF IInv, KnownOK, poolVars, workVars, listenVars
  <2> QED
    BY <2>1, <2>3, <2>4 DEF IInv, CountOK, UnreadOK, poolVars, handlerVars
<1>10. CASE WriteFails
  <2>1. /\ writer' = <<>> /\ writing' = FALSE
        /\ UNCHANGED <<lines, poolVars, handlerVars, slot, workVars, submit, listenVars>>
    BY <1>10 DEF WriteFails
  <2>2. writer' \in Seq(Job \union {NoShare}) /\ Len(writer') = 0
    BY <2>1
  <2>3. writing' \in BOOLEAN
    BY <2>1
  <2>4. TypeOK'
    BY <2>1, <2>2, <2>3, Constants DEF IInv, TypeOK, poolVars, handlerVars, workVars, listenVars
  <2>5. KnownOK'
    BY <2>1, <2>2 DEF IInv, KnownOK, poolVars, workVars, listenVars
  <2> QED
    BY <2>1, <2>4, <2>5 DEF IInv, CountOK, UnreadOK, poolVars, handlerVars
<1>11. CASE TakeJob
  <2>1. /\ work' = slot
        /\ UNCHANGED <<lines, poolVars, handlerVars, slot, found, channelVars, listenVars>>
    BY <1>11 DEF TakeJob
  <2> QED
    BY <2>1 DEF IInv, TypeOK, CountOK, UnreadOK, KnownOK, poolVars, handlerVars, channelVars,
                listenVars
<1>12. CASE SubmitShare
  <2>1. /\ work # NoJob /\ found < MaxShares /\ Len(submit) < SubmitSlots
        /\ found' = found + 1 /\ submit' = Append(submit, work)
        /\ UNCHANGED <<lines, poolVars, handlerVars, slot, work, writer, writing, listenVars>>
    BY <1>12 DEF SubmitShare
  <2>2. work \in Job /\ found' \in 0..MaxShares
    BY <2>1, Constants DEF IInv, TypeOK
  <2>3. /\ submit' \in Seq(Job) /\ Len(submit') <= SubmitSlots
        /\ \A i \in 1..Len(submit') : submit'[i] = work \/ (i \in 1..Len(submit) /\ submit'[i] = submit[i])
    BY <2>1, <2>2, Constants DEF IInv, TypeOK
  <2>4. TypeOK'
    BY <2>1, <2>2, <2>3 DEF IInv, TypeOK, poolVars, handlerVars, listenVars
  <2>5. KnownOK'
    BY <2>1, <2>3 DEF IInv, KnownOK, poolVars, listenVars
  <2> QED
    BY <2>1, <2>4, <2>5 DEF IInv, CountOK, UnreadOK, poolVars, handlerVars
<1>13. CASE UNCHANGED vars
  BY <1>13 DEF vars, IInv, TypeOK, CountOK, UnreadOK, KnownOK, poolVars, handlerVars, workVars,
               channelVars, listenVars
<1> QED
  BY <1>1, <1>2, <1>3, <1>4, <1>5, <1>6, <1>7, <1>8, <1>9, <1>10, <1>11, <1>12, <1>13 DEF Next

\* The connection keeps its invariant.
THEOREM Invariance == SafetySpec => []IInv
BY InitIInv, NextIInv, PTL DEF SafetySpec

\* `submit_tx` and `writer_tx` keep to their bounds, and jobs that reach the slot
\* have a target.
THEOREM TypeCorrectness == SafetySpec => []TypeOK
<1>1. IInv => TypeOK
  BY DEF IInv
<1> QED
  BY <1>1, Invariance, PTL

\* `handle_line` gives a job the extranonce and target that the pool meant, however
\* late it reads, and what the workers, the listener and the writer task pass on
\* keeps them.
THEOREM JobsAreAsAnnounced == SafetySpec => []SharesAsAnnounced
<1>1. IInv => SharesAsAnnounced
  BY DEF IInv, KnownOK, Known, SharesAsAnnounced, AsAnnounced
<1> QED
  BY <1>1, Invariance, PTL

\* Once everything is read, the handler holds what the pool set last: a
\* `set_extranonce` or `set_difficulty` that failed to take effect would be
\* noticed here.
CaughtUp ==
  lines = <<>> => nonceSpace = poolExtranonce /\ currentDifficulty = poolDifficulty

\* `handle_line` loses none of what the pool sets: in the end the handler has it.
THEOREM HandlerCatchesUp == SafetySpec => []CaughtUp
<1>1. IInv => CaughtUp
  <2> SUFFICES ASSUME IInv, lines = <<>> PROVE CaughtUp
    BY DEF CaughtUp
  <2>1. Len(lines) + 1 = 1
    OBVIOUS
  <2> QED
    BY <2>1 DEF IInv, UnreadOK, Replays, CaughtUp
<1> QED
  BY <1>1, Invariance, PTL

-----------------------------------------------------------------------------
(* The order of jobs and shares                                            *)

\* The jobs of unread lines are in order, beyond `low` and up to `high`.
Forward(queue, low, high) ==
  \A i \in 1..Len(queue) :
    queue[i].kind = "notify" =>
      /\ low < queue[i].id /\ queue[i].id <= high
      /\ \A j \in 1..Len(queue) :
           i < j /\ queue[j].kind = "notify" => queue[i].id < queue[j].id

\* The jobs of the shares in a channel are in order, from `low` up to `high`.
Between(low, channel, high) ==
  \A i \in 1..Len(channel) :
    /\ low <= channel[i].id /\ channel[i].id <= high
    /\ \A j \in 1..Len(channel) : i < j => channel[i].id <= channel[j].id

\* Shares leave in the order of their jobs, from the slot through the worker, its
\* channel, the hand of the listener and the writer's channel to the pool: behind
\* a share for a new job there is none for an older one.
SharesInOrder ==
  /\ work.id <= slot.id
  /\ Between(0, submit, work.id)
  /\ Between(0, writer, work.id)
  /\ \A i \in 1..Len(writer), j \in 1..Len(submit) : writer[i].id <= submit[j].id
  /\ lpc = "sending" => Between(inHand.id, submit, work.id) /\ Between(0, writer, inHand.id)

\* The jobs still to be read are newer than the one in the slot.
OrderOK ==
  /\ Forward(lines, slot.id, Len(announced))
  /\ lpc = "sending" => inHand \in Job /\ inHand.id <= work.id
  /\ SharesInOrder

\* Jobs are numbered; that of a request counts as 0.
LEMMA JobIds ==
  IInv =>
    /\ slot.id \in Nat /\ work.id \in Nat /\ inHand.id \in Nat
    /\ \A i \in 1..Len(submit) : submit[i].id \in Nat
    /\ \A i \in 1..Len(writer) : writer[i].id \in Nat
<1> SUFFICES ASSUME IInv
             PROVE  /\ slot.id \in Nat /\ work.id \in Nat /\ inHand.id \in Nat
                    /\ \A i \in 1..Len(submit) : submit[i].id \in Nat
                    /\ \A i \in 1..Len(writer) : writer[i].id \in Nat
  OBVIOUS
<1>1. \A job \in Job \union {NoJob} : job.id \in Nat
  BY Constants DEF Job, NoJob
<1>2. slot \in Job \union {NoJob} /\ work \in Job \union {NoJob} /\ inHand \in Job \union {NoJob}
  BY DEF IInv, TypeOK
<1>3. /\ \A i \in 1..Len(submit) : submit[i] \in Job
      /\ \A i \in 1..Len(writer) : writer[i] \in Job \union {NoJob}
  BY DEF IInv, TypeOK, NoShare
<1> QED
  BY <1>1, <1>2, <1>3

\* Taking the first element keeps the order of the others, none of which is older.
LEMMA BetweenTail ==
  ASSUME NEW S, NEW channel \in Seq(S), channel # <<>>, NEW low, NEW high,
         Between(low, channel, high)
  PROVE  /\ Between(low, Tail(channel), high)
         /\ Between(channel[1].id, Tail(channel), high)
         /\ channel[1].id <= high
<1>1. /\ Len(Tail(channel)) = Len(channel) - 1 /\ Len(channel) \in Nat \ {0} /\ 1 \in 1..Len(channel)
      /\ \A i \in 1..Len(Tail(channel)) :
           i + 1 \in 1..Len(channel) /\ 1 < i + 1 /\ Tail(channel)[i] = channel[i + 1]
  OBVIOUS
<1>2. \A i, j \in 1..Len(Tail(channel)) : i < j => i + 1 < j + 1
  BY <1>1
<1> QED
  BY <1>1, <1>2 DEF Between

\* A share no older than those in the channel goes behind them.
LEMMA BetweenAppend ==
  ASSUME NEW S, NEW channel \in Seq(S), NEW job \in S, NEW low, NEW high, NEW top,
         Between(low, channel, high), low <= job.id, job.id <= top,
         \A i \in 1..Len(channel) : channel[i].id <= job.id /\ channel[i].id <= top
  PROVE  Between(low, Append(channel, job), top)
<1> DEFINE all == Append(channel, job)
<1>1. /\ Len(all) = Len(channel) + 1 /\ Len(channel) \in Nat
      /\ \A i \in 1..Len(all) :
           \/ i = Len(all) /\ all[i] = job
           \/ i \in 1..Len(channel) /\ all[i] = channel[i]
  OBVIOUS
<1>2. \A i, j \in 1..Len(all) : i < j => i \in 1..Len(channel)
  BY <1>1
<1> HIDE DEF all
<1>3. Between(low, all, top)
  BY <1>1, <1>2 DEF Between
<1> QED
  BY <1>3 DEF all

\* Reading a line leaves newer jobs behind, newer than the one it may bring.
LEMMA ForwardTail ==
  ASSUME NEW queue \in Seq(Line), queue # <<>>, NEW low, NEW high, Forward(queue, low, high)
  PROVE  /\ Forward(Tail(queue), low, high)
         /\ queue[1].kind = "notify" =>
              low < queue[1].id /\ Forward(Tail(queue), queue[1].id, high)
<1>1. /\ Len(Tail(queue)) = Len(queue) - 1 /\ Len(queue) \in Nat \ {0} /\ 1 \in 1..Len(queue)
      /\ \A i \in 1..Len(Tail(queue)) :
           i + 1 \in 1..Len(queue) /\ 1 < i + 1 /\ Tail(queue)[i] = queue[i + 1]
  OBVIOUS
<1>2. \A i, j \in 1..Len(Tail(queue)) : i < j => i + 1 < j + 1
  BY <1>1
<1> QED
  BY <1>1, <1>2 DEF Forward

\* A new line brings the newest job, if it brings one.
LEMMA ForwardAppend ==
  ASSUME NEW queue \in Seq(Line), NEW line \in Line, NEW low \in Nat, NEW n \in Nat,
         Forward(queue, low, n), low <= n, NEW more \in Nat, n <= more,
         line.kind = "notify" => line.id = n + 1 /\ more = n + 1
  PROVE  Forward(Append(queue, line), low, more)
<1> DEFINE all == Append(queue, line)
<1>1. /\ Len(all) = Len(queue) + 1 /\ Len(queue) \in Nat
      /\ \A i \in 1..Len(all) :
           \/ i = Len(all) /\ all[i] = line
           \/ i \in 1..Len(queue) /\ all[i] = queue[i]
  OBVIOUS
<1>2. \A i, j \in 1..Len(all) : i < j => i \in 1..Len(queue)
  BY <1>1
<1>3. \A i \in 1..Len(queue) : queue[i].kind = "notify" => queue[i].id \in Nat
  BY LineKinds
<1> HIDE DEF all
<1>4. ASSUME NEW i \in 1..Len(all), all[i].kind = "notify"
      PROVE  /\ low < all[i].id /\ all[i].id <= more
             /\ \A j \in 1..Len(all) :
                  i < j /\ all[j].kind = "notify" => all[i].id < all[j].id
  <2>1. CASE all[i] = line /\ i = Len(all)
    BY <1>1, <1>4, <2>1
  <2>2. CASE i \in 1..Len(queue) /\ all[i] = queue[i]
    <3>1. low < queue[i].id /\ queue[i].id <= n /\ queue[i].id \in Nat
      BY <1>3, <1>4, <2>2 DEF Forward
    <3>2. ASSUME NEW j \in 1..Len(all), i < j, all[j].kind = "notify"
          PROVE  all[i].id < all[j].id
      BY <1>1, <1>4, <2>2, <3>1, <3>2 DEF Forward
    <3> QED
      BY <2>2, <3>1, <3>2
  <2> QED
    BY <1>1, <2>1, <2>2
<1>5. Forward(all, low, more)
  BY <1>4 DEF Forward
<1> QED
  BY <1>5 DEF all

\* The pool numbers its jobs as it announces them.
LEMMA PoolOrder ==
  ASSUME IInv, OrderOK, NEW line \in Line, PoolSends(line),
         line.kind # "notify" => announced' = announced,
         line.kind = "notify" =>
           /\ line.id = Len(announced) + 1
           /\ Len(announced') = Len(announced) + 1
  PROVE  OrderOK'
<1>1. lines' = Append(lines, line) /\ UNCHANGED <<slot, work, submit, writer, lpc, inHand>>
  BY DEF PoolSends, workVars, channelVars, listenVars
<1>2. /\ lines \in Seq(Line) /\ Len(announced) \in Nat /\ Len(announced') \in Nat
      /\ Len(announced) <= Len(announced')
  BY DEF IInv, TypeOK
<1>3. slot.id \in Nat /\ slot.id <= Len(announced)
  BY <1>2, JobIds DEF IInv, KnownOK, Known, NoJob
<1>4. Forward(Append(lines, line), slot.id, Len(announced'))
  BY <1>2, <1>3, ForwardAppend DEF OrderOK
<1> QED
  BY <1>1, <1>4 DEF OrderOK, SharesInOrder

\* `handle_line` moves the slot forward, if at all.
LEMMA HandleLineOrder ==
  ASSUME IInv, OrderOK, HandleLine
  PROVE  OrderOK' /\ (slot' # slot => slot.id < slot'.id)
<1> DEFINE line == Head(lines)
<1>1. /\ lines \in Seq(Line) /\ lines # <<>> /\ line = lines[1] /\ lines' = Tail(lines)
      /\ lpc = "select" /\ lpc' # "sending"
      /\ UNCHANGED <<announced, work, submit, writer, inHand>>
  BY DEF HandleLine, poolVars, workVars, channelVars, IInv, TypeOK
<1>2. slot' = slot \/ (line.kind = "notify" /\ slot'.id = line.id)
  BY DEF HandleLine, SetExtranonce, SetDifficulty, Notify, handlerVars
<1> HIDE DEF line
<1>3. slot.id \in Nat /\ work.id \in Nat
  BY JobIds
<1>4. /\ Forward(Tail(lines), slot.id, Len(announced))
      /\ line.kind = "notify" =>
           slot.id < line.id /\ Forward(Tail(lines), line.id, Len(announced))
  BY <1>1, ForwardTail DEF OrderOK
<1>5. slot' # slot => slot.id < slot'.id
  BY <1>2, <1>4
<1>6. Forward(lines', slot'.id, Len(announced'))
  BY <1>1, <1>2, <1>4
<1>7. line.kind = "notify" => line.id \in Nat
  BY <1>1, LineKinds
<1>8. work.id <= slot'.id
  BY <1>2, <1>3, <1>4, <1>7 DEF OrderOK, SharesInOrder
<1> QED
  BY <1>1, <1>5, <1>6, <1>8 DEF OrderOK, SharesInOrder

\* Every other step moves a share by one place, or none.
LEMMA NextOrder == IInv /\ OrderOK /\ [Next]_vars => OrderOK' /\ (slot' # slot => slot.id < slot'.id)
<1> SUFFICES ASSUME IInv, OrderOK, [Next]_vars
             PROVE  OrderOK' /\ (slot' # slot => slot.id < slot'.id)
  OBVIOUS
<1> USE JobIds
<1>1. CASE PoolSetsDifficulty \/ PoolSetsExtranonce \/ PoolSendsElse
  <2>1. PICK line \in Line : PoolSends(line) /\ line.kind # "notify"
    <3>1. /\ \A d \in Difficulty \union {Garbled} : [kind |-> "difficulty", value |-> d] \in Line
          /\ \A x \in Extranonce : [kind |-> "extranonce", value |-> x] \in Line
          /\ \A kind \in {"other", "malformed"} : [kind |-> kind] \in Line
      BY DEF Line
    <3>2. CASE PoolSetsDifficulty
      BY <3>1, <3>2 DEF PoolSetsDifficulty
    <3>3. CASE PoolSetsExtranonce
      BY <3>1, <3>3 DEF PoolSetsExtranonce
    <3>4. CASE PoolSendsElse
      BY <3>1, <3>4 DEF PoolSendsElse
    <3> QED
      BY <1>1, <3>2, <3>3, <3>4
  <2>2. announced' = announced /\ slot' = slot
    BY <1>1, <2>1 DEF PoolSetsDifficulty, PoolSetsExtranonce, PoolSendsElse, PoolSends
  <2> QED
    BY <2>1, <2>2, PoolOrder
<1>2. CASE PoolNotifies
  <2> DEFINE n == Len(announced) + 1
  <2>1. PICK own \in OwnTarget \union {Absent} :
          /\ PoolSends([kind |-> "notify", value |-> own, id |-> n])
          /\ announced' = Append(announced,
               [space |-> poolExtranonce,
                target |-> IF own = Absent THEN poolDifficulty ELSE own,
                difficulty |-> poolDifficulty])
    BY <1>2 DEF PoolNotifies
  <2>2. n \in 1..MaxLines
    BY <2>1, Constants DEF PoolSends, IInv, TypeOK, CountOK
  <2>3. [kind |-> "notify", value |-> own, id |-> n] \in Line
    BY <2>2 DEF Line
  <2>4. Len(announced') = n /\ slot' = slot
    BY <2>1 DEF IInv, TypeOK, PoolSends
  <2> QED
    BY <2>1, <2>3, <2>4, PoolOrder
<1>3. CASE HandleLine
  BY <1>3, HandleLineOrder
<1>4. CASE TakeShare
  <2>1. /\ submit \in Seq(Job) /\ submit # <<>> /\ submit' = Tail(submit)
        /\ inHand' = submit[1] /\ inHand' \in Job /\ 1 \in 1..Len(submit)
        /\ UNCHANGED <<lines, announced, slot, work, writer>>
    BY <1>4 DEF TakeShare, IInv, TypeOK, poolVars, workVars
  <2>2. /\ Between(0, submit', work.id) /\ Between(inHand'.id, submit', work.id)
        /\ inHand'.id <= work.id
    BY <2>1, BetweenTail DEF OrderOK, SharesInOrder
  <2>3. \A i \in 1..Len(submit') : i + 1 \in 1..Len(submit) /\ submit'[i] = submit[i + 1]
    BY <2>1
  <2>4. Between(0, writer, inHand'.id)
    BY <2>1 DEF OrderOK, SharesInOrder, Between
  <2>5. \A i \in 1..Len(writer), j \in 1..Len(submit') : writer[i].id <= submit'[j].id
    BY <2>3 DEF OrderOK, SharesInOrder
  <2> QED
    BY <2>1, <2>2, <2>4, <2>5 DEF OrderOK, SharesInOrder
<1>5. CASE SendCommand
  <2>1. /\ lpc = "sending" /\ lpc' = "select" /\ writer' = Append(writer, inHand)
        /\ writer \in Seq(Job \union {NoShare}) /\ inHand \in Job \union {NoShare}
        /\ UNCHANGED <<lines, announced, slot, work, submit>>
    BY <1>5 DEF SendCommand, IInv, TypeOK, poolVars, workVars, OrderOK
  <2>2. /\ Between(0, writer, inHand.id) /\ Between(inHand.id, submit, work.id)
        /\ inHand.id <= work.id
    BY <2>1 DEF OrderOK, SharesInOrder
  <2>3. \A i \in 1..Len(writer) : writer[i].id <= inHand.id /\ writer[i].id <= work.id
    BY <2>2 DEF Between
  <2>4. Between(0, writer', work.id)
    BY <2>1, <2>2, <2>3, BetweenAppend
  <2>5. \A i \in 1..Len(writer') : writer'[i] = inHand \/ (i \in 1..Len(writer) /\ writer'[i] = writer[i])
    BY <2>1
  <2>6. \A i \in 1..Len(writer'), j \in 1..Len(submit) : writer'[i].id <= submit[j].id
    BY <2>2, <2>5 DEF OrderOK, SharesInOrder, Between
  <2> QED
    BY <2>1, <2>4, <2>6 DEF OrderOK, SharesInOrder
<1>6. CASE SendCommandFails \/ EndListen
  <2>1. lpc' # "sending" /\ UNCHANGED <<lines, announced, slot, work, submit, writer>>
    BY <1>6 DEF SendCommandFails, EndListen, poolVars, workVars, channelVars
  <2> QED
    BY <2>1 DEF OrderOK, SharesInOrder
<1>7. CASE Write \/ WriteFails
  <2>1. /\ writer \in Seq(Job \union {NoShare}) /\ writer # <<>>
        /\ writer' = Tail(writer) \/ writer' = <<>>
        /\ UNCHANGED <<lines, announced, slot, work, submit, lpc, inHand>>
    BY <1>7 DEF Write, WriteFails, IInv, TypeOK, poolVars, workVars, listenVars
  <2>2. \A low, high : Between(low, writer, high) => Between(low, writer', high)
    <3>1. \A low, high : Between(low, <<>>, high)
      BY DEF Between
    <3>2. \A low, high : Between(low, writer, high) => Between(low, Tail(writer), high)
      BY <2>1, BetweenTail
    <3> QED
      BY <2>1, <3>1, <3>2
  <2>3. \A i \in 1..Len(writer') : i + 1 \in 1..Len(writer) /\ writer'[i] = writer[i + 1]
    BY <2>1
  <2>4. \A i \in 1..Len(writer'), j \in 1..Len(submit) : writer'[i].id <= submit[j].id
    BY <2>3 DEF OrderOK, SharesInOrder
  <2> QED
    BY <2>1, <2>2, <2>4 DEF OrderOK, SharesInOrder
<1>8. CASE TakeJob
  <2>1. work' = slot /\ UNCHANGED <<lines, announced, slot, submit, writer, lpc, inHand>>
    BY <1>8 DEF TakeJob, poolVars, channelVars, listenVars
  <2>2. \A low : /\ Between(low, submit, work.id) => Between(low, submit, slot.id)
                 /\ Between(low, writer, work.id) => Between(low, writer, slot.id)
    BY DEF OrderOK, SharesInOrder, Between
  <2> QED
    BY <2>1, <2>2 DEF OrderOK, SharesInOrder
<1>9. CASE SubmitShare
  <2>1. /\ work # NoJob /\ submit \in Seq(Job) /\ work \in Job /\ submit' = Append(submit, work)
        /\ UNCHANGED <<lines, announced, slot, work, writer, lpc, inHand>>
    BY <1>9 DEF SubmitShare, IInv, TypeOK, poolVars, listenVars
  <2>2. \A i \in 1..Len(submit) : submit[i].id <= work.id
    BY DEF OrderOK, SharesInOrder, Between
  <2>3. \A low : low <= work.id /\ Between(low, submit, work.id) => Between(low, submit', work.id)
    BY <2>1, <2>2, BetweenAppend
  <2>4. \A i \in 1..Len(submit') : submit'[i] = work \/ (i \in 1..Len(submit) /\ submit'[i] = submit[i])
    BY <2>1
  <2>5. \A i \in 1..Len(writer), j \in 1..Len(submit') : writer[i].id <= submit'[j].id
    BY <2>4 DEF OrderOK, SharesInOrder, Between
  <2> QED
    BY <2>1, <2>3, <2>5 DEF OrderOK, SharesInOrder
<1>10. CASE UNCHANGED vars
  BY <1>10 DEF vars, OrderOK, SharesInOrder, poolVars, workVars, channelVars, listenVars
<1> QED
  BY <1>1, <1>2, <1>3, <1>4, <1>5, <1>6, <1>7, <1>8, <1>9, <1>10 DEF Next

\* A new handler has no jobs and no shares.
LEMMA InitOrder == Init => OrderOK
<1> SUFFICES ASSUME Init PROVE OrderOK
  OBVIOUS
<1>1. /\ Len(lines) = 0 /\ Len(submit) = 0 /\ lpc # "sending"
      /\ slot.id = 0 /\ work.id = 0
      /\ writer = <<NoShare, NoShare>> /\ NoShare.id = 0
  BY DEF Init, NoShare, NoJob
<1>2. Between(0, writer, 0)
  BY <1>1 DEF Between
<1> QED
  BY <1>1, <1>2 DEF OrderOK, SharesInOrder, Forward, Between

\* The order is kept in all states of a connection.
THEOREM OrderIsKept == SafetySpec => []OrderOK
BY InitOrder, NextOrder, Invariance, PTL DEF SafetySpec

\* `found_share`, `listen` and the writer task never let a share for an older job
\* leave behind one for a newer job.
THEOREM SharesLeaveInOrder == SafetySpec => []SharesInOrder
<1>1. OrderOK => SharesInOrder
  BY DEF OrderOK
<1> QED
  BY <1>1, OrderIsKept, PTL

\* The slot only ever takes a job that the pool announced later than the one it holds.
JobsMoveForward == [][slot' # slot => slot.id < slot'.id]_vars

\* `handle_line` never puts an older job back into the slot: lines are handled in
\* the order in which they come, whatever else the `select!` does in between.
THEOREM JobsNeverGoBack == SafetySpec => JobsMoveForward
<1>1. IInv /\ OrderOK /\ [Next]_vars => [slot' # slot => slot.id < slot'.id]_vars
  BY NextOrder
<1> QED
  BY <1>1, Invariance, OrderIsKept, PTL DEF SafetySpec, JobsMoveForward

-----------------------------------------------------------------------------
(* The connection                                                          *)

\* The slot, the worker and the shares that the listener has not taken, by the numbers
\* of their jobs; the receiver of shares lives as long as this module goes on.
Link == INSTANCE PoolLink WITH
  Worker <- {"worker"}, phase <- "open", job <- slot.id,
  work <- [w \in {"worker"} |-> work.id],
  channel <- [k \in DOMAIN submit |-> submit[k].id]

\* `handle_line` announces, `TakeShare` receives, and all else is not visible.
LEMMA StepIsOfTheLink ==
  IInv /\ OrderOK /\ [Next]_vars => [Link!LinkNext]_(Link!linkVars)
<1> SUFFICES ASSUME IInv, OrderOK, [Next]_vars PROVE [Link!LinkNext]_(Link!linkVars)
  OBVIOUS
<1> DEFINE shares == [k \in DOMAIN submit |-> submit[k].id]
<1>1. /\ submit \in Seq(Job) /\ Len(submit) \in Nat /\ DOMAIN submit = 1..Len(submit)
      /\ shares \in Seq(Nat) /\ Len(shares) = Len(submit)
  <2>1. submit \in Seq(Job) /\ Len(submit) \in Nat /\ DOMAIN submit = 1..Len(submit)
    BY DEF IInv, TypeOK
  <2>2. \A k \in 1..Len(submit) : submit[k].id \in Nat
    BY JobIds
  <2> QED
    BY <2>1, <2>2
<1>2. CASE HandleLine
  <2>1. UNCHANGED <<work, submit>> /\ (slot' # slot => slot'.id > slot.id)
    BY <1>2, JobIds, HandleLineOrder DEF HandleLine, workVars, channelVars
  <2>2. slot'.id \in Nat /\ slot.id \in Nat
    <3>1. IInv'
      BY NextIInv
    <3>2. slot' \in Job \union {NoJob}
      BY <3>1 DEF IInv, TypeOK
    <3>3. slot'.id \in Nat
      BY <3>2, Constants DEF Job, NoJob
    <3> QED
      BY <3>3, JobIds
  <2>3. UNCHANGED shares
    BY <2>1
  <2>4. CASE slot' = slot
    BY <2>1, <2>3, <2>4 DEF Link!linkVars
  <2>5. CASE slot' # slot
    BY <2>1, <2>2, <2>3, <2>5 DEF Link!LinkNext, Link!Announce
  <2> QED
    BY <2>4, <2>5
<1>3. CASE TakeShare
  <2>1. submit # <<>> /\ submit' = Tail(submit) /\ UNCHANGED <<slot, work>>
    BY <1>3 DEF TakeShare, workVars
  <2>2. /\ Len(submit') = Len(submit) - 1 /\ DOMAIN submit' = 1..(Len(submit) - 1)
        /\ \A k \in 1..(Len(submit) - 1) : k + 1 \in DOMAIN submit /\ submit'[k] = submit[k + 1]
    BY <1>1, <2>1
  <2>3. shares # <<>>
    BY <1>1, <2>1
  <2>4. shares' = [k \in 1..(Len(submit) - 1) |-> shares[k + 1]]
    BY <2>2
  <2>5. Tail(shares) = [k \in 1..(Len(submit) - 1) |-> shares[k + 1]]
    BY <1>1, <2>1, <2>3
  <2> QED
    BY <2>1, <2>3, <2>4, <2>5 DEF Link!LinkNext, Link!Receive
<1>4. CASE TakeJob
  BY <1>4 DEF TakeJob, channelVars, Link!LinkNext, Link!Take
<1>5. CASE SubmitShare
  <2>1. /\ work # NoJob /\ submit' = Append(submit, work) /\ UNCHANGED <<slot, work>>
    BY <1>5 DEF SubmitShare
  <2>2. work.id # 0
    BY <2>1, Constants DEF IInv, TypeOK, Job
  <2>3. /\ DOMAIN submit' = 1..(Len(submit) + 1)
        /\ \A k \in 1..Len(submit) : submit'[k] = submit[k]
        /\ submit'[Len(submit) + 1] = work
    BY <1>1, <2>1
  <2>4. shares' = [k \in 1..(Len(submit) + 1) |->
                     IF k = Len(submit) + 1 THEN work.id ELSE shares[k]]
    BY <1>1, <2>3
  <2>5. Append(shares, work.id) = [k \in 1..(Len(submit) + 1) |->
                                     IF k = Len(submit) + 1 THEN work.id ELSE shares[k]]
    <3> HIDE DEF shares
    <3> QED
      BY <1>1
  <2> QED
    BY <2>1, <2>2, <2>4, <2>5 DEF Link!LinkNext, Link!Submit
<1>6. CASE \/ PoolSetsDifficulty \/ PoolSetsExtranonce \/ PoolNotifies \/ PoolSendsElse
           \/ SendCommand \/ SendCommandFails \/ EndListen \/ Write \/ WriteFails
           \/ UNCHANGED vars
  <2>1. UNCHANGED <<slot, work, submit>>
    BY <1>6 DEF PoolSetsDifficulty, PoolSetsExtranonce, PoolNotifies, PoolSendsElse, PoolSends,
                SendCommand, SendCommandFails, EndListen, Write, WriteFails, vars, workVars,
                channelVars
  <2> QED
    BY <2>1 DEF Link!linkVars
<1> QED
  BY <1>2, <1>3, <1>4, <1>5, <1>6 DEF Next

\* `StratumHandler` does for its pool what a connection promises, however lines, shares
\* and the writer task interleave.
THEOREM ImplementsTheLink == SafetySpec => Link!LinkSafety
<1>1. Init => Link!LinkInit
  <2> SUFFICES ASSUME Init PROVE Link!LinkInit
    OBVIOUS
  <2>1. slot.id = 0 /\ work.id = 0 /\ submit = <<>>
    BY DEF Init, NoJob
  <2> QED
    BY <2>1 DEF Link!LinkInit
<1> QED
  BY <1>1, StepIsOfTheLink, Invariance, OrderIsKept, PTL DEF SafetySpec, Link!LinkSafety
=============================================================================
