-------------------------- MODULE AgentMemory_proofs ---------------------------
(***************************************************************************)
(* Theorems of AgentMemory, for any runs, threads, sessions, limit and     *)
(* environment, whatever the restarts, expiries and errors.                *)
(***************************************************************************)
EXTENDS AgentMemory, SequenceTheorems, TLAPS

\* A run is under way only in a process that is up.
Hosted == \A r \in Run : at[r] \in InProcess => process # Down

MemoryInv == TypeOK /\ Hosted

\* A production process works with Redis and a durable checkpointer.
DurableInv ==
  /\ ProductionIsDurable
  /\ env = "production" =>
       \/ process = Down
       \/ process.buffer = "redis" /\ process.saver = "durable"

-------------------------------------------------------------------------------

\* The buffer that is left is no longer than the limit, and is the end of the old one.
LEMMA TrimmedType ==
  ASSUME NEW S, NEW list \in Seq(S)
  PROVE  /\ Trimmed(list) \in Seq(S)
         /\ Len(Trimmed(list)) = IF Len(list) > Limit THEN Limit ELSE Len(list)
         /\ \A i \in 1..Len(Trimmed(list)) :
              Trimmed(list)[i] = list[Len(list) - Len(Trimmed(list)) + i]
  <1> USE MemoryAssumption
  <1>1. CASE Len(list) > Limit
    <2> DEFINE m == Len(list) - Limit + 1
    <2>1. Trimmed(list) = SubSeq(list, m, Len(list))
      BY <1>1 DEF Trimmed
    <2>2. m \in 1..Len(list) /\ Len(list) \in Nat
      BY <1>1
    <2>3. Len(SubSeq(list, m, Len(list))) = Limit
      BY <1>1, <2>2
    <2>4. SubSeq(list, m, Len(list)) \in Seq(S)
      BY <2>2
    <2>5. \A i \in 1..Limit : SubSeq(list, m, Len(list))[i] = list[m + i - 1]
      BY <1>1, <2>2
    <2> QED
      BY <1>1, <2>1, <2>3, <2>4, <2>5
  <1>2. CASE ~(Len(list) > Limit)
    BY <1>2 DEF Trimmed
  <1> QED
    BY <1>1, <1>2

LEMMA MemoryInit == Init => MemoryInv /\ DurableInv /\ BufferIsRecent
  <1> SUFFICES ASSUME Init PROVE MemoryInv /\ DurableInv /\ BufferIsRecent
    OBVIOUS
  <1> USE MemoryAssumption DEF Init
  <1>1. TypeOK
    BY DEF TypeOK, Steps, Buffers, Savers
  <1>2. Hosted
    BY DEF Hosted, InProcess
  <1>3. DurableInv
    BY DEF DurableInv, ProductionIsDurable, Buffers, Savers
  <1>4. BufferIsRecent
    BY DEF BufferIsRecent, Buffers
  <1> QED
    BY <1>1, <1>2, <1>3, <1>4 DEF MemoryInv

-------------------------------------------------------------------------------
(* Type correctness                                                        *)

LEMMA RunTypes ==
  ASSUME MemoryInv, NEW r \in Run, at[r] \in InProcess
  PROVE  /\ process.buffer \in Buffers /\ process.saver \in Savers
         /\ request[r].session \in Session /\ request[r].thread \in Thread
         /\ Buffer(r) \in Seq(Message) /\ Kept(r) \in Seq(Message)
  <1>1. process \in [buffer : Buffers, saver : Savers]
    BY DEF MemoryInv, TypeOK, Hosted
  <1>2. request[r] \in [thread : Thread, session : Session]
    BY MemoryAssumption DEF MemoryInv, TypeOK
  <1> QED
    BY <1>1, <1>2 DEF MemoryInv, TypeOK, Buffer, Kept

LEMMA CheckpointType ==
  ASSUME MemoryInv, NEW r \in Run, at[r] \in InProcess, NEW new \in Seq(Message),
         Checkpoint(r, new)
  PROVE  checkpoint' \in [Savers -> [Thread -> Seq(Message)]]
  <1>1. process.saver \in Savers /\ request[r].thread \in Thread
    BY RunTypes
  <1>2. checkpoint \in [Savers -> [Thread -> Seq(Message)]]
    BY DEF MemoryInv, TypeOK
  <1>3. CASE checkpoint' = checkpoint
    BY <1>2, <1>3
  <1>4. CASE checkpoint' = [checkpoint EXCEPT ![process.saver][request[r].thread] = new]
    BY <1>1, <1>2, <1>4
  <1> QED
    BY <1>3, <1>4 DEF Checkpoint

LEMMA AppendedType ==
  ASSUME MemoryInv, NEW r \in Run, at[r] = "saving", messages[r] # <<>>, Appended(r)
  PROVE  /\ conversation' \in [Buffers -> [Session -> Seq(Message)]]
         /\ log' \in [Buffers -> [Session -> Seq(Message)]]
        /\ saved' \in [Run -> Seq(Message)]
  <1> DEFINE b == process.buffer
             s == request[r].session
  <1>1. b \in Buffers /\ s \in Session
    BY RunTypes DEF InProcess
  <1>2. Head(messages[r]) \in Message
    BY DEF MemoryInv, TypeOK
  <1>3. conversation[b][s] \in Seq(Message) /\ log[b][s] \in Seq(Message)
    BY <1>1 DEF MemoryInv, TypeOK
  <1>4. Append(conversation[b][s], Head(messages[r])) \in Seq(Message)
    BY <1>2, <1>3
  <1>5. Trimmed(Append(conversation[b][s], Head(messages[r]))) \in Seq(Message)
    BY <1>4, TrimmedType
  <1>6. Append(log[b][s], Head(messages[r])) \in Seq(Message)
    BY <1>2, <1>3
  <1> QED
    BY <1>1, <1>5, <1>6 DEF Appended, MemoryInv, TypeOK

LEMMA MemoryNext == MemoryInv /\ [Next]_vars => MemoryInv'
  <1> SUFFICES ASSUME MemoryInv, [Next]_vars PROVE MemoryInv'
    OBVIOUS
  <1> USE DEF MemoryInv
  <1>1. CASE Start
    BY <1>1 DEF Start, TypeOK, Hosted, Buffers, Savers, Down, stores, runVars, histories
  <1>2. CASE Crash
    BY <1>2 DEF Crash, TypeOK, Hosted, Steps, InProcess, Buffers, Savers, histories
  <1>3. ASSUME NEW s \in Session, Expire(s) PROVE MemoryInv'
    BY <1>3 DEF Expire, TypeOK, Hosted, Buffers, runVars, histories
  <1>4. ASSUME NEW r \in Run, Load(r) PROVE MemoryInv'
    <2>1. process \in [buffer : Buffers, saver : Savers]
      BY <1>4 DEF Load, TypeOK
    <2>2. request[r] \in [thread : Thread, session : Session]
      BY MemoryAssumption DEF TypeOK
    <2>3. Buffer(r) \in Seq(Message)
      BY <2>1, <2>2 DEF Buffer, TypeOK
    <2> QED
      BY <1>4, <2>3 DEF Load, Goto, TypeOK, Hosted, Steps, stores, histories
  <1>5. ASSUME NEW r \in Run, Invoke(r) PROVE MemoryInv'
    <2>1. at[r] \in InProcess
      BY <1>5 DEF Invoke, InProcess
    <2>2. Kept(r) \o history[r] \in Seq(Message)
      BY <2>1, RunTypes DEF TypeOK
    <2>3. checkpoint' \in [Savers -> [Thread -> Seq(Message)]]
      BY <1>5, <2>1, <2>2, CheckpointType DEF Invoke
    <2>4. Hosted'
      BY <1>5, <2>1 DEF Invoke, Goto, Hosted, TypeOK
    <2> QED
      BY <1>5, <2>2, <2>3, <2>4 DEF Invoke, Goto, TypeOK, Steps, histories
  <1>6. ASSUME NEW r \in Run, Speak(r) PROVE MemoryInv'
    <2>1. at[r] \in InProcess
      BY <1>6 DEF Speak, InProcess
    <2>2. said[r] + 1 \in Nat /\ said[r] + 1 <= Talk[r]
      <3>1. said[r] \in Nat /\ Talk[r] \in Nat /\ said[r] < Talk[r]
        BY <1>6, MemoryAssumption DEF Speak, TypeOK
      <3> QED
        BY <3>1
    <2>3. Append(messages[r], <<r, said[r] + 1>>) \in Seq(Message)
      BY <2>2 DEF TypeOK, Message
    <2>4. checkpoint' \in [Savers -> [Thread -> Seq(Message)]]
      BY <1>6, <2>1, <2>3, CheckpointType DEF Speak
    <2>5. Hosted'
      BY <1>6 DEF Speak, Hosted
    <2> QED
      BY <1>6, <2>2, <2>3, <2>4, <2>5 DEF Speak, TypeOK, histories
  <1>7. ASSUME NEW r \in Run, GraphRaises(r) PROVE MemoryInv'
    BY <1>7 DEF GraphRaises, Goto, TypeOK, Hosted, Steps, InProcess, stores, histories
  <1>8. ASSUME NEW r \in Run, GraphEnds(r) PROVE MemoryInv'
    <2>1. at[r] \in InProcess
      BY <1>8 DEF GraphEnds, InProcess
    <2>2. SubSeq(messages[r], Len(history[r]) + 1, Len(messages[r])) \in Seq(Message)
      BY DEF TypeOK
    <2>3. Hosted'
      BY <1>8, <2>1 DEF GraphEnds, Goto, Hosted, TypeOK
    <2> QED
      BY <1>8, <2>2, <2>3 DEF GraphEnds, Goto, TypeOK, Steps, stores, histories
  <1>9. ASSUME NEW r \in Run, AddMessage(r) PROVE MemoryInv'
    <2>1. at[r] = "saving" /\ messages[r] # <<>>
      BY <1>9 DEF AddMessage
    <2>2. /\ conversation' \in [Buffers -> [Session -> Seq(Message)]]
          /\ log' \in [Buffers -> [Session -> Seq(Message)]]
          /\ saved' \in [Run -> Seq(Message)]
      BY <1>9, <2>1, AppendedType DEF AddMessage, TypeOK, histories
    <2>3. Tail(messages[r]) \in Seq(Message)
      BY <2>1 DEF TypeOK
    <2>4. at' \in [Run -> Steps] /\ Hosted'
      BY <1>9 DEF AddMessage, Goto, TypeOK, Hosted, Steps, InProcess, histories
    <2>5. messages' \in [Run -> Seq(Message)]
      BY <1>9, <2>3 DEF AddMessage, TypeOK
    <2> QED
      BY <1>9, <2>2, <2>4, <2>5 DEF AddMessage, TypeOK, histories
  <1>10. ASSUME NEW r \in Run, Reply(r) PROVE MemoryInv'
    BY <1>10 DEF Reply, Goto, TypeOK, Hosted, Steps, InProcess, stores, histories
  <1>11. CASE UNCHANGED vars
    BY <1>11 DEF vars, stores, runVars, histories, TypeOK, Hosted
  <1>12. ASSUME NEW t \in Thread, EvictCheckpoint(t) PROVE MemoryInv'
    BY <1>12 DEF EvictCheckpoint, TypeOK, Hosted, Savers, runVars, histories
  <1> QED
    BY <1>1, <1>2, <1>3, <1>4, <1>5, <1>6, <1>7, <1>8, <1>9, <1>10, <1>11, <1>12 DEF Next

\* Every reachable state of the memory is well typed.
THEOREM MemoryTypeCorrect == Spec => []TypeOK
  <1>1. MemoryInv => TypeOK
    BY DEF MemoryInv
  <1> QED
    BY <1>1, MemoryInit, MemoryNext, PTL DEF Spec

-------------------------------------------------------------------------------
(* Durability                                                              *)

\* Steps that neither start a process nor write to a local store.
LEMMA DurableFrame ==
  ASSUME DurableInv, UNCHANGED <<env, process>>,
         env = "production" => /\ conversation'["local"] = conversation["local"]
                               /\ checkpoint'["local"] = checkpoint["local"]
  PROVE  DurableInv'
  BY DEF DurableInv, ProductionIsDurable

LEMMA DurableNext == MemoryInv /\ DurableInv /\ [Next]_vars => DurableInv'
  <1> SUFFICES ASSUME MemoryInv, DurableInv, [Next]_vars PROVE DurableInv'
    OBVIOUS
  <1>1. CASE Start
    BY <1>1 DEF Start, DurableInv, ProductionIsDurable, stores
  <1>2. CASE Crash
    BY <1>2 DEF Crash, DurableInv, ProductionIsDurable, MemoryInv, TypeOK, Buffers, Savers
  <1>3. ASSUME NEW s \in Session, Expire(s) PROVE DurableInv'
    BY <1>3, DurableFrame DEF Expire, MemoryInv, TypeOK, Buffers
  <1>4. ASSUME NEW r \in Run, Load(r) \/ GraphRaises(r) \/ GraphEnds(r) \/ Reply(r)
        PROVE  DurableInv'
    BY <1>4, DurableFrame DEF Load, GraphRaises, GraphEnds, Reply, stores
  <1>5. ASSUME NEW r \in Run, NEW new, Checkpoint(r, new), at[r] \in InProcess,
               UNCHANGED <<env, process, conversation>>
        PROVE  DurableInv'
    <2>1. env = "production" => process.saver = "durable"
      BY <1>5 DEF DurableInv, MemoryInv, Hosted
    <2>2. env = "production" => checkpoint'["local"] = checkpoint["local"]
      BY <1>5, <2>1 DEF Checkpoint, MemoryInv, TypeOK, Savers
    <2> QED
      BY <1>5, <2>2, DurableFrame
  <1>6. ASSUME NEW r \in Run, Invoke(r) PROVE DurableInv'
    BY <1>5, <1>6 DEF Invoke, InProcess
  <1>7. ASSUME NEW r \in Run, Speak(r) PROVE DurableInv'
    BY <1>5, <1>7 DEF Speak, InProcess
  <1>8. ASSUME NEW r \in Run, AddMessage(r) PROVE DurableInv'
    <2>1. env = "production" => process.buffer = "redis"
      BY <1>8 DEF AddMessage, DurableInv, MemoryInv, Hosted, InProcess
    <2>2. env = "production" => conversation'["local"] = conversation["local"]
      BY <1>8, <2>1 DEF AddMessage, Appended, MemoryInv, TypeOK, Buffers
    <2> QED
      BY <1>8, <2>2, DurableFrame DEF AddMessage
  <1>9. CASE UNCHANGED vars
    BY <1>9, DurableFrame DEF vars, stores
  <1>10. ASSUME NEW t \in Thread, EvictCheckpoint(t) PROVE DurableInv'
    BY <1>10, DurableFrame DEF EvictCheckpoint, MemoryInv, TypeOK, Savers
  <1> QED
    BY <1>1, <1>2, <1>3, <1>4, <1>6, <1>7, <1>8, <1>9, <1>10 DEF Next

\* In production nothing is kept where a restart of the agent service loses it,
\* because lifespan and CheckpointManager.start raise instead of falling back.
THEOREM ProductionIsDurableAlways == Spec => []ProductionIsDurable
  <1>1. DurableInv => ProductionIsDurable
    BY DEF DurableInv
  <1> QED
    BY <1>1, MemoryInit, MemoryNext, DurableNext, PTL DEF Spec

-------------------------------------------------------------------------------
(* The buffer                                                              *)

RecentIn(kept, all) ==
  /\ Len(kept) <= Limit /\ Len(kept) <= Len(all)
  /\ \A i \in 1..Len(kept) : kept[i] = all[Len(all) - Len(kept) + i]

\* Appending to both and trimming the one keeps it the end of the other.
LEMMA RecentAppend ==
  ASSUME NEW kept \in Seq(Message), NEW all \in Seq(Message), RecentIn(kept, all),
         NEW m \in Message
  PROVE  RecentIn(Trimmed(Append(kept, m)), Append(all, m))
  <1> DEFINE longer == Append(kept, m)
             new == Trimmed(longer)
             total == Append(all, m)
  <1>1. /\ longer \in Seq(Message) /\ Len(longer) = Len(kept) + 1
        /\ Len(total) = Len(all) + 1
        /\ Len(kept) \in Nat /\ Len(all) \in Nat
    OBVIOUS
  <1>2. /\ Len(new) = IF Len(longer) > Limit THEN Limit ELSE Len(longer)
        /\ \A i \in 1..Len(new) : new[i] = longer[Len(longer) - Len(new) + i]
    BY <1>1, TrimmedType
  <1>3. Len(new) \in Nat /\ Len(new) <= Limit /\ Len(new) <= Len(longer) /\ Len(new) <= Len(total)
    BY <1>1, <1>2, MemoryAssumption DEF RecentIn
  <1>4. /\ \A q \in 1..Len(kept) : longer[q] = kept[q]
        /\ longer[Len(kept) + 1] = m
        /\ \A q \in 1..Len(all) : total[q] = all[q]
        /\ total[Len(all) + 1] = m
    BY <1>1
  <1>5. ASSUME NEW i \in 1..Len(new) PROVE new[i] = total[Len(total) - Len(new) + i]
    <2> DEFINE k == Len(longer) - Len(new) + i
               j == Len(total) - Len(new) + i
    <2>1. new[i] = longer[k] /\ k \in 1..(Len(kept) + 1)
      BY <1>1, <1>2, <1>3
    <2>2. j = Len(all) - Len(kept) + k
      BY <1>1, <1>3
    <2> SUFFICES new[i] = total[j]
      OBVIOUS
    <2> HIDE DEF longer, new, total, k, j
    <2>3. CASE k = Len(kept) + 1
      <3>1. j = Len(all) + 1
        BY <1>1, <2>2, <2>3
      <3> QED
        BY <1>4, <2>1, <2>3, <3>1
    <2>4. CASE k \in 1..Len(kept)
      <3>1. j \in 1..Len(all)
        BY <1>1, <2>2, <2>4 DEF RecentIn
      <3>2. kept[k] = all[j]
        BY <2>2, <2>4 DEF RecentIn
      <3> QED
        BY <1>4, <2>1, <2>4, <3>1, <3>2
    <2> QED
      BY <1>1, <2>1, <2>3, <2>4
  <1> QED
    BY <1>3, <1>5 DEF RecentIn

LEMMA RecentFrame ==
  ASSUME BufferIsRecent, UNCHANGED log,
         \A b \in Buffers, s \in Session :
           conversation'[b][s] = conversation[b][s] \/ conversation'[b][s] = <<>>
  PROVE  BufferIsRecent'
  <1> SUFFICES ASSUME NEW b \in Buffers, NEW s \in Session
               PROVE  RecentIn(conversation'[b][s], log[b][s])
    BY DEF BufferIsRecent, RecentIn
  <1>1. RecentIn(conversation[b][s], log[b][s])
    BY DEF BufferIsRecent, RecentIn
  <1>2. CASE conversation'[b][s] = <<>>
    BY <1>2, MemoryAssumption DEF RecentIn
  <1> QED
    BY <1>1, <1>2

LEMMA BufferRecentNext ==
  ASSUME MemoryInv, BufferIsRecent, [Next]_vars PROVE BufferIsRecent'
  <1>1. ASSUME UNCHANGED <<conversation, log>> PROVE BufferIsRecent'
    BY <1>1 DEF BufferIsRecent
  <1>2. CASE Start
    BY <1>1, <1>2 DEF Start, stores, histories
  <1>3. CASE Crash
    BY <1>3, RecentFrame DEF Crash, MemoryInv, TypeOK, Buffers, histories
  <1>4. ASSUME NEW s \in Session, Expire(s) PROVE BufferIsRecent'
    BY <1>4, RecentFrame DEF Expire, MemoryInv, TypeOK, Buffers, histories
  <1>5. ASSUME NEW r \in Run,
               \/ Load(r) \/ Invoke(r) \/ Speak(r) \/ GraphRaises(r) \/ GraphEnds(r) \/ Reply(r)
        PROVE  BufferIsRecent'
    BY <1>1, <1>5 DEF Load, Invoke, Speak, GraphRaises, GraphEnds, Reply, stores, histories
  <1>6. ASSUME NEW r \in Run, AddMessage(r) PROVE BufferIsRecent'
    <2>1. CASE UNCHANGED <<conversation, log>>
      BY <1>1, <2>1
    <2>2. CASE Appended(r)
      <3> DEFINE s == request[r].session
                 b == process.buffer
                 m == Head(messages[r])
      <3>1. b \in Buffers /\ s \in Session /\ m \in Message
        BY <1>6, RunTypes DEF AddMessage, MemoryInv, Hosted, InProcess, TypeOK
      <3>2. /\ conversation[b][s] \in Seq(Message)
            /\ log[b][s] \in Seq(Message)
            /\ RecentIn(conversation[b][s], log[b][s])
        BY <3>1 DEF MemoryInv, TypeOK, BufferIsRecent, RecentIn
      <3>3. RecentIn(Trimmed(Append(conversation[b][s], m)), Append(log[b][s], m))
        BY <3>1, <3>2, RecentAppend
      <3>4. /\ conversation'[b][s] = Trimmed(Append(conversation[b][s], m))
            /\ log'[b][s] = Append(log[b][s], m)
        BY <2>2, <3>1 DEF Appended, MemoryInv, TypeOK
      <3>5. ASSUME NEW c \in Buffers, NEW q \in Session, c # b \/ q # s
            PROVE  conversation'[c][q] = conversation[c][q] /\ log'[c][q] = log[c][q]
        BY <2>2, <3>1, <3>5 DEF Appended, MemoryInv, TypeOK
      <3> HIDE DEF s, b, m
      <3>6. ASSUME NEW c \in Buffers, NEW q \in Session
            PROVE  RecentIn(conversation'[c][q], log'[c][q])
        <4>1. CASE c = b /\ q = s
          BY <3>3, <3>4, <4>1
        <4>2. CASE c # b \/ q # s
          <5>1. RecentIn(conversation[c][q], log[c][q])
            BY DEF BufferIsRecent, RecentIn
          <5> QED
            BY <3>5, <4>2, <5>1
        <4> QED
          BY <4>1, <4>2
      <3> QED
        BY <3>6 DEF BufferIsRecent, RecentIn
    <2> QED
      BY <1>6, <2>1, <2>2 DEF AddMessage, histories
  <1>7. CASE UNCHANGED vars
    BY <1>1, <1>7 DEF vars, stores, histories
  <1>8. ASSUME NEW t \in Thread, EvictCheckpoint(t) PROVE BufferIsRecent'
    BY <1>1, <1>8 DEF EvictCheckpoint, histories
  <1> QED
    BY <1>2, <1>3, <1>4, <1>5, <1>6, <1>7, <1>8 DEF Next

\* The buffer of a session is the end of all that was ever added to it, however
\* many runs add to it, wherever it is kept, and through expiry and restarts.
THEOREM BufferIsRecentAlways == Spec => []BufferIsRecent
  BY MemoryInit, MemoryNext, BufferRecentNext, PTL DEF Spec
-------------------------------------------------------------------------------
(* What a run saves                                                        *)

\* list consists of messages that were said, spoken giving their number by run.
Said(spoken, list) == \A i \in 1..Len(list) : list[i][2] \in 1..spoken[list[i][1]]

\* Nothing is kept anywhere that no run has said.
SaidInv ==
  /\ \A b \in Buffers, s \in Session : Said(said, conversation[b][s])
  /\ \A k \in Savers, t \in Thread : Said(said, checkpoint[k][t])
  /\ \A r \in Run : Said(said, history[r]) /\ Said(said, messages[r])

\* The last n of list are the first n messages of r, and the rest is by others.
EndsWithOwn(r, n, list) ==
  /\ n <= Len(list)
  /\ \A i \in 1..Len(list) :
       IF i <= Len(list) - n THEN list[i][1] # r ELSE list[i] = <<r, i - (Len(list) - n)>>

\* list is the beginning of the first n messages of r.
OwnPrefix(r, n, list) == Len(list) <= n /\ \A i \in 1..Len(list) : list[i] = <<r, i>>

\* A run has said nothing before its graph starts.  Its messages then are those
\* it found on the thread, those of the buffer, and its own; from the end of the
\* graph on, saved and messages together are those behind the loaded history.
SavedBy(r) ==
  /\ at[r] \in {"idle", "loaded", "error500"} => saved[r] = <<>> /\ said[r] = 0
  /\ at[r] = "graph" =>
       /\ saved[r] = <<>>
       /\ EndsWithOwn(r, said[r], messages[r])
       /\ Len(messages[r]) - said[r] >= Len(history[r])
       /\ fresh[r] => Len(messages[r]) - said[r] = Len(history[r])
  /\ at[r] \in {"saving", "done"} =>
       /\ EndsWithOwn(r, said[r], saved[r] \o messages[r])
       /\ fresh[r] => Len(saved[r]) + Len(messages[r]) = said[r]
  /\ at[r] = "done" => messages[r] = <<>>
  /\ fresh[r] => OwnPrefix(r, said[r], saved[r])

SavedInv == \A r \in Run : SavedBy(r)

LEMMA SaidLists ==
  ASSUME NEW spoken \in [Run -> Nat], NEW s \in Seq(Message), Said(spoken, s)
  PROVE  /\ \A t \in Seq(Message) : Said(spoken, t) => Said(spoken, s \o t)
         /\ \A m, n \in Nat : m >= 1 /\ n <= Len(s) => Said(spoken, SubSeq(s, m, n))
         /\ s # <<>> => Said(spoken, Tail(s)) /\ Head(s)[2] \in 1..spoken[Head(s)[1]]
         /\ \A e \in Message : e[2] \in 1..spoken[e[1]] => Said(spoken, Append(s, e))
  <1>1. ASSUME NEW t \in Seq(Message), Said(spoken, t) PROVE Said(spoken, s \o t)
    <2>1. Len(s \o t) = Len(s) + Len(t) /\ Len(s) \in Nat /\ Len(t) \in Nat
      OBVIOUS
    <2> SUFFICES ASSUME NEW i \in 1..(Len(s) + Len(t))
                 PROVE  (s \o t)[i][2] \in 1..spoken[(s \o t)[i][1]]
      BY <2>1 DEF Said
    <2>2. CASE i <= Len(s)
      <3>1. (s \o t)[i] = s[i] /\ i \in 1..Len(s)
        BY <2>1, <2>2
      <3> QED
        BY <3>1 DEF Said
    <2>3. CASE i > Len(s)
      <3>1. (s \o t)[i] = t[i - Len(s)] /\ i - Len(s) \in 1..Len(t)
        BY <2>1, <2>3
      <3> QED
        BY <1>1, <3>1 DEF Said
    <2> QED
      BY <2>1, <2>2, <2>3
  <1>2. ASSUME NEW m \in Nat, NEW n \in Nat, m >= 1, n <= Len(s)
        PROVE  Said(spoken, SubSeq(s, m, n))
    <2> DEFINE t == SubSeq(s, m, n)
    <2> SUFFICES ASSUME NEW i \in 1..Len(t) PROVE t[i][2] \in 1..spoken[t[i][1]]
      BY DEF Said
    <2>1. t[i] = s[m + i - 1] /\ m + i - 1 \in 1..Len(s)
      BY <1>2
    <2> QED
      BY <2>1 DEF Said
  <1>3. ASSUME s # <<>> PROVE Said(spoken, Tail(s)) /\ Head(s)[2] \in 1..spoken[Head(s)[1]]
    <2> DEFINE t == Tail(s)
    <2>1. Head(s) = s[1] /\ 1 \in 1..Len(s)
      BY <1>3
    <2>2. ASSUME NEW i \in 1..Len(t) PROVE t[i] = s[i + 1] /\ i + 1 \in 1..Len(s)
      BY <1>3
    <2> QED
      BY <2>1, <2>2 DEF Said
  <1>4. ASSUME NEW e \in Message, e[2] \in 1..spoken[e[1]] PROVE Said(spoken, Append(s, e))
    <2> DEFINE t == Append(s, e)
    <2>1. ASSUME NEW i \in 1..Len(t) PROVE t[i] = e \/ (t[i] = s[i] /\ i \in 1..Len(s))
      OBVIOUS
    <2> QED
      BY <1>4, <2>1 DEF Said
  <1> QED
    BY <1>1, <1>2, <1>3, <1>4

LEMMA SaidGrows ==
  ASSUME NEW before \in [Run -> Nat], NEW after \in [Run -> Nat],
         \A r \in Run : before[r] <= after[r],
         NEW s \in Seq(Message), Said(before, s)
  PROVE  Said(after, s)
  <1> SUFFICES ASSUME NEW i \in 1..Len(s) PROVE s[i][2] \in 1..after[s[i][1]]
    BY DEF Said
  <1>1. s[i] \in Message /\ s[i][1] \in Run /\ s[i][2] \in 1..before[s[i][1]]
    BY DEF Said, Message
  <1>2. before[s[i][1]] <= after[s[i][1]] /\ before[s[i][1]] \in Nat /\ after[s[i][1]] \in Nat
    BY <1>1
  <1> QED
    BY <1>1, <1>2

\* A store of lists after one of them was replaced by one of messages said.
LEMMA SaidStore ==
  ASSUME NEW spoken \in [Run -> Nat], NEW K, NEW T, NEW f \in [K -> [T -> Seq(Message)]],
         \A k \in K, t \in T : Said(spoken, f[k][t]),
         NEW k0 \in K, NEW t0 \in T, NEW new \in Seq(Message), Said(spoken, new)
  PROVE  \A k \in K, t \in T : Said(spoken, [f EXCEPT ![k0][t0] = new][k][t])
  OBVIOUS

LEMMA SaidNext ==
  ASSUME MemoryInv, SaidInv, [Next]_vars PROVE SaidInv'
  <1> USE DEF MemoryInv
  <1>0. /\ said \in [Run -> Nat]
        /\ \A r \in Run : history[r] \in Seq(Message) /\ messages[r] \in Seq(Message)
    BY DEF TypeOK
  <1>e. \A spoken : Said(spoken, <<>>)
    BY DEF Said
  <1>1. ASSUME UNCHANGED <<stores, history, messages, said>> PROVE SaidInv'
    BY <1>1 DEF SaidInv, stores
  <1>2. CASE Start
    BY <1>1, <1>2 DEF Start, runVars
  <1>3. CASE Crash
    BY <1>3, <1>e DEF Crash, SaidInv, TypeOK, Buffers, Savers
  <1>4. ASSUME NEW s \in Session, Expire(s) PROVE SaidInv'
    <2>1. \A b \in Buffers, q \in Session :
            conversation'[b][q] = conversation[b][q] \/ conversation'[b][q] = <<>>
      BY <1>4 DEF Expire, TypeOK, Buffers
    <2>2. UNCHANGED <<checkpoint, history, messages, said>>
      BY <1>4 DEF Expire, runVars
    <2> QED
      BY <1>e, <2>1, <2>2 DEF SaidInv
  <1>5. ASSUME NEW r \in Run, Load(r) PROVE SaidInv'
    <2>1. CASE UNCHANGED history
      BY <1>1, <1>5, <2>1 DEF Load
    <2>2. CASE history' = [history EXCEPT ![r] = Buffer(r)]
      <3>1. process.buffer \in Buffers /\ request[r].session \in Session
        BY <1>5, MemoryAssumption DEF Load, TypeOK
      <3>2. Said(said, Buffer(r))
        BY <3>1 DEF SaidInv, Buffer
      <3> QED
        BY <1>5, <2>2, <3>2 DEF Load, SaidInv, TypeOK, stores
    <2> QED
      BY <1>5, <2>1, <2>2 DEF Load
  <1>6. ASSUME NEW r \in Run, NEW new \in Seq(Message), NEW spoken \in [Run -> Nat],
               at[r] \in InProcess, Checkpoint(r, new), Said(spoken, new),
               said' = spoken, \A q \in Run : said[q] <= spoken[q],
               messages' = [messages EXCEPT ![r] = new], UNCHANGED <<conversation, history>>
        PROVE  SaidInv'
    <2>1. process.saver \in Savers /\ request[r].thread \in Thread
      BY <1>6, RunTypes
    <2>2. /\ \A b \in Buffers, s \in Session : Said(spoken, conversation[b][s])
          /\ \A k \in Savers, t \in Thread : Said(spoken, checkpoint[k][t])
          /\ \A q \in Run : Said(spoken, history[q]) /\ Said(spoken, messages[q])
      <3>1. \A list \in Seq(Message) : Said(said, list) => Said(spoken, list)
        BY <1>0, <1>6, SaidGrows
      <3>2. /\ \A b \in Buffers, s \in Session : conversation[b][s] \in Seq(Message)
            /\ \A k \in Savers, t \in Thread : checkpoint[k][t] \in Seq(Message)
        BY DEF TypeOK
      <3> QED
        BY <1>0, <3>1, <3>2 DEF SaidInv
    <2>3. \A k \in Savers, t \in Thread : Said(spoken, checkpoint'[k][t])
      <3>1. CASE checkpoint' = checkpoint
        BY <2>2, <3>1
      <3>2. CASE checkpoint' = [checkpoint EXCEPT ![process.saver][request[r].thread] = new]
        <4>1. checkpoint \in [Savers -> [Thread -> Seq(Message)]]
          BY DEF TypeOK
        <4> QED
          BY <1>6, <2>1, <2>2, <3>2, <4>1, SaidStore
      <3> QED
        BY <1>6, <3>1, <3>2 DEF Checkpoint
    <2>4. \A q \in Run : Said(spoken, messages'[q])
      BY <1>6, <2>2 DEF TypeOK
    <2> QED
      BY <1>6, <2>2, <2>3, <2>4 DEF SaidInv
  <1>7. ASSUME NEW r \in Run, Invoke(r) PROVE SaidInv'
    <2>1. at[r] \in InProcess
      BY <1>7 DEF Invoke, InProcess
    <2>2. Kept(r) \in Seq(Message) /\ Said(said, Kept(r))
      BY <2>1, RunTypes DEF SaidInv, Kept
    <2>3. Kept(r) \o history[r] \in Seq(Message) /\ Said(said, Kept(r) \o history[r])
      BY <1>0, <2>2, SaidLists DEF SaidInv
    <2>4. /\ Checkpoint(r, Kept(r) \o history[r]) /\ said' = said
          /\ messages' = [messages EXCEPT ![r] = Kept(r) \o history[r]]
          /\ UNCHANGED <<conversation, history>>
      BY <1>7 DEF Invoke
    <2>5. \A q \in Run : said[q] <= said[q]
      BY <1>0
    <2> QED
      BY <1>0, <1>6, <2>1, <2>3, <2>4, <2>5
  <1>8. ASSUME NEW r \in Run, Speak(r) PROVE SaidInv'
    <2> DEFINE e == <<r, said[r] + 1>>
               spoken == [said EXCEPT ![r] = @ + 1]
    <2>1. at[r] \in InProcess
      BY <1>8 DEF Speak, InProcess
    <2>2. /\ spoken \in [Run -> Nat] /\ \A q \in Run : said[q] <= spoken[q]
          /\ e \in Message /\ e[2] \in 1..spoken[e[1]]
      BY <1>0 DEF Message
    <2>3. Said(spoken, messages[r])
      BY <1>0, <2>2, SaidGrows DEF SaidInv
    <2>4. Append(messages[r], e) \in Seq(Message) /\ Said(spoken, Append(messages[r], e))
      <3> HIDE DEF e, spoken
      <3>1. messages[r] \in Seq(Message)
        BY <1>0
      <3> QED
        BY <2>2, <2>3, <3>1, SaidLists
    <2>5. /\ said' = spoken /\ messages' = [messages EXCEPT ![r] = Append(messages[r], e)]
          /\ Checkpoint(r, Append(messages[r], e)) /\ UNCHANGED <<conversation, history>>
      BY <1>8 DEF Speak
    <2> HIDE DEF e, spoken
    <2> QED
      BY <1>6, <2>1, <2>2, <2>4, <2>5
  <1>9. ASSUME NEW r \in Run, GraphRaises(r) \/ Reply(r) PROVE SaidInv'
    BY <1>1, <1>9 DEF GraphRaises, Reply
  <1>10. ASSUME NEW r \in Run, GraphEnds(r) PROVE SaidInv'
    <2>1. Said(said, SubSeq(messages[r], Len(history[r]) + 1, Len(messages[r])))
      <3>1. /\ Len(history[r]) + 1 \in Nat /\ Len(history[r]) + 1 >= 1
            /\ Len(messages[r]) \in Nat /\ Len(messages[r]) <= Len(messages[r])
        BY <1>0
      <3>2. Said(said, messages[r])
        BY DEF SaidInv
      <3> QED
        BY <1>0, <3>1, <3>2, SaidLists
    <2> QED
      BY <1>10, <2>1 DEF GraphEnds, SaidInv, TypeOK, stores
  <1>11. ASSUME NEW r \in Run, AddMessage(r) PROVE SaidInv'
    <2> DEFINE b == process.buffer
               s == request[r].session
               e == Head(messages[r])
    <2>1. messages[r] # <<>> /\ e \in Message /\ b \in Buffers /\ s \in Session
      BY <1>11, RunTypes DEF AddMessage, InProcess, TypeOK
    <2>2. Said(said, Tail(messages[r])) /\ e[2] \in 1..said[e[1]]
      BY <1>0, <2>1, SaidLists DEF SaidInv
    <2>3. \A q \in Run : Said(said, messages'[q])
      BY <1>11, <2>2 DEF AddMessage, SaidInv, TypeOK
    <2>4. ASSUME Appended(r)
          PROVE  \A c \in Buffers, q \in Session : Said(said, conversation'[c][q])
      <3> DEFINE longer == Append(conversation[b][s], e)
      <3>1. conversation[b][s] \in Seq(Message) /\ Said(said, conversation[b][s])
        BY <2>1 DEF TypeOK, SaidInv
      <3>2. longer \in Seq(Message) /\ Said(said, longer)
        BY <1>0, <2>1, <2>2, <3>1, SaidLists
      <3>3. Trimmed(longer) \in Seq(Message) /\ Said(said, Trimmed(longer))
        <4>1. \A i \in 1..Len(Trimmed(longer)) :
                Trimmed(longer)[i] = longer[Len(longer) - Len(Trimmed(longer)) + i]
          BY <3>2, TrimmedType
        <4>2. /\ Trimmed(longer) \in Seq(Message)
              /\ Len(Trimmed(longer)) <= Len(longer)
          <5> HIDE DEF longer
          <5>1. /\ Trimmed(longer) \in Seq(Message)
                /\ Len(Trimmed(longer)) = IF Len(longer) > Limit THEN Limit ELSE Len(longer)
            BY <3>2, TrimmedType
          <5>2. Len(longer) \in Nat /\ Limit \in Nat
            BY <3>2, MemoryAssumption
          <5> QED
            BY <5>1, <5>2
        <4> HIDE DEF longer
        <4>3. ASSUME NEW i \in 1..Len(Trimmed(longer))
              PROVE  Len(longer) - Len(Trimmed(longer)) + i \in 1..Len(longer)
          BY <3>2, <4>2
        <4> QED
          BY <3>2, <4>1, <4>2, <4>3 DEF Said
      <3>4. conversation' = [conversation EXCEPT ![b][s] = Trimmed(longer)]
        BY <2>4, <2>1 DEF Appended, TypeOK
      <3> HIDE DEF longer, b, s
      <3> QED
        BY <1>0, <2>1, <3>3, <3>4, SaidStore DEF SaidInv, TypeOK
    <2> QED
      BY <1>11, <2>3, <2>4 DEF AddMessage, SaidInv
  <1>12. CASE UNCHANGED vars
    BY <1>1, <1>12 DEF vars, runVars
  <1>13. ASSUME NEW t \in Thread, EvictCheckpoint(t) PROVE SaidInv'
    <2>1. \A k \in Savers, q \in Thread :
            checkpoint'[k][q] = checkpoint[k][q] \/ checkpoint'[k][q] = <<>>
      BY <1>13 DEF EvictCheckpoint, TypeOK, Savers
    <2>2. UNCHANGED <<conversation, history, messages, said>>
      BY <1>13 DEF EvictCheckpoint, runVars
    <2> QED
      BY <1>e, <2>1, <2>2 DEF SaidInv
  <1> QED
    BY <1>2, <1>3, <1>4, <1>5, <1>7, <1>8, <1>9, <1>10, <1>11, <1>12, <1>13 DEF Next

LEMMA EndsAppend ==
  ASSUME NEW r \in Run, NEW n \in Nat, NEW list \in Seq(Message), EndsWithOwn(r, n, list)
  PROVE  EndsWithOwn(r, n + 1, Append(list, <<r, n + 1>>))
  <1> DEFINE longer == Append(list, <<r, n + 1>>)
  <1>1. Len(longer) = Len(list) + 1 /\ Len(list) \in Nat
    OBVIOUS
  <1>2. /\ \A i \in 1..Len(list) : longer[i] = list[i]
        /\ longer[Len(list) + 1] = <<r, n + 1>>
    OBVIOUS
  <1> HIDE DEF longer
  <1>3. EndsWithOwn(r, n + 1, longer)
    BY <1>1, <1>2 DEF EndsWithOwn
  <1> QED
    BY <1>3 DEF longer

LEMMA EndsSubSeq ==
  ASSUME NEW r \in Run, NEW n \in Nat, NEW list \in Seq(Message), EndsWithOwn(r, n, list),
         NEW k \in Nat, k <= Len(list) - n, NEW first, first = k + 1
  PROVE  /\ EndsWithOwn(r, n, SubSeq(list, first, Len(list)))
         /\ SubSeq(list, first, Len(list)) \in Seq(Message)
         /\ Len(list) - n = k => Len(SubSeq(list, first, Len(list))) = n
  <1> DEFINE rest == SubSeq(list, k + 1, Len(list))
  <1>0. SubSeq(list, first, Len(list)) = rest
    OBVIOUS
  <1>1. Len(rest) = Len(list) - k /\ Len(list) \in Nat /\ rest \in Seq(Message)
    BY DEF EndsWithOwn
  <1>2. \A i \in 1..Len(rest) : rest[i] = list[k + i]
    OBVIOUS
  <1> HIDE DEF rest
  <1>3. EndsWithOwn(r, n, rest)
    BY <1>1, <1>2 DEF EndsWithOwn
  <1>4. Len(list) - n = k => Len(rest) = n
    BY <1>1
  <1> QED
    BY <1>0, <1>1, <1>3, <1>4

\* Moving the first message of one list to the end of the other.
LEMMA Moved ==
  ASSUME NEW s \in Seq(Message), NEW t \in Seq(Message), t # <<>>
  PROVE  Append(s, Head(t)) \o Tail(t) = s \o t
  <1> DEFINE u == Append(s, Head(t)) \o Tail(t)
             v == s \o t
  <1>1. /\ Append(s, Head(t)) \in Seq(Message) /\ Tail(t) \in Seq(Message)
        /\ Len(Append(s, Head(t))) = Len(s) + 1 /\ Len(Tail(t)) = Len(t) - 1
        /\ Len(s) \in Nat /\ Len(t) \in Nat \ {0} /\ Head(t) = t[1]
    OBVIOUS
  <1>2. u \in Seq(Message) /\ v \in Seq(Message) /\ Len(u) = Len(s) + Len(t) /\ Len(v) = Len(u)
    BY <1>1
  <1>3. ASSUME NEW i \in 1..Len(u) PROVE u[i] = v[i]
    <2>1. CASE i <= Len(s)
      BY <1>1, <1>2, <2>1
    <2>2. CASE i = Len(s) + 1
      BY <1>1, <1>2, <2>2
    <2>3. CASE i > Len(s) + 1
      <3>1. u[i] = Tail(t)[i - (Len(s) + 1)] /\ i - (Len(s) + 1) \in 1..Len(Tail(t))
        BY <1>1, <1>2, <2>3
      <3>2. Tail(t)[i - (Len(s) + 1)] = t[i - Len(s)]
        BY <1>1, <3>1
      <3>3. v[i] = t[i - Len(s)]
        BY <1>1, <1>2, <2>3
      <3> QED
        BY <3>1, <3>2, <3>3
    <2> QED
      BY <1>1, <1>2, <2>1, <2>2, <2>3
  <1> HIDE DEF u, v
  <1>4. u = v
    BY <1>2, <1>3, SeqEqual
  <1> QED
    BY <1>4 DEF u, v

LEMMA OwnOnly ==
  ASSUME NEW r \in Run, NEW n \in Nat, NEW s \in Seq(Message), NEW t \in Seq(Message),
         EndsWithOwn(r, n, s \o t), Len(s) + Len(t) = n
  PROVE  OwnPrefix(r, n, s)
  <1>1. Len(s \o t) = n /\ Len(s) \in Nat /\ Len(t) \in Nat
    OBVIOUS
  <1>2. \A i \in 1..Len(s) : (s \o t)[i] = s[i]
    OBVIOUS
  <1>3. \A i \in 1..Len(s) : (s \o t)[i] = <<r, i>>
    BY <1>1 DEF EndsWithOwn
  <1> QED
    BY <1>1, <1>2, <1>3 DEF OwnPrefix

LEMMA OwnAtEnd ==
  ASSUME NEW r \in Run, NEW n \in Nat, NEW list \in Seq(Message), EndsWithOwn(r, n, list),
         NEW own \in Seq(Message), Len(own) = n, \A i \in 1..n : own[i] = <<r, i>>
  PROVE  /\ Len(list) - n >= 0
         /\ SubSeq(list, (Len(list) - n) + 1, Len(list)) = own
         /\ \A i \in 1..(Len(list) - n) : list[i][1] # r
  <1> DEFINE others == Len(list) - n
             end == SubSeq(list, others + 1, Len(list))
  <1>1. others \in Nat /\ Len(list) \in Nat /\ Len(list) = others + n
    BY DEF EndsWithOwn
  <1>2. end \in Seq(Message) /\ Len(end) = n /\ \A i \in 1..n : end[i] = list[others + i]
    <2> HIDE DEF others
    <2> QED
      BY <1>1
  <1>3. ASSUME NEW i \in 1..n PROVE list[others + i] = <<r, i>>
    <2>1. others + i \in 1..Len(list) /\ ~(others + i <= others) /\ (others + i) - others = i
      <3> HIDE DEF others
      <3> QED
        BY <1>1
    <2> QED
      BY <2>1 DEF EndsWithOwn
  <1>4. end = own
    <2> HIDE DEF end
    <2> QED
      BY <1>2, <1>3, SeqEqual
  <1>5. ASSUME NEW i \in 1..others PROVE list[i][1] # r
    BY <1>1 DEF EndsWithOwn
  <1> QED
    BY <1>1, <1>4, <1>5

LEMMA SavedInit == Init => SaidInv /\ SavedInv
  BY DEF Init, SaidInv, SavedInv, SavedBy, Said, OwnPrefix

LEMMA SavedFrame ==
  ASSUME NEW q \in Run, SavedBy(q), at'[q] = at[q], history'[q] = history[q],
         messages'[q] = messages[q], said'[q] = said[q], fresh'[q] = fresh[q],
         saved'[q] = saved[q]
  PROVE  SavedBy(q)'
  BY DEF SavedBy

LEMMA SavedNext ==
  ASSUME MemoryInv, SaidInv, SavedInv, [Next]_vars PROVE SavedInv'
  <1> USE DEF MemoryInv
  <1>0. ASSUME NEW q \in Run
        PROVE  /\ said[q] \in Nat /\ history[q] \in Seq(Message)
               /\ messages[q] \in Seq(Message) /\ saved[q] \in Seq(Message) /\ SavedBy(q)
    BY DEF TypeOK, SavedInv
  <1>1. ASSUME UNCHANGED <<runVars, saved>> PROVE SavedInv'
    BY <1>1, SavedFrame DEF SavedInv, runVars
  <1>2. CASE Start
    BY <1>1, <1>2 DEF Start, histories
  <1>3. CASE Crash
    <2> SUFFICES ASSUME NEW q \in Run PROVE SavedBy(q)'
      BY DEF SavedInv
    <2>1. CASE at[q] \in InProcess
      <3>1. at'[q] = "lost"
        BY <1>3, <2>1 DEF Crash
      <3> QED
        BY <1>0, <1>3, <3>1 DEF Crash, SavedBy, histories
    <2>2. CASE at[q] \notin InProcess
      <3>1. at'[q] = at[q]
        BY <1>3, <2>2 DEF Crash, TypeOK
      <3> QED
        BY <1>0, <1>3, <3>1, SavedFrame DEF Crash, histories
    <2> QED
      BY <2>1, <2>2
  <1>4. ASSUME NEW s \in Session, Expire(s) PROVE SavedInv'
    BY <1>1, <1>4 DEF Expire, histories
  <1>14. ASSUME NEW t \in Thread, EvictCheckpoint(t) PROVE SavedInv'
    BY <1>1, <1>14 DEF EvictCheckpoint, histories
  \* A step of r leaves what the other runs hold alone.
  <1>5. ASSUME NEW r \in Run, Load(r) \/ Invoke(r) \/ Speak(r) \/ GraphRaises(r)
                              \/ GraphEnds(r) \/ AddMessage(r) \/ Reply(r),
               NEW q \in Run, q # r
        PROVE  SavedBy(q)'
    <2>1. at'[q] = at[q] /\ history'[q] = history[q] /\ messages'[q] = messages[q]
      BY <1>5 DEF Load, Invoke, Speak, GraphRaises, GraphEnds, AddMessage, Reply, Goto, TypeOK
    <2>2. said'[q] = said[q] /\ fresh'[q] = fresh[q]
      BY <1>5 DEF Load, Invoke, Speak, GraphRaises, GraphEnds, AddMessage, Reply, TypeOK
    <2>3. saved'[q] = saved[q]
      BY <1>5 DEF Load, Invoke, Speak, GraphRaises, GraphEnds, AddMessage, Reply, Appended,
                  TypeOK, histories
    <2> QED
      BY <1>0, <2>1, <2>2, <2>3, SavedFrame
  <1>6. ASSUME NEW r \in Run, Load(r) PROVE SavedBy(r)'
    <2>1. at'[r] \in {"loaded", "error500"} /\ at[r] = "idle"
      BY <1>6 DEF Load, Goto, TypeOK
    <2> QED
      BY <1>0, <1>6, <2>1 DEF Load, SavedBy, histories
  <1>7. ASSUME NEW r \in Run, Invoke(r) PROVE SavedBy(r)'
    <2> DEFINE base == Kept(r) \o history[r]
    <2>1. at'[r] = "graph" /\ at[r] = "loaded" /\ at[r] \in InProcess
      BY <1>7 DEF Invoke, Goto, TypeOK, InProcess
    <2>2. saved[r] = <<>> /\ said[r] = 0
      BY <1>0, <2>1 DEF SavedBy
    <2>3. /\ messages'[r] = base /\ fresh'[r] = (Kept(r) = <<>>)
          /\ UNCHANGED <<said, history, saved>>
      BY <1>7 DEF Invoke, TypeOK, histories
    <2>4. Kept(r) \in Seq(Message) /\ Said(said, Kept(r)) /\ Said(said, history[r])
      BY <2>1, RunTypes DEF SaidInv, Kept
    <2>5. /\ base \in Seq(Message) /\ Said(said, base)
          /\ Len(base) = Len(Kept(r)) + Len(history[r])
      <3>1. said \in [Run -> Nat] /\ history[r] \in Seq(Message)
        BY DEF TypeOK
      <3>2. Said(said, base)
        BY <2>4, <3>1, SaidLists
      <3> QED
        BY <2>4, <3>1, <3>2
    <2> HIDE DEF base
    <2>6. ASSUME NEW i \in 1..Len(base) PROVE base[i][1] # r
      BY <2>2, <2>5 DEF Said
    <2>7. EndsWithOwn(r, 0, base)
      <3>1. Len(base) \in Nat /\ 0 <= Len(base)
        BY <2>5
      <3>2. \A i \in 1..Len(base) : i <= Len(base) - 0
        BY <3>1
      <3> QED
        BY <2>6, <3>1, <3>2 DEF EndsWithOwn
    <2>8. /\ Len(base) >= Len(history[r])
          /\ Kept(r) = <<>> => Len(base) = Len(history[r])
      BY <1>0, <2>4, <2>5
    <2>9. OwnPrefix(r, 0, <<>>)
      BY DEF OwnPrefix
    <2>10. Len(base) - 0 = Len(base)
      BY <2>5
    <2> QED
      BY <2>1, <2>2, <2>3, <2>7, <2>8, <2>9, <2>10 DEF SavedBy
  <1>8. ASSUME NEW r \in Run, Speak(r) PROVE SavedBy(r)'
    <2>1. /\ at[r] = "graph" /\ UNCHANGED <<at, history, fresh, saved>>
          /\ said'[r] = said[r] + 1 /\ messages'[r] = Append(messages[r], <<r, said[r] + 1>>)
      BY <1>8 DEF Speak, TypeOK, histories
    <2>2. /\ saved[r] = <<>> /\ EndsWithOwn(r, said[r], messages[r])
          /\ Len(messages[r]) - said[r] >= Len(history[r])
          /\ fresh[r] => Len(messages[r]) - said[r] = Len(history[r])
      BY <1>0, <2>1 DEF SavedBy
    <2>3. EndsWithOwn(r, said'[r], messages'[r]) /\ Len(messages'[r]) = Len(messages[r]) + 1
      BY <1>0, <2>1, <2>2, EndsAppend
    <2>4. Len(messages'[r]) - said'[r] = Len(messages[r]) - said[r]
      BY <1>0, <2>1, <2>3
    <2>5. OwnPrefix(r, said'[r], <<>>)
      BY <1>0, <2>1 DEF OwnPrefix
    <2> QED
      BY <2>1, <2>2, <2>3, <2>4, <2>5 DEF SavedBy
  <1>9. ASSUME NEW r \in Run, GraphRaises(r) PROVE SavedBy(r)'
    BY <1>0, <1>9 DEF GraphRaises, Goto, TypeOK, SavedBy, histories
  <1>10. ASSUME NEW r \in Run, GraphEnds(r) PROVE SavedBy(r)'
    <2> DEFINE rest == SubSeq(messages[r], Len(history[r]) + 1, Len(messages[r]))
    <2>1. /\ at[r] = "graph" /\ at'[r] = "saving" /\ messages'[r] = rest
          /\ UNCHANGED <<history, said, fresh, saved>>
      BY <1>10 DEF GraphEnds, Goto, TypeOK, histories
    <2>2. /\ saved[r] = <<>> /\ EndsWithOwn(r, said[r], messages[r])
          /\ Len(messages[r]) - said[r] >= Len(history[r])
          /\ fresh[r] => Len(messages[r]) - said[r] = Len(history[r])
          /\ fresh[r] => OwnPrefix(r, said[r], saved[r])
      BY <1>0, <2>1 DEF SavedBy
    <2>3. /\ EndsWithOwn(r, said[r], rest) /\ rest \in Seq(Message)
          /\ Len(messages[r]) - said[r] = Len(history[r]) => Len(rest) = said[r]
      <3>1. Len(history[r]) \in Nat /\ Len(history[r]) <= Len(messages[r]) - said[r]
        BY <1>0, <2>2
      <3>2. /\ said[r] \in Nat /\ messages[r] \in Seq(Message)
            /\ EndsWithOwn(r, said[r], messages[r])
        BY <1>0, <2>2
      <3> QED
        <4>1. PICK list, k, n, first :
                /\ list = messages[r] /\ k = Len(history[r])
                /\ n = said[r] /\ first = Len(history[r]) + 1
          OBVIOUS
        <4>2. /\ n \in Nat /\ list \in Seq(Message) /\ EndsWithOwn(r, n, list)
              /\ k \in Nat /\ k <= Len(list) - n /\ first = k + 1
              /\ rest = SubSeq(list, first, Len(list))
          BY <3>1, <3>2, <4>1
        <4> HIDE DEF rest
        <4>3. /\ EndsWithOwn(r, n, rest) /\ rest \in Seq(Message)
              /\ Len(list) - n = k => Len(rest) = n
          BY <4>2, EndsSubSeq
        <4> QED
          BY <4>1, <4>3
    <2> HIDE DEF rest
    <2>4. saved[r] \o rest = rest /\ Len(saved[r]) = 0
      BY <2>2, <2>3
    <2>5. fresh[r] => Len(saved[r]) + Len(rest) = said[r]
      <3>1. SUFFICES ASSUME fresh[r] PROVE Len(saved[r]) + Len(rest) = said[r]
        OBVIOUS
      <3>2. Len(rest) = said[r]
        BY <2>2, <2>3, <3>1
      <3> QED
        BY <1>0, <2>4, <3>2
    <2> QED
      BY <2>1, <2>2, <2>3, <2>4, <2>5 DEF SavedBy
  <1>11. ASSUME NEW r \in Run, AddMessage(r) PROVE SavedBy(r)'
    <2> DEFINE longer == Append(saved[r], Head(messages[r]))
               rest == Tail(messages[r])
    <2>1. at[r] = "saving" /\ messages[r] # <<>> /\ UNCHANGED <<history, said, fresh>>
      BY <1>11 DEF AddMessage
    <2>2. /\ EndsWithOwn(r, said[r], saved[r] \o messages[r])
          /\ fresh[r] => Len(saved[r]) + Len(messages[r]) = said[r]
          /\ fresh[r] => OwnPrefix(r, said[r], saved[r])
      BY <1>0, <2>1 DEF SavedBy
    <2>3. /\ longer \in Seq(Message) /\ rest \in Seq(Message)
          /\ Len(longer) + Len(rest) = Len(saved[r]) + Len(messages[r])
          /\ longer \o rest = saved[r] \o messages[r]
      <3>1. saved[r] \in Seq(Message) /\ messages[r] \in Seq(Message)
        BY <1>0
      <3>2. longer \o rest = saved[r] \o messages[r]
        BY <2>1, <3>1, Moved
      <3>3. /\ longer \in Seq(Message) /\ rest \in Seq(Message)
            /\ Len(longer) = Len(saved[r]) + 1 /\ Len(rest) = Len(messages[r]) - 1
        BY <2>1, <3>1
      <3>4. ASSUME NEW m \in Nat, NEW n \in Nat PROVE (m + 1) + (n - 1) = m + n
        OBVIOUS
      <3>5. Len(saved[r]) \in Nat /\ Len(messages[r]) \in Nat
        BY <3>1
      <3> QED
        BY <3>2, <3>3, <3>4, <3>5
    <2> HIDE DEF longer, rest
    <2>4. fresh[r] => OwnPrefix(r, said[r], longer)
      BY <1>0, <2>2, <2>3, OwnOnly
    <2>5. Appended(r) => saved'[r] = longer
      BY DEF Appended, TypeOK, longer
    <2>6. \/ Appended(r) /\ messages'[r] = rest /\ at'[r] = "saving"
          \/ /\ at'[r] = "failed" /\ messages'[r] = messages[r]
             /\ Appended(r) \/ saved'[r] = saved[r]
      BY <1>11 DEF AddMessage, Goto, TypeOK, histories, rest
    <2> QED
      BY <1>0, <2>1, <2>2, <2>3, <2>4, <2>5, <2>6 DEF SavedBy
  <1>12. ASSUME NEW r \in Run, Reply(r) PROVE SavedBy(r)'
    <2>1. /\ at[r] = "saving" /\ at'[r] = "done" /\ messages[r] = <<>>
          /\ UNCHANGED <<history, messages, said, fresh, saved>>
      BY <1>12 DEF Reply, Goto, TypeOK, histories
    <2> QED
      BY <1>0, <2>1 DEF SavedBy
  <1>13. CASE UNCHANGED vars
    BY <1>1, <1>13 DEF vars, histories
  <1> QED
    BY <1>2, <1>3, <1>4, <1>5, <1>6, <1>7, <1>8, <1>9, <1>10, <1>11, <1>12, <1>13,
       <1>14 DEF Next, SavedInv

LEMMA SavedSuffices ==
  ASSUME MemoryInv, SavedInv PROVE NewMessagesSaved
  <1> SUFFICES ASSUME NEW r \in Run
               PROVE  /\ at[r] = "done" =>
                           /\ Len(saved[r]) - said[r] >= 0
                           /\ SubSeq(saved[r], (Len(saved[r]) - said[r]) + 1, Len(saved[r]))
                                = Own(r)
                           /\ \A i \in 1..(Len(saved[r]) - said[r]) : saved[r][i][1] # r
                      /\ fresh[r] => IsPrefix(saved[r], Own(r))
    BY DEF NewMessagesSaved
  <1>0. /\ said[r] \in Nat /\ saved[r] \in Seq(Message) /\ SavedBy(r)
        /\ Len(saved[r]) \in Nat
    BY DEF MemoryInv, TypeOK, SavedInv
  <1>1. /\ Own(r) \in Seq(Message) /\ Len(Own(r)) = said[r]
        /\ \A i \in 1..said[r] : Own(r)[i] = <<r, i>>
    BY <1>0 DEF Own, Message
  <1>2. ASSUME at[r] = "done"
        PROVE  /\ Len(saved[r]) - said[r] >= 0
               /\ SubSeq(saved[r], (Len(saved[r]) - said[r]) + 1, Len(saved[r])) = Own(r)
               /\ \A i \in 1..(Len(saved[r]) - said[r]) : saved[r][i][1] # r
    <2>1. EndsWithOwn(r, said[r], saved[r])
      <3>1. EndsWithOwn(r, said[r], saved[r] \o <<>>)
        BY <1>0, <1>2 DEF SavedBy
      <3>2. saved[r] \o <<>> = saved[r]
        BY <1>0
      <3> QED
        BY <3>1, <3>2
    <2> QED
      <3>1. said[r] \in Nat /\ saved[r] \in Seq(Message)
        BY <1>0
      <3> QED
        BY <1>1, <2>1, <3>1, OwnAtEnd
  <1>3. ASSUME fresh[r] PROVE IsPrefix(saved[r], Own(r))
    <2> DEFINE n == Len(saved[r])
               a == SubSeq(saved[r], 1, n)
               b == SubSeq(Own(r), 1, n)
    <2>1. OwnPrefix(r, said[r], saved[r])
      BY <1>0, <1>3 DEF SavedBy
    <2>2. n <= said[r] /\ n \in Nat
      BY <1>0, <2>1 DEF OwnPrefix
    <2>3. /\ a \in Seq(Message) /\ Len(a) = n
          /\ \A i \in 1..n : a[i] = saved[r][i]
      BY <1>0, <2>2
    <2>4. /\ b \in Seq(Message) /\ Len(b) = n
          /\ \A i \in 1..n : b[i] = Own(r)[i]
      BY <1>1, <2>2
    <2>5. \A i \in 1..n : saved[r][i] = Own(r)[i]
      <3>1. \A i \in 1..n : saved[r][i] = <<r, i>> /\ i \in 1..said[r]
        <4> HIDE DEF n
        <4> QED
          BY <1>0, <2>1, <2>2 DEF OwnPrefix, n
      <3> QED
        BY <1>1, <3>1
    <2>6. a = b
      <3> HIDE DEF a, b, n
      <3> QED
        BY <2>3, <2>4, <2>5, SeqEqual
    <2> QED
      BY <1>1, <2>2, <2>6 DEF IsPrefix
  <1> QED
    BY <1>2, <1>3

\* A run of the agent that is answered has saved its own messages, each once and
\* in order, and none of another run behind them; where its thread was new, it
\* has saved nothing else.  For any runs, threads, sessions and limit.
THEOREM NewMessagesSavedAlways == Spec => []NewMessagesSaved
  <1>1. MemoryInv /\ SavedInv => NewMessagesSaved
    BY SavedSuffices
  <1>2. MemoryInv /\ SaidInv /\ [Next]_vars => SaidInv'
    BY SaidNext
  <1>3. MemoryInv /\ SaidInv /\ SavedInv /\ [Next]_vars => SavedInv'
    BY SavedNext
  <1> QED
    BY <1>1, <1>2, <1>3, MemoryInit, MemoryNext, SavedInit, PTL DEF Spec
===============================================================================
