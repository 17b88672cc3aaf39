------------------------------ MODULE IoProofs -------------------------------
(***************************************************************************)
(* Proofs about the way a call takes to a device.  Path lookup gives       *)
(* absolute paths to the right driver, for paths of every length and one   *)
(* task, which is all the kernel creates: the static variables of the walk *)
(* are those of its own call.  The byte queue, for every size of the       *)
(* buffer and of its elements: the pointers stay inside the buffer, which  *)
(* implements the queue of module Queue.  The memory device reads its      *)
(* windows to the end.  The search tree, for every number of insertions:   *)
(* what the rotations leave is in order and exactly measured, and a search *)
(* finds what was stored; so calls reach the drivers of the device tables. *)
(***************************************************************************)
EXTENDS Vfs, Fifo, Devices, SequenceTheorems, Induction

-----------------------------------------------------------------------------
(* The byte queue: the type invariant, which is inductive                  *)

\* step moves a pointer to an element of the buffer.
LEMMA StepInside == ASSUME NEW q \in Index
                    PROVE  step(q) \in Index
  BY FifoAssumption DEF step, Index

\* The number of elements is below that of the buffer's.
LEMMA HeldInside == ASSUME FifoTypeOK
                    PROVE  Held \in 0 .. Slots - 1
  BY FifoAssumption DEF FifoTypeOK, Held, Index

\* The elements between start and end are elements of the buffer.
LEMMA PositionInside == ASSUME FifoTypeOK, NEW i \in 1 .. Held
                        PROVE  Position(i) \in Index
  BY FifoAssumption, HeldInside DEF FifoTypeOK, Position, Index

\* Contents is a sequence of values with Held elements.
LEMMA ContentsSeq == ASSUME FifoTypeOK
                     PROVE  /\ Contents \in Seq(Values)
                            /\ Len(Contents) = Held
                            /\ DOMAIN Contents = 1 .. Held
                            /\ \A i \in 1 .. Held : Contents[i] = data[Position(i)]
  <1>1. Held \in Nat
    BY HeldInside, FifoAssumption
  <1>2. \A i \in 1 .. Held : data[Position(i)] \in Values
    BY PositionInside DEF FifoTypeOK
  <1>3. Contents \in [1 .. Held -> Values]
    BY <1>2 DEF Contents
  <1> QED BY <1>1, <1>3 DEF Contents

\* alloc_fifo sets the pointers to the beginning of the buffer.
LEMMA InvInit == FifoInit => FifoTypeOK
  <1> SUFFICES ASSUME FifoInit
               PROVE  FifoTypeOK
    OBVIOUS
  <1>1. data \in [Index -> Values] /\ dirty = 0 /\ misused = FALSE
    BY DEF FifoInit, alloc_fifo
  <1>2. start = 0 /\ end = 0 /\ 0 \in Index
    BY FifoAssumption DEF FifoInit, alloc_fifo, Index
  <1>3. reply \in [op : {"none", "put", "take"}, code : {0, -1}, value : Values]
    BY FifoAssumption DEF FifoInit
  <1> QED BY <1>1, <1>2, <1>3 DEF FifoTypeOK

\* Every operation leaves the pointers inside the buffer.
LEMMA InvNext == FifoTypeOK /\ [FifoNext]_fifoVars => FifoTypeOK'
  <1> SUFFICES ASSUME FifoTypeOK, [FifoNext]_fifoVars
               PROVE  FifoTypeOK'
    OBVIOUS
  <1>1. ASSUME NEW v \in Values, fifo_enqueue(v)
        PROVE  FifoTypeOK'
    <2>1. step(end) \in Index
      BY StepInside DEF FifoTypeOK
    <2>2. end' \in Index /\ start' \in Index /\ dirty' = 1
      BY <1>1, <2>1 DEF fifo_enqueue, FifoTypeOK
    <2>3. data' \in [Index -> Values]
      BY <1>1 DEF fifo_enqueue, FifoTypeOK
    <2>4. misused' \in BOOLEAN
      BY <1>1 DEF fifo_enqueue, FifoTypeOK
    <2>5. reply' \in [op : {"none", "put", "take"}, code : {0, -1}, value : Values]
      BY <1>1 DEF fifo_enqueue
    <2> QED BY <2>2, <2>3, <2>4, <2>5 DEF FifoTypeOK
  <1>2. ASSUME fifo_dequeue
        PROVE  FifoTypeOK'
    <2>1. step(start) \in Index
      BY StepInside DEF FifoTypeOK
    <2>2. start' \in Index
      BY <1>2, <2>1 DEF fifo_dequeue, FifoTypeOK
    <2>3. data[start] \in Values
      BY DEF FifoTypeOK
    <2>4. reply' \in [op : {"none", "put", "take"}, code : {0, -1}, value : Values]
      BY <1>2, <2>3, FifoAssumption DEF fifo_dequeue
    <2>5. UNCHANGED <<data, end, dirty>> /\ misused' \in BOOLEAN
      BY <1>2 DEF fifo_dequeue, FifoTypeOK
    <2> QED BY <2>2, <2>4, <2>5 DEF FifoTypeOK
  <1>3. CASE UNCHANGED fifoVars
    BY <1>3 DEF fifoVars, FifoTypeOK
  <1> QED BY <1>1, <1>2, <1>3 DEF FifoNext

\* start and end stay inside the buffer: no operation of lib/fifo.c reads or
\* writes outside it, whatever size alloc_fifo was given.
THEOREM FifoTypeCorrect == FifoSpec => []FifoTypeOK
  BY InvInit, InvNext, PTL DEF FifoSpec

-----------------------------------------------------------------------------
(* The refinement                                                          *)

\* A buffer that was just allocated is an empty queue.
LEMMA RefinesInit == FifoInit => Q!QueueInit
  <1> SUFFICES ASSUME FifoInit
               PROVE  Q!QueueInit
    OBVIOUS
  <1>1. Held = 0 /\ misused = FALSE /\ dirty = 0
    BY DEF FifoInit, alloc_fifo, Held
  <1>2. Contents = <<>>
    BY <1>1 DEF Contents
  <1> QED BY <1>1, <1>2 DEF FifoInit, Q!QueueInit, Q!Reply

\* An element that is stored while there is room comes to the end of the queue.
LEMMA EnqueueAppends ==
    ASSUME FifoTypeOK, FifoTypeOK', NEW v \in Values, fifo_enqueue(v), Held # Slots - 1
    PROVE  Contents' = Append(Contents, v)
  <1>1. start' = start /\ end' = step(end) /\ data' = [data EXCEPT ![end] = v]
    BY DEF fifo_enqueue
  <1>2. start \in Index /\ end \in Index /\ data \in [Index -> Values]
    BY DEF FifoTypeOK
  <1>3. Held \in 0 .. Slots - 2
    BY HeldInside, FifoAssumption
  <1>4. Held' = Held + 1
    BY <1>1, <1>2, <1>3, FifoAssumption DEF Held, step, Index
  <1>5. ASSUME NEW i \in 1 .. Held
        PROVE  Position(i) # end /\ Position(i)' = Position(i) /\ Position(i) \in Index
    BY <1>1, <1>2, <1>3, FifoAssumption DEF Held, Position, Index
  <1>6. ASSUME NEW n \in Nat, n = Held + 1
        PROVE  Position(n) = end /\ Position(n)' = end
    BY <1>1, <1>2, <1>3, <1>6, FifoAssumption DEF Held, Position, Index
  <1>7. /\ Contents \in Seq(Values) /\ Len(Contents) = Held
        /\ \A i \in 1 .. Held : Contents[i] = data[Position(i)]
    BY ContentsSeq
  <1>8. /\ Append(Contents, v) \in Seq(Values)
        /\ Len(Append(Contents, v)) = Held + 1
        /\ Append(Contents, v)[Held + 1] = v
        /\ \A i \in 1 .. Held : Append(Contents, v)[i] = Contents[i]
    BY <1>3, <1>7
  <1>9. ASSUME NEW i \in 1 .. Held + 1
        PROVE  data'[Position(i)'] = Append(Contents, v)[i]
    <2>1. CASE i \in 1 .. Held
      BY <1>1, <1>2, <1>5, <1>7, <1>8, <2>1
    <2>2. CASE i = Held + 1
      <3>1. i \in Nat
        BY <1>3
      <3>2. Position(i)' = end
        BY <1>6, <2>2, <3>1
      <3>3. data'[end] = v
        BY <1>1, <1>2
      <3>4. Append(Contents, v)[i] = v
        BY <1>8, <2>2
      <3> QED BY <3>2, <3>3, <3>4
    <2>3. i \in 1 .. Held \/ i = Held + 1
      BY <1>3, FifoAssumption
    <2> QED BY <2>1, <2>2, <2>3
  <1>10. Contents' = [i \in 1 .. Held + 1 |-> data'[Position(i)']]
    BY <1>4 DEF Contents
  <1>11. \A i \in 1 .. Held + 1 : Append(Contents, v)[i] \in Values
    BY <1>3, <1>8, ElementOfSeq
  <1>12. Contents' \in [1 .. Held + 1 -> Values]
    BY <1>9, <1>10, <1>11
  <1>13. Contents' \in Seq(Values) /\ Len(Contents') = Held + 1
    BY <1>3, <1>12
  <1>14. \A i \in 1 .. Held + 1 : Contents'[i] = Append(Contents, v)[i]
    BY <1>9, <1>10
  <1> QED BY <1>8, <1>13, <1>14, SeqEqual

\* An element that is taken is the first of the queue, and the others stay.
LEMMA DequeueTakes ==
    ASSUME FifoTypeOK, FifoTypeOK', fifo_dequeue, start # end
    PROVE  /\ Contents # <<>>
           /\ Contents' = Tail(Contents)
           /\ Contents[1] = data[start]
  <1>1. start' = step(start) /\ end' = end /\ data' = data
    BY DEF fifo_dequeue
  <1>2. start \in Index /\ end \in Index /\ data \in [Index -> Values]
    BY DEF FifoTypeOK
  <1>3. Held \in 1 .. Slots - 1
    BY <1>2, FifoAssumption DEF Held, Index
  <1>4. Held' = Held - 1
    BY <1>1, <1>2, <1>3, FifoAssumption DEF Held, step, Index
  <1>5. ASSUME NEW i \in 1 .. Held - 1
        PROVE  Position(i)' = Position(i + 1)
    BY <1>1, <1>2, <1>3, FifoAssumption DEF Held, Position, step, Index
  <1>6. Position(1) = start
    BY <1>2, <1>3, FifoAssumption DEF Position, Index
  <1>7. /\ Contents \in Seq(Values) /\ Len(Contents) = Held
        /\ \A i \in 1 .. Held : Contents[i] = data[Position(i)]
    BY ContentsSeq
  <1>8. Contents # <<>>
    BY <1>3, <1>7
  <1>9. /\ Tail(Contents) \in Seq(Values) /\ Len(Tail(Contents)) = Held - 1
        /\ \A i \in 1 .. Held - 1 : Tail(Contents)[i] = Contents[i + 1]
    BY <1>7, <1>8, HeadTailProperties
  <1>10. Contents' = [i \in 1 .. Held - 1 |-> data[Position(i)']]
    BY <1>1, <1>4 DEF Contents
  <1>11. \A i \in 1 .. Held - 1 : data[Position(i)'] = Tail(Contents)[i]
    BY <1>3, <1>5, <1>7, <1>9
  <1>12. Contents' \in [1 .. Held - 1 -> Values]
    BY <1>3, <1>9, <1>10, <1>11, ElementOfSeq
  <1>13. Contents' \in Seq(Values) /\ Len(Contents') = Held - 1
    BY <1>3, <1>12
  <1>14. \A i \in 1 .. Held - 1 : Contents'[i] = Tail(Contents)[i]
    BY <1>10, <1>11
  <1>15. Contents' = Tail(Contents)
    BY <1>9, <1>13, <1>14, SeqEqual
  <1> QED BY <1>3, <1>6, <1>7, <1>8, <1>15

\* Every step of the buffer is one of the queue, or changes nothing there.
LEMMA RefinesNext ==
    FifoTypeOK /\ FifoTypeOK' /\ [FifoNext]_fifoVars => [Q!QueueNext]_(Q!queueVars)
  <1> SUFFICES ASSUME FifoTypeOK, FifoTypeOK', [FifoNext]_fifoVars
               PROVE  [Q!QueueNext]_(Q!queueVars)
    OBVIOUS
  <1>0. misused \in BOOLEAN /\ misused' \in BOOLEAN /\ dirty \in {0, 1}
    BY DEF FifoTypeOK
  <1>1. CASE misused /\ FifoNext
    <2>1. misused'
      BY <1>1 DEF FifoNext, fifo_enqueue, fifo_dequeue
    <2>2. Q!Unspecified
      BY <1>1, <2>1 DEF Q!Unspecified
    <2> QED BY <2>2 DEF Q!QueueNext
  <1>2. ASSUME NEW v \in Values, fifo_enqueue(v), ~ misused
        PROVE  Q!QueueNext
    <2>1. Contents \in Seq(Values) /\ Len(Contents) = Held
      BY ContentsSeq
    <2>2. CASE Held = Slots - 1
      <3>1. misused'
        BY <1>2, <2>2 DEF fifo_enqueue
      <3>2. Q!Misuse
        BY <1>2, <2>1, <2>2, <3>1 DEF Q!Misuse
      <3> QED BY <3>2 DEF Q!QueueNext
    <2>3. CASE Held # Slots - 1
      <3>1. Contents' = Append(Contents, v)
        BY <1>2, <2>3, EnqueueAppends
      <3>2. ~ misused' /\ dirty' = 1
        BY <1>2, <2>3 DEF fifo_enqueue
      <3>3. Held < Slots - 1
        BY <2>3, HeldInside, FifoAssumption
      <3>4. \E code \in {0, -1} : reply' = Q!Reply("put", code, v)
        BY <1>2 DEF fifo_enqueue, Q!Reply
      <3>5. Q!Put(v)
        BY <1>0, <1>2, <2>1, <3>1, <3>2, <3>3, <3>4 DEF Q!Put
      <3> QED BY <3>5 DEF Q!QueueNext
    <2> QED BY <2>2, <2>3
  <1>3. ASSUME fifo_dequeue, ~ misused
        PROVE  Q!QueueNext
    <2>1. CASE dirty = 0
      <3>1. misused'
        BY <1>3, <2>1 DEF fifo_dequeue
      <3>2. Q!Misuse
        BY <2>1, <3>1 DEF Q!Misuse
      <3> QED BY <3>2 DEF Q!QueueNext
    <2>2. CASE dirty = 1 /\ start = end
      <3>0. ~ misused'
        <4>1. dirty # 0
          BY <2>2
        <4>2. misused' = (misused \/ dirty = 0)
          BY <1>3 DEF fifo_dequeue
        <4> QED BY <1>3, <4>1, <4>2
      <3>1. /\ UNCHANGED <<data, start, end, dirty>>
            /\ reply' = Q!Reply("take", -1, Zero)
        BY <1>3, <2>2 DEF fifo_dequeue, Q!Reply
      <3>2. Contents' = Contents
        BY <3>1 DEF Contents, Held, Position
      <3>3. Held = 0
        BY <2>2, FifoAssumption DEF Held, FifoTypeOK, Index
      <3>4. Contents = <<>>
        BY <3>3 DEF Contents
      <3>5. Q!TakeNothing
        BY <1>0, <1>3, <2>2, <3>0, <3>1, <3>2, <3>4 DEF Q!TakeNothing
      <3> QED BY <3>5 DEF Q!QueueNext
    <2>3. CASE dirty = 1 /\ start # end
      <3>0. ~ misused'
        <4>1. dirty # 0
          BY <2>3
        <4>2. misused' = (misused \/ dirty = 0)
          BY <1>3 DEF fifo_dequeue
        <4> QED BY <1>3, <4>1, <4>2
      <3>1. /\ UNCHANGED dirty
            /\ reply' = Q!Reply("take", 0, data[start])
        BY <1>3, <2>3 DEF fifo_dequeue, Q!Reply
      <3>2. /\ Contents # <<>> /\ Contents' = Tail(Contents)
            /\ Contents[1] = data[start]
        BY <1>3, <2>3, DequeueTakes
      <3>3. Head(Contents) = Contents[1]
        BY <3>2, ContentsSeq
      <3>4. Q!Take
        BY <1>0, <1>3, <2>3, <3>0, <3>1, <3>2, <3>3 DEF Q!Take
      <3> QED BY <3>4 DEF Q!QueueNext
    <2> QED BY <1>0, <2>1, <2>2, <2>3
  <1>4. CASE UNCHANGED fifoVars
    BY <1>4 DEF fifoVars, Q!queueVars, Contents, Held, Position
  <1> QED BY <1>1, <1>2, <1>3, <1>4 DEF FifoNext

\* fifo_enqueue and fifo_dequeue implement the queue of module Queue, for
\* every size: first in, first out, up to one element less than the buffer
\* holds, until the buffer is filled or read before it was written.
THEOREM FifoImplementsQueue == FifoSpec => FifoIsQueue
  BY FifoTypeCorrect, RefinesInit, RefinesNext, PTL DEF FifoSpec, FifoIsQueue, Q!QueueSpec

-----------------------------------------------------------------------------
(* Path lookup: what a call has done so far                                *)

\* The values of pc.
Phases == {"idle", "reset", "zero", "publish", "walk", "longest", "pointer", "end"}

Calls == [pc : Phases,
          op : {"none", "open", "mkdir"}, path : Seq(Tokens), at : Nat]

\* The mount point the walk settles on: the last that is a prefix.
Match(name) == IF IsPrefix(<<"/", "dev">>, absolute(name)) THEN 2 ELSE 1

\* The phases of the walk over the mount points.
Walking == {"walk", "longest", "pointer"}

\* The first mount point is settled on before the second is looked at, and one
\* whose length or number is about to be stored is a prefix.
OnWalk(pc, at, mp, len, full) ==
    /\ at \in {1, 2}
    /\ pc \in {"walk", "longest"} => \/ at = 1 /\ mp = NoMount /\ len = 0
                                     \/ at = 2 /\ mp = 1 /\ len = 1
    /\ pc \in {"longest", "pointer"} => IsPrefix(mount_points[at].path, full)
    /\ pc = "pointer" /\ at = 1 => len = 1

\* Where the call c of the only task stands, and what the walk has left in
\* the static variables so far.
CallOK(c) ==
    /\ c \in Calls
    /\ c.pc \in {"reset", "zero", "publish"} => c.at = 1
    /\ c.pc \in {"zero", "publish"} => mp_swap = NoMount
    /\ c.pc = "publish" => most_long = 0
    /\ c.pc \in Walking \cup {"end"} => path_swap = absolute(c.path)
    /\ c.pc \in Walking => OnWalk(c.pc, c.at, mp_swap, most_long, path_swap)
    /\ c.pc = "end" => mp_swap = Match(c.path)

\* What a call came to.
ResultOK(r) ==
    Done(r) => /\ r.path \in Seq(Tokens)
               /\ r.type = mount_points[Match(r.path)].driver_id
               /\ r.baked = bake(r.path, Len(mount_points[Match(r.path)].path))

\* The inductive invariant for the task t.
VfsInv(t) ==
    /\ DOMAIN task = {t} /\ DOMAIN result = {t}
    /\ CallOK(task[t])
    /\ ResultOK(result[t])

-----------------------------------------------------------------------------
(* Paths                                                                   *)

\* The two mount points are "/" and "/dev".
LEMMA MountPoints ==
  /\ mount_points[1].path = <<"/">> /\ mount_points[2].path = <<"/", "dev">>
  /\ Len(mount_points) = 2
  /\ Len(mount_points[1].path) = 1 /\ Len(mount_points[2].path) = 2
  BY DEF mount_points

\* A path made absolute is below the root.
LEMMA RootIsPrefix ==
  ASSUME NEW name \in Seq(Tokens)
  PROVE  /\ absolute(name) \in Seq(Tokens) /\ absolute(name) # <<>>
         /\ absolute(name)[1] = "/"
         /\ IsPrefix(<<"/">>, absolute(name))
  <1> DEFINE full == absolute(name)
  <1>1. full \in Seq(Tokens) /\ full # <<>> /\ full[1] = "/"
    <2>1. CASE IsAbsolute(name)
      BY <2>1 DEF absolute, IsAbsolute
    <2>2. CASE ~ IsAbsolute(name)
      <3>1. full = <<"/">> \o name
        BY <2>2 DEF absolute, pwd
      <3>2. "/" \in Tokens
        BY VfsAssumption
      <3>3. <<"/">> \in Seq(Tokens)
        BY <3>2
      <3>4. Len(<<"/">>) = 1 /\ <<"/">>[1] = "/"
        OBVIOUS
      <3> QED BY <3>1, <3>3, <3>4
    <2> QED BY <2>1, <2>2
  <1> HIDE DEF full
  <1>2. Len(full) \in Nat /\ Len(full) >= 1
    BY <1>1
  <1>3. SubSeq(full, 1, 1) = <<"/">> /\ SubSeq(<<"/">>, 1, 1) = <<"/">>
    <2> DEFINE one == SubSeq(full, 1, 1)
    <2>1. one \in Seq(Tokens) /\ Len(one) = 1 /\ one[1] = "/"
      BY <1>1, <1>2, SubSeqProperties
    <2> HIDE DEF one
    <2>2. one = <<"/">>
      BY <2>1
    <2>3. <<"/">> \in Seq({"/"})
      OBVIOUS
    <2>4. SubSeq(<<"/">>, 1, 1) = <<"/">>
      BY <2>3, SubSeqFull
    <2> QED BY <2>2, <2>4 DEF one
  <1>4. IsPrefix(<<"/">>, full)
    BY <1>2, <1>3 DEF IsPrefix
  <1> QED BY <1>1, <1>4 DEF full

\* An absolute path that ends or goes on at the end of a component is taken
\* apart as its components say.
LEMMA MatchIsMeaning ==
  ASSUME NEW name \in Seq(Tokens), IsAbsolute(name), ~ Straddles(name)
  PROVE  <<mount_points[Match(name)].driver_id,
           bake(name, Len(mount_points[Match(name)].path))>> = Meaning(name)
  <1>1. absolute(name) = name
    BY DEF absolute
  <1>2. Len(name) \in Nat /\ Len(name) >= 1
    BY DEF IsAbsolute
  <1>3. IsPrefix(<<"/", "dev">>, name) <=> Below(name, mount_points[2])
    BY MountPoints DEF Straddles, Below
  <1>4. IsPrefix(<<"/", "dev">>, name) => Len(name) >= 2
    <2>1. Len(<<"/", "dev">>) = 2
      OBVIOUS
    <2> QED BY <2>1 DEF IsPrefix
  <1>5. CASE IsPrefix(<<"/", "dev">>, name)
    <2>1. Match(name) = 2
      BY <1>1, <1>5 DEF Match
    <2>2. bake(name, 2) = strip(SubSeq(name, 2 + 1, Len(name)))
      BY <1>2, <1>4, <1>5 DEF bake
    <2>3. Meaning(name) = <<mount_points[2].driver_id, strip(SubSeq(name, 2 + 1, Len(name)))>>
      BY <1>1, <1>3, <1>5, MountPoints DEF Meaning
    <2> QED BY <2>1, <2>2, <2>3, MountPoints
  <1>6. CASE ~ IsPrefix(<<"/", "dev">>, name)
    <2>1. Match(name) = 1
      BY <1>1, <1>6 DEF Match
    <2>2. bake(name, 1) = strip(SubSeq(name, 1 + 1, Len(name)))
      BY <1>2 DEF bake
    <2>3. Meaning(name) = <<mount_points[1].driver_id, strip(SubSeq(name, 1 + 1, Len(name)))>>
      BY <1>1, <1>3, <1>6, MountPoints DEF Meaning
    <2> QED BY <2>1, <2>2, <2>3, MountPoints
  <1> QED BY <1>5, <1>6

-----------------------------------------------------------------------------
(* The invariant is kept                                                   *)

\* In the beginning no call is under way.
LEMMA VfsInit ==
  ASSUME NEW t, Tasks = {t}
  PROVE  Init => VfsInv(t)
  <1> SUFFICES ASSUME Init PROVE VfsInv(t)
    OBVIOUS
  <1>1. task = [o \in {t} |-> Idle] /\ result = [o \in {t} |-> NoResult]
    BY DEF Init
  <1>2. /\ task[t] = Idle /\ result[t] = NoResult
        /\ DOMAIN task = {t} /\ DOMAIN result = {t}
    BY <1>1
  <1>3. Idle.pc = "idle" /\ Idle \in Calls
    BY DEF Idle, Calls, Phases
  <1>4. ~ Done(NoResult)
    BY DEF Done, NoResult
  <1>5. CallOK(task[t])
    BY <1>2, <1>3 DEF CallOK, Walking
  <1>6. ResultOK(result[t])
    BY <1>2, <1>4 DEF ResultOK
  <1> QED BY <1>2, <1>5, <1>6 DEF VfsInv

\* A new call, its phases one after the other, and its end.
LEMMA CallKeeps ==
  ASSUME NEW t, VfsInv(t), NEW op \in {"open", "mkdir"}, NEW q \in Paths, call(t, op, q)
  PROVE  VfsInv(t)'
  <1> DEFINE c == [pc |-> "reset", op |-> op, path |-> q, at |-> 1]
  <1>1. /\ task' = [task EXCEPT ![t] = c] /\ result' = [result EXCEPT ![t] = NoResult]
    BY DEF call
  <1>2. /\ DOMAIN task' = {t} /\ DOMAIN result' = {t}
        /\ task'[t] = c /\ result'[t] = NoResult
    BY <1>1 DEF VfsInv
  <1>3. c \in Calls /\ c.pc = "reset" /\ c.at = 1
    BY VfsAssumption DEF Calls, Phases
  <1> HIDE DEF c
  <1>4. CallOK(task[t])'
    BY <1>2, <1>3 DEF CallOK, Walking
  <1>5. ResultOK(result[t])'
    BY <1>2 DEF ResultOK, Done, NoResult
  <1> QED BY <1>2, <1>4, <1>5 DEF VfsInv

\* A call moved to another phase, and to another mount point.
LEMMA Moved ==
  ASSUME NEW c \in Calls, NEW pc \in Phases
  PROVE  LET d == [c EXCEPT !.pc = pc]
         IN  d \in Calls /\ d.pc = pc /\ d.at = c.at /\ d.path = c.path
  BY DEF Calls

LEMMA NextMount ==
  ASSUME NEW c \in Calls
  PROVE  LET d == next_mount(c)
         IN  /\ d \in Calls /\ d.path = c.path /\ d.at = c.at + 1
             /\ d.pc = IF c.at = 2 THEN "end" ELSE "walk"
  <1> DEFINE pc == IF c.at = 2 THEN "end" ELSE "walk"
             b == [c EXCEPT !.pc = pc]
  <1>1. b \in Calls /\ b.pc = pc /\ b.at = c.at /\ b.path = c.path
    BY DEF Calls, Phases
  <1>2. next_mount(c) = [b EXCEPT !.at = c.at + 1]
    BY MountPoints DEF next_mount, Calls
  <1>3. c.at + 1 \in Nat
    BY DEF Calls
  <1> HIDE DEF b, pc
  <1> QED BY <1>1, <1>2, <1>3 DEF Calls, pc

\* A step that changes only the static variables and the call, to to.
LEMMA PhaseKeeps ==
  ASSUME NEW t, NEW to, VfsInv(t), task' = [task EXCEPT ![t] = to], result' = result,
         CallOK(to)'
  PROVE  VfsInv(t)'
  <1>1. task'[t] = to /\ DOMAIN task' = {t} /\ DOMAIN result' = {t}
    BY DEF VfsInv
  <1>2. ResultOK(result[t])'
    BY DEF VfsInv, ResultOK
  <1>3. CallOK(task[t])'
    BY <1>1 DEF CallOK
  <1> QED BY <1>1, <1>2, <1>3 DEF VfsInv

\* A step with no effect on the call.
LEMMA NoCallKeeps ==
  ASSUME NEW t, VfsInv(t), UNCHANGED <<statics, task>>, DOMAIN result' = {t},
         ResultOK(result'[t])
  PROVE  VfsInv(t)'
  BY DEF VfsInv, CallOK, statics

\* A call that has met all mount points ends, with what the path stands for.
LEMMA FinishKeeps ==
  ASSUME NEW t, VfsInv(t), finish(t)
  PROVE  VfsInv(t)'
  <1> DEFINE c == task[t]
             m == Match(c.path)
             ret == IF <<mount_points[m].driver_id, c.op>> \in Implemented
                    THEN "driver" ELSE "EPERM"
             r == [path |-> c.path, type |-> mount_points[m].driver_id,
                   baked |-> bake(c.path, Len(mount_points[m].path)), ret |-> ret]
  <1>1. c.pc = "end" /\ CallOK(c) /\ DOMAIN task = {t} /\ DOMAIN result = {t}
    BY DEF finish, VfsInv
  <1>2. mp_swap = m /\ c.path \in Seq(Tokens) /\ m # NoMount
    <2>1. mp_swap = m /\ c \in Calls
      BY <1>1 DEF CallOK
    <2>2. m # NoMount
      BY DEF Match, NoMount
    <2> QED BY <2>1, <2>2 DEF Calls
  <1>3. result' = [result EXCEPT ![t] = r] /\ task' = [task EXCEPT ![t] = Idle]
    BY <1>2 DEF finish
  <1>4. /\ DOMAIN task' = {t} /\ DOMAIN result' = {t} /\ task'[t] = Idle /\ result'[t] = r
    BY <1>1, <1>3
  <1>5. ResultOK(r)
    BY <1>2 DEF ResultOK
  <1> HIDE DEF r
  <1>6. ResultOK(result[t])'
    BY <1>4, <1>5 DEF ResultOK
  <1>7. CallOK(task[t])'
    <2>1. Idle.pc = "idle" /\ Idle \in Calls
      BY DEF Idle, Calls, Phases
    <2> QED BY <1>4, <2>1 DEF CallOK, Walking
  <1> QED BY <1>4, <1>6, <1>7 DEF VfsInv

\* What a call in the walk knows.
LEMMA WalkKnows ==
  ASSUME NEW t, VfsInv(t), task[t].pc \in Walking
  PROVE  LET c == task[t]
         IN  /\ c \in Calls /\ path_swap = absolute(c.path)
             /\ OnWalk(c.pc, c.at, mp_swap, most_long, path_swap)
             /\ IsPrefix(<<"/">>, path_swap)
  <1> DEFINE c == task[t]
  <1>1. /\ c \in Calls /\ path_swap = absolute(c.path)
        /\ OnWalk(c.pc, c.at, mp_swap, most_long, path_swap)
    BY DEF VfsInv, CallOK
  <1>2. IsPrefix(<<"/">>, absolute(c.path))
    BY <1>1, RootIsPrefix DEF Calls
  <1> QED BY <1>1, <1>2

\* One mount point of the walk is compared: the root is a prefix of every path,
\* and /dev is passed by if the path does not begin like that.
LEMMA WalkKeeps ==
  ASSUME NEW t, VfsInv(t), get_fs_type_callback(t)
  PROVE  VfsInv(t)'
  <1> DEFINE mp == mount_points[task[t].at].path
             better == IsPrefix(mp, path_swap) /\ Len(mp) > most_long
  <1>1. PICK c : c = task[t]
    OBVIOUS
  <1>2. /\ c.pc = "walk" /\ result' = result
        /\ mp_swap' = mp_swap /\ most_long' = most_long /\ path_swap' = path_swap
    BY <1>1 DEF get_fs_type_callback, statics
  <1>3. /\ c \in Calls /\ path_swap = absolute(c.path)
        /\ IsPrefix(<<"/">>, path_swap)
        /\ \/ c.at = 1 /\ mp_swap = NoMount /\ most_long = 0
           \/ c.at = 2 /\ mp_swap = 1 /\ most_long = 1
    BY <1>1, <1>2, WalkKnows DEF OnWalk, Walking
  <1>4. CASE better
    <2>1. PICK to : to = [c EXCEPT !.pc = "longest"]
      OBVIOUS
    <2>2. to \in Calls /\ to.pc = "longest" /\ to.at = c.at /\ to.path = c.path
      BY <1>3, <2>1, Moved DEF Phases
    <2>3. task' = [task EXCEPT ![t] = to]
      BY <1>1, <1>4, <2>1 DEF get_fs_type_callback
    <2>4. OnWalk("longest", c.at, mp_swap', most_long', path_swap')
      BY <1>1, <1>2, <1>3, <1>4 DEF OnWalk
    <2>5. CallOK(to)'
      BY <1>2, <1>3, <2>2, <2>4 DEF CallOK, Walking
    <2> QED BY <1>2, <2>3, <2>5, PhaseKeeps
  <1>5. CASE ~ better
    <2>1. PICK to : to = next_mount(c)
      OBVIOUS
    <2>2. task' = [task EXCEPT ![t] = to]
      BY <1>1, <1>5, <2>1 DEF get_fs_type_callback
    <2>3. c.at = 2 /\ ~ IsPrefix(<<"/", "dev">>, path_swap)
      <3>1. CASE c.at = 1
        BY <1>1, <1>3, <1>5, <3>1, MountPoints
      <3>2. CASE c.at = 2
        BY <1>1, <1>3, <1>5, <3>2, MountPoints
      <3> QED BY <1>3, <3>1, <3>2
    <2>4. to \in Calls /\ to.pc = "end" /\ to.path = c.path
      BY <1>3, <2>1, <2>3, NextMount
    <2>5. mp_swap' = Match(c.path)
      BY <1>2, <1>3, <2>3 DEF Match
    <2>6. CallOK(to)'
      BY <1>2, <1>3, <2>4, <2>5 DEF CallOK, Walking
    <2> QED BY <1>2, <2>2, <2>6, PhaseKeeps
  <1> QED BY <1>4, <1>5

\* The length of a better mount point is stored.
LEMMA LengthKeeps ==
  ASSUME NEW t, VfsInv(t), set_most_long(t)
  PROVE  VfsInv(t)'
  <1>1. PICK c : c = task[t]
    OBVIOUS
  <1>2. PICK to : to = [c EXCEPT !.pc = "pointer"]
    OBVIOUS
  <1>3. /\ c.pc = "longest" /\ result' = result
        /\ most_long' = Len(mount_points[c.at].path) /\ path_swap' = path_swap
        /\ task' = [task EXCEPT ![t] = to]
    BY <1>1, <1>2 DEF set_most_long
  <1>4. /\ c \in Calls /\ path_swap = absolute(c.path)
        /\ c.at \in {1, 2} /\ IsPrefix(mount_points[c.at].path, path_swap)
    BY <1>1, <1>3, WalkKnows DEF OnWalk, Walking
  <1>5. to \in Calls /\ to.pc = "pointer" /\ to.at = c.at /\ to.path = c.path
    BY <1>2, <1>4, Moved DEF Phases
  <1>6. c.at = 1 => most_long' = 1
    BY <1>3, MountPoints
  <1>7. OnWalk("pointer", c.at, mp_swap', most_long', path_swap')
    BY <1>3, <1>4, <1>6 DEF OnWalk
  <1>8. CallOK(to)'
    BY <1>3, <1>4, <1>5, <1>7 DEF CallOK, Walking
  <1> QED BY <1>3, <1>8, PhaseKeeps

\* The mount point is stored: the root is taken first, and /dev after it.
LEMMA PointerKeeps ==
  ASSUME NEW t, VfsInv(t), set_mp_swap(t)
  PROVE  VfsInv(t)'
  <1>1. PICK c : c = task[t]
    OBVIOUS
  <1>2. PICK to : to = next_mount(c)
    OBVIOUS
  <1>3. /\ c.pc = "pointer" /\ result' = result /\ mp_swap' = c.at
        /\ most_long' = most_long /\ path_swap' = path_swap
        /\ task' = [task EXCEPT ![t] = to]
    BY <1>1, <1>2 DEF set_mp_swap
  <1>4. /\ c \in Calls /\ path_swap = absolute(c.path)
        /\ c.at \in {1, 2} /\ IsPrefix(mount_points[c.at].path, path_swap)
        /\ c.at = 1 => most_long = 1
    BY <1>1, <1>3, WalkKnows DEF OnWalk, Walking
  <1>5. /\ to \in Calls /\ to.path = c.path /\ to.at = c.at + 1
        /\ to.pc = IF c.at = 2 THEN "end" ELSE "walk"
    BY <1>2, <1>4, NextMount
  <1>6. CASE c.at = 1
    <2>1. OnWalk("walk", 2, mp_swap', most_long', path_swap')
      BY <1>3, <1>4, <1>6 DEF OnWalk
    <2>2. to.pc = "walk" /\ to.at = 2
      BY <1>5, <1>6
    <2>3. CallOK(to)'
      BY <1>3, <1>4, <1>5, <2>1, <2>2 DEF CallOK, Walking
    <2> QED BY <1>3, <2>3, PhaseKeeps
  <1>7. CASE c.at = 2
    <2>1. mp_swap' = Match(c.path)
      BY <1>3, <1>4, <1>7, MountPoints DEF Match
    <2>2. CallOK(to)'
      BY <1>3, <1>4, <1>5, <1>7, <2>1 DEF CallOK, Walking
    <2> QED BY <1>3, <2>2, PhaseKeeps
  <1> QED BY <1>4, <1>6, <1>7

\* Every step of a walk keeps the invariant.
LEMMA VfsStep ==
  ASSUME NEW t, Tasks = {t}, VfsInv(t), [Next]_vars
  PROVE  VfsInv(t)'
  <1>1. task[t] \in Calls /\ DOMAIN task = {t} /\ DOMAIN result = {t} /\ ResultOK(result[t])
    BY DEF VfsInv, CallOK
  <1>2. PICK c : c = task[t]
    OBVIOUS
  <1>3. c \in Calls
    BY <1>1, <1>2
  <1>4. CASE reset(t)
    <2>1. PICK to : to = [c EXCEPT !.pc = "zero"]
      OBVIOUS
    <2>2. to \in Calls /\ to.pc = "zero" /\ to.at = c.at
      BY <1>3, <2>1, Moved DEF Phases
    <2>3. /\ c.at = 1 /\ mp_swap' = NoMount /\ result' = result
          /\ task' = [task EXCEPT ![t] = to]
      BY <1>2, <1>4, <2>1 DEF reset, VfsInv, CallOK
    <2>4. CallOK(to)'
      BY <2>2, <2>3 DEF CallOK, Walking
    <2> QED BY <2>3, <2>4, PhaseKeeps
  <1>5. CASE zero(t)
    <2>1. PICK to : to = [c EXCEPT !.pc = "publish"]
      OBVIOUS
    <2>2. to \in Calls /\ to.pc = "publish" /\ to.at = c.at
      BY <1>3, <2>1, Moved DEF Phases
    <2>3. /\ c.at = 1 /\ mp_swap' = NoMount /\ most_long' = 0 /\ result' = result
          /\ task' = [task EXCEPT ![t] = to]
      BY <1>2, <1>5, <2>1 DEF zero, VfsInv, CallOK
    <2>4. CallOK(to)'
      BY <2>2, <2>3 DEF CallOK, Walking
    <2> QED BY <2>3, <2>4, PhaseKeeps
  <1>6. CASE publish(t)
    <2>1. PICK to : to = [c EXCEPT !.pc = "walk"]
      OBVIOUS
    <2>2. to \in Calls /\ to.pc = "walk" /\ to.at = c.at /\ to.path = c.path
      BY <1>3, <2>1, Moved DEF Phases
    <2>3. /\ c.at = 1 /\ mp_swap' = NoMount /\ most_long' = 0 /\ result' = result
          /\ path_swap' = absolute(c.path) /\ task' = [task EXCEPT ![t] = to]
      BY <1>2, <1>6, <2>1 DEF publish, VfsInv, CallOK
    <2>4. OnWalk("walk", 1, mp_swap', most_long', path_swap')
      BY <2>3 DEF OnWalk
    <2>5. CallOK(to)'
      BY <2>2, <2>3, <2>4 DEF CallOK, Walking
    <2> QED BY <2>3, <2>5, PhaseKeeps
  <1>7. ASSUME NEW op, NEW fd, fd_call(t, op, fd)
        PROVE  VfsInv(t)'
    <2>1. /\ UNCHANGED <<statics, task>>
          /\ result' = [result EXCEPT ![t] = [NoResult EXCEPT !.ret = "ENFILE"]]
      BY <1>7 DEF fd_call
    <2>2. DOMAIN result' = {t} /\ result'[t] = [NoResult EXCEPT !.ret = "ENFILE"]
      BY <1>1, <2>1
    <2>3. ResultOK(result'[t])
      BY <2>2 DEF ResultOK, Done, NoResult
    <2> QED BY <2>1, <2>2, <2>3, NoCallKeeps
  <1>8. CASE UNCHANGED vars
    BY <1>1, <1>8, NoCallKeeps DEF vars
  <1> QED
    BY <1>4, <1>5, <1>6, <1>7, <1>8, CallKeeps, WalkKeeps, LengthKeeps, PointerKeeps,
       FinishKeeps DEF Next

\* An absolute path goes to the driver of its innermost mount point, without
\* the mount point and one slash, for paths of every length and whatever the
\* calls before have left in mp_swap, most_long and path_swap.
THEOREM VfsAbsolutePathsConverted ==
  ASSUME NEW t, Tasks = {t}
  PROVE  Spec => []AbsolutePathsConverted
  <1>1. Init => VfsInv(t)
    BY VfsInit
  <1>2. VfsInv(t) /\ [Next]_vars => VfsInv(t)'
    BY VfsStep
  <1>3. VfsInv(t) => AbsolutePathsConverted
    <2> SUFFICES ASSUME VfsInv(t), Done(result[t]), IsAbsolute(result[t].path),
                        ~ Straddles(result[t].path)
                 PROVE  <<result[t].type, result[t].baked>> = Meaning(result[t].path)
      BY DEF AbsolutePathsConverted
    <2> DEFINE r == result[t]
               m == Match(r.path)
    <2>1. /\ r.path \in Seq(Tokens) /\ r.type = mount_points[m].driver_id
          /\ r.baked = bake(r.path, Len(mount_points[m].path))
      BY DEF VfsInv, ResultOK
    <2>2. <<mount_points[m].driver_id, bake(r.path, Len(mount_points[m].path))>>
             = Meaning(r.path)
      BY <2>1, MatchIsMeaning
    <2> QED BY <2>1, <2>2
  <1> QED BY <1>1, <1>2, <1>3, PTL DEF Spec

-----------------------------------------------------------------------------
(* The memory device: both pointers run through their window               *)

\* The remainders of the numbers around 0 .. w - 1.
LEMMA Remainders ==
  ASSUME NEW w \in Nat \ {0}, NEW r \in 0 .. w - 1
  PROVE  r % w = r /\ (r - w) % w = r /\ (r + w) % w = r
  OBVIOUS

\* What a short can hold: as many numbers below 0 as from 0 on.
LEMMA ShortRange ==
  \E h \in Nat \ {0} : 2 ^ (PortBits - 1) = h /\ 2 ^ PortBits = 2 * h
  <1>1. PortBits - 1 \in Nat /\ PortBits = (PortBits - 1) + 1
    BY DevmemAssumption
  <1>2. /\ 2 ^ (PortBits - 1) \in Nat \ {0}
        /\ 2 ^ ((PortBits - 1) + 1) = 2 * 2 ^ (PortBits - 1)
    BY <1>1, PowerDoubles
  <1> QED BY <1>1, <1>2

Shorts == -(2 ^ (PortBits - 1)) .. 2 ^ (PortBits - 1) - 1

\* The port that port_ptr stands for.
Port == port_ptr % 2 ^ PortBits

\* Behind every port comes the next one, and 0 behind the last; the comparison
\* with PORT_DEV_HI is never true of a short.
LEMMA PortStep ==
  ASSUME NEW v \in Shorts
  PROVE  LET after == to_short(v + 1)
             port == v % 2 ^ PortBits
         IN  /\ port \in 0 .. 2 ^ PortBits - 1
             /\ after \in Shorts
             /\ ~ (after >= PORT_DEV_HI)
             /\ after % 2 ^ PortBits = IF port = 2 ^ PortBits - 1 THEN 0 ELSE port + 1
  <1> DEFINE H == 2 ^ (PortBits - 1)
             W == 2 ^ PortBits
  <1>1. H \in Nat \ {0} /\ W = 2 * H /\ v \in -H .. H - 1
    BY ShortRange DEF Shorts
  <1>2. to_short(v + 1) = LET low == (v + 1) % W IN IF low >= H THEN low - W ELSE low
    BY DEF to_short
  <1>3. PORT_DEV_HI = W - 1 /\ Shorts = -H .. H - 1
    BY DEF PORT_DEV_HI, Shorts
  <1> SUFFICES LET after == to_short(v + 1)
                   port == v % W
               IN  /\ port \in 0 .. W - 1
                   /\ after \in -H .. H - 1
                   /\ ~ (after >= W - 1)
                   /\ after % W = IF port = W - 1 THEN 0 ELSE port + 1
    BY <1>3
  <1> HIDE DEF H, W
  <1>4. W \in Nat \ {0}
    BY <1>1
  <1>5. CASE v \in 0 .. H - 2
    <2>1. v \in 0 .. W - 1 /\ v + 1 \in 0 .. W - 1 /\ v # W - 1
      BY <1>1, <1>5
    <2>2. v % W = v /\ (v + 1) % W = v + 1
      BY <1>4, <2>1, Remainders
    <2> QED BY <1>1, <1>2, <1>5, <2>1, <2>2
  <1>6. CASE v = H - 1
    <2>1. v \in 0 .. W - 1 /\ H \in 0 .. W - 1 /\ H = v + 1
      BY <1>1, <1>6
    <2>2. v % W = v /\ H % W = H /\ (H - W) % W = H
      BY <1>4, <2>1, Remainders
    <2> QED BY <1>1, <1>2, <2>1, <2>2
  <1>7. CASE v \in -H .. -2
    <2>1. v + W \in 0 .. W - 1 /\ v + W + 1 \in 0 .. W - 1 /\ v + W + 1 >= H
      BY <1>1, <1>7
    <2>2. v % W = v + W /\ (v + 1) % W = v + W + 1
      <3>1. ((v + W) - W) % W = v + W /\ ((v + W + 1) - W) % W = v + W + 1
        BY <1>4, <2>1, Remainders
      <3>2. (v + W) - W = v /\ (v + W + 1) - W = v + 1
        BY <1>4, <1>7
      <3> QED BY <3>1, <3>2
    <2> QED BY <1>1, <1>2, <1>7, <2>1, <2>2
  <1>8. CASE v = -1
    <2>1. W - 1 \in 0 .. W - 1 /\ 0 \in 0 .. W - 1 /\ (W - 1) - W = v /\ v + 1 = 0
      BY <1>1, <1>8
    <2>2. v % W = W - 1 /\ 0 % W = 0
      BY <1>4, <2>1, Remainders
    <2> QED BY <1>1, <1>2, <2>1, <2>2
  <1> QED BY <1>1, <1>5, <1>6, <1>7, <1>8

\* Swept so far by a pointer that is to read place next: all that is below, or
\* the whole window when it is to begin anew.
SweptTo(w, place) ==
    \/ swept[w] = Lo[w] .. place - 1
    \/ swept[w] = Window[w] /\ place = Lo[w]

\* The invariant.  Before devmem_init mem_ptr is 0, which is no address of the
\* window, and nothing was read.
MemInv ==
    /\ swept \in [{"mem", "port"} -> SUBSET Int]
    /\ \/ mem_ptr = 0 /\ port_ptr = 0 /\ swept = [w \in {"mem", "port"} |-> {}]
       \/ mem_ptr \in Window["mem"] /\ SweptTo("mem", mem_ptr)
    /\ port_ptr \in Shorts
    /\ SweptTo("port", Port)

\* What one more read does to what was swept.
LEMMA SweepStep ==
  ASSUME NEW w \in {"mem", "port"}, NEW hi \in Int, NEW place \in Lo[w] .. hi, NEW after,
         Lo[w] \in Int, Window[w] = Lo[w] .. hi,
         after = IF place = hi THEN Lo[w] ELSE place + 1,
         swept \in [{"mem", "port"} -> SUBSET Int], SweptTo(w, place), Sweep(w, place)
  PROVE  /\ swept' \in [{"mem", "port"} -> SUBSET Int]
         /\ \A o \in {"mem", "port"} \ {w} : swept'[o] = swept[o]
         /\ swept'[w] \subseteq Window[w]
         /\ \/ swept'[w] = Lo[w] .. after - 1
            \/ swept'[w] = Window[w] /\ after = Lo[w]
         /\ Restarts(w) => swept[w] = Window[w]
  <1> DEFINE lo == Lo[w]
             new == IF place = lo THEN {place} ELSE swept[w] \cup {place}
  <1>1. swept' = [swept EXCEPT ![w] = new]
    BY DEF Sweep
  <1>2. swept'[w] = new /\ \A o \in {"mem", "port"} \ {w} : swept'[o] = swept[o]
    BY <1>1
  <1>3. lo \in Int /\ place \in lo .. hi /\ Window[w] = lo .. hi
    OBVIOUS
  <1>4. swept[w] = lo .. place - 1 \/ (swept[w] = lo .. hi /\ place = lo)
    BY <1>3 DEF SweptTo
  <1> HIDE DEF lo
  <1>5. new = lo .. place
    <2>1. CASE place = lo
      <3>1. new = {place}
        BY <2>1 DEF lo
      <3> QED BY <1>3, <2>1, <3>1
    <2>2. CASE place # lo
      <3>1. new = (lo .. place - 1) \cup {place}
        BY <1>4, <2>2 DEF lo
      <3> QED BY <1>3, <2>2, <3>1
    <2> QED BY <2>1, <2>2
  <1> HIDE DEF new
  <1>6. swept' \in [{"mem", "port"} -> SUBSET Int]
    <2>1. new \in SUBSET Int
      BY <1>3, <1>5
    <2> QED BY <1>1, <2>1
  <1>7. new \subseteq lo .. hi
    BY <1>3, <1>5
  <1>8. new = lo .. after - 1 \/ (new = lo .. hi /\ after = lo)
    BY <1>3, <1>5 DEF lo
  <1>9. Restarts(w) => swept[w] = lo .. hi
    <2> SUFFICES ASSUME swept[w] # {}, new = {lo}
                 PROVE  swept[w] = lo .. hi
      BY <1>2 DEF Restarts, lo
    <2>1. place = lo
      BY <1>3, <1>5
    <2>2. lo .. place - 1 = {}
      BY <1>3, <2>1
    <2> QED BY <1>4, <2>2
  <1> QED BY <1>2, <1>3, <1>6, <1>7, <1>8, <1>9 DEF lo

\* The device begins with the pointers at the beginning of their windows.
LEMMA MemInvInit == MemInit => MemInv
  <1> SUFFICES ASSUME MemInit
               PROVE  MemInv
    OBVIOUS
  <1>1. mem_ptr = 0 /\ port_ptr = 0 /\ swept = [w \in {"mem", "port"} |-> {}]
    BY DEF MemInit
  <1>2. PICK h \in Nat \ {0} : 2 ^ (PortBits - 1) = h /\ 2 ^ PortBits = 2 * h
    BY ShortRange
  <1>3. port_ptr \in Shorts
    BY <1>1, <1>2 DEF Shorts
  <1>4. Port = 0
    BY <1>1, <1>2 DEF Port
  <1>5. swept["port"] = Lo["port"] .. Port - 1
    BY <1>1, <1>4 DEF Lo, PORT_DEV_LO
  <1> QED BY <1>1, <1>3, <1>5 DEF MemInv, SweptTo

\* Every read and write keeps the invariant of the memory device.
LEMMA MemStep ==
  ASSUME MemInv, [MemNext]_memVars
  PROVE  /\ MemInv'
         /\ \A w \in {"mem", "port"} :
               swept'[w] \subseteq Window[w] /\ (Restarts(w) => swept[w] = Window[w])
  <1>1. /\ Lo["mem"] = MEM_DEV_LO /\ Window["mem"] = MEM_DEV_LO .. MEM_DEV_HI - 1
        /\ Lo["port"] = 0 /\ Window["port"] = 0 .. 2 ^ PortBits - 1
        /\ MEM_DEV_LO \in Nat \ {0} /\ MEM_DEV_HI \in Nat /\ MEM_DEV_LO < MEM_DEV_HI
    BY DevmemAssumption DEF Lo, Window, PORT_DEV_LO
  <1>2. PICK h \in Nat \ {0} : 2 ^ (PortBits - 1) = h /\ 2 ^ PortBits = 2 * h
    BY ShortRange
  <1>3. Port \in 0 .. 2 ^ PortBits - 1
    BY PortStep DEF MemInv, Port
  \* what was swept before the step
  <1>4. \A w \in {"mem", "port"} : swept[w] \subseteq Window[w]
    <2>1. swept["port"] \subseteq Window["port"]
      BY <1>1, <1>2, <1>3 DEF MemInv, SweptTo
    <2>2. swept["mem"] \subseteq Window["mem"]
      BY <1>1 DEF MemInv, SweptTo
    <2> QED BY <2>1, <2>2
  <1>5. ASSUME swept' = swept
        PROVE  \A w \in {"mem", "port"} :
                  swept'[w] \subseteq Window[w] /\ (Restarts(w) => swept[w] = Window[w])
    BY <1>4, <1>5 DEF Restarts
  <1>6. CASE UNCHANGED memVars
    <2>1. MemInv'
      BY <1>6 DEF MemInv, memVars, SweptTo, Port
    <2> QED BY <1>5, <1>6, <2>1 DEF memVars
  <1>7. CASE mem_ptr = 0 /\ devmem_init
    <2>1. /\ mem_ptr' = MEM_DEV_LO /\ port_ptr' = 0 /\ swept' = swept
          /\ swept = [w \in {"mem", "port"} |-> {}]
      BY <1>1, <1>7 DEF devmem_init, MemInv, PORT_DEV_LO
    <2>2. Port' = 0 /\ port_ptr' \in Shorts
      BY <1>2, <2>1 DEF Port, Shorts
    <2>3. MemInv'
      BY <1>1, <2>1, <2>2 DEF MemInv, SweptTo
    <2> QED BY <1>5, <2>1, <2>3
  <1>8. ASSUME mem_ptr # 0, NEW minor \in Minors, NEW code \in MemReplies,
               devmem_read(minor, code)
        PROVE  /\ MemInv'
               /\ \A w \in {"mem", "port"} :
                     swept'[w] \subseteq Window[w] /\ (Restarts(w) => swept[w] = Window[w])
    <2>1. mem_ptr \in Window["mem"] /\ SweptTo("mem", mem_ptr)
      BY <1>8 DEF MemInv
    <2>2. CASE minor = MINOR_DEVMEM_MEM
      <3>1. /\ mem_ptr' = IF mem_ptr + 1 >= MEM_DEV_HI THEN MEM_DEV_LO ELSE mem_ptr + 1
            /\ Sweep("mem", mem_ptr) /\ port_ptr' = port_ptr
        BY <1>8, <2>2 DEF devmem_read, MINOR_DEVMEM_MEM, MINOR_DEVMEM_PORT
      <3>2. mem_ptr' = IF mem_ptr = MEM_DEV_HI - 1 THEN MEM_DEV_LO ELSE mem_ptr + 1
        BY <1>1, <2>1, <3>1
      <3>3. /\ swept' \in [{"mem", "port"} -> SUBSET Int]
            /\ \A o \in {"mem", "port"} \ {"mem"} : swept'[o] = swept[o]
            /\ swept'["mem"] \subseteq Window["mem"]
            /\ \/ swept'["mem"] = Lo["mem"] .. mem_ptr' - 1
               \/ swept'["mem"] = Window["mem"] /\ mem_ptr' = Lo["mem"]
            /\ Restarts("mem") => swept["mem"] = Window["mem"]
        <4> DEFINE hi == MEM_DEV_HI - 1
                   after == mem_ptr'
        <4>1. hi \in Int /\ mem_ptr \in Lo["mem"] .. hi /\ Window["mem"] = Lo["mem"] .. hi
          BY <1>1, <2>1
        <4>2. after = IF mem_ptr = hi THEN Lo["mem"] ELSE mem_ptr + 1
          BY <1>1, <3>2
        <4>3. Lo["mem"] \in Int /\ swept \in [{"mem", "port"} -> SUBSET Int]
          BY <1>1 DEF MemInv
        <4> HIDE DEF hi, after
        <4>4. /\ swept' \in [{"mem", "port"} -> SUBSET Int]
              /\ \A o \in {"mem", "port"} \ {"mem"} : swept'[o] = swept[o]
              /\ swept'["mem"] \subseteq Window["mem"]
              /\ \/ swept'["mem"] = Lo["mem"] .. after - 1
                 \/ swept'["mem"] = Window["mem"] /\ after = Lo["mem"]
              /\ Restarts("mem") => swept["mem"] = Window["mem"]
          BY <2>1, <3>1, <4>1, <4>2, <4>3, SweepStep
        <4> QED BY <4>4 DEF after
      <3>4. mem_ptr' \in Window["mem"]
        BY <1>1, <2>1, <3>2
      <3>5. Port' = Port /\ port_ptr' \in Shorts /\ swept'["port"] = swept["port"]
        BY <3>1, <3>3 DEF Port, MemInv
      <3>6. MemInv'
        BY <3>3, <3>4, <3>5 DEF MemInv, SweptTo
      <3> QED BY <1>4, <3>3, <3>5, <3>6 DEF Restarts
    <2>3. CASE minor = MINOR_DEVMEM_PORT
      <3> DEFINE after == to_short(port_ptr + 1)
                 hi == 2 ^ PortBits - 1
      <3>1. /\ port_ptr' = IF after >= PORT_DEV_HI THEN PORT_DEV_LO ELSE after
            /\ Sweep("port", Port) /\ mem_ptr' = mem_ptr
        BY <1>8, <2>3 DEF devmem_read, Port, MINOR_DEVMEM_MEM, MINOR_DEVMEM_PORT
      <3>2. /\ Port \in 0 .. hi /\ after \in Shorts /\ ~ (after >= PORT_DEV_HI)
            /\ after % 2 ^ PortBits = IF Port = hi THEN 0 ELSE Port + 1
        BY PortStep DEF MemInv, Port
      <3>3. port_ptr' \in Shorts /\ Port' = IF Port = hi THEN 0 ELSE Port + 1
        BY <3>1, <3>2 DEF Port
      <3>4. hi \in Int
        BY <1>2
      <3> HIDE DEF after, hi
      <3>5. /\ swept' \in [{"mem", "port"} -> SUBSET Int]
            /\ \A o \in {"mem", "port"} \ {"port"} : swept'[o] = swept[o]
            /\ swept'["port"] \subseteq Window["port"]
            /\ \/ swept'["port"] = Lo["port"] .. Port' - 1
               \/ swept'["port"] = Window["port"] /\ Port' = Lo["port"]
            /\ Restarts("port") => swept["port"] = Window["port"]
        <4> DEFINE place == Port
                   then == Port'
        <4>1. place \in Lo["port"] .. hi /\ Window["port"] = Lo["port"] .. hi
          BY <1>1, <3>2 DEF hi
        <4>2. then = IF place = hi THEN Lo["port"] ELSE place + 1
          BY <1>1, <3>3
        <4>3. /\ Lo["port"] \in Int /\ swept \in [{"mem", "port"} -> SUBSET Int]
              /\ SweptTo("port", place) /\ Sweep("port", place)
          BY <1>1, <3>1 DEF MemInv
        <4> HIDE DEF place, then
        <4>4. /\ swept' \in [{"mem", "port"} -> SUBSET Int]
              /\ \A o \in {"mem", "port"} \ {"port"} : swept'[o] = swept[o]
              /\ swept'["port"] \subseteq Window["port"]
              /\ \/ swept'["port"] = Lo["port"] .. then - 1
                 \/ swept'["port"] = Window["port"] /\ then = Lo["port"]
              /\ Restarts("port") => swept["port"] = Window["port"]
          BY <3>4, <4>1, <4>2, <4>3, SweepStep
        <4> QED BY <4>4 DEF then
      <3>6. swept'["mem"] = swept["mem"]
        BY <3>5
      <3>7. MemInv'
        BY <2>1, <3>1, <3>3, <3>5, <3>6 DEF MemInv, SweptTo
      <3> QED BY <1>4, <3>5, <3>6, <3>7 DEF Restarts
    <2>4. CASE minor \notin {MINOR_DEVMEM_MEM, MINOR_DEVMEM_PORT}
      <3>1. UNCHANGED memVars
        BY <1>8, <2>4 DEF devmem_read
      <3> QED BY <1>6, <3>1
    <2> QED BY <2>2, <2>3, <2>4
  <1>9. ASSUME NEW minor \in Minors, NEW code \in MemReplies, devmem_write(minor, code)
        PROVE  UNCHANGED memVars
    BY <1>9 DEF devmem_write
  <1> QED BY <1>6, <1>7, <1>8, <1>9 DEF MemNext

\* Used as MemSpec says the memory device reads its windows to the end.
LEMMA MemSweeps == MemSpec => ReadsSweep
  <1>1. MemInv /\ [MemNext]_memVars => MemInv'
    BY MemStep
  <1>2. MemInv /\ [MemNext]_memVars =>
           [\A w \in {"mem", "port"} :
               /\ swept'[w] \subseteq Window[w]
               /\ Restarts(w) => swept[w] = Window[w]]_memVars
    BY MemStep
  <1> QED BY <1>1, <1>2, MemInvInit, PTL DEF MemSpec, ReadsSweep

-----------------------------------------------------------------------------
(* The search tree: nodes and heights                                      *)

\* The nodes of a tree with what D allows as data.
Record(n, D) == [id : Nat, data : D, child1 : 0 .. n, child2 : 0 .. n, height : Nat]

\* A heap of n nodes.
Heap(h, n, D) == n \in Nat /\ h \in [1 .. n -> Record(n, D)]

\* The height of p is right for its children.
Exact(h, p) ==
    h[p].height = higher(height(h, h[p].child1), height(h, h[p].child2)) + 1

\* Heights are those of nodes, or -1.
LEMMA HeightIs ==
  ASSUME NEW h, NEW n, NEW D, Heap(h, n, D), NEW c \in 0 .. n
  PROVE  /\ height(h, c) \in Int /\ height(h, c) >= -1
         /\ height(h, c) >= 0 => c # NULL
         /\ c # NULL => height(h, c) = h[c].height
  BY DEF Heap, Record, height, NULL

\* g is h with the height of p measured.
Remeasured(g, h, n, D, p) ==
    /\ Heap(g, n, D)
    /\ \A q \in 1 .. n : /\ g[q].id = h[q].id /\ g[q].data = h[q].data
                         /\ g[q].child1 = h[q].child1 /\ g[q].child2 = h[q].child2
                         /\ q # p => g[q] = h[q]
    /\ g[p].height = higher(height(h, h[p].child1), height(h, h[p].child2)) + 1

\* update_height changes the height of one node.
LEMMA UpdateHeight ==
  ASSUME NEW h, NEW n, NEW D, Heap(h, n, D), NEW p \in 1 .. n,
         h[p].child1 \in 0 .. n, h[p].child2 \in 0 .. n
  PROVE  Remeasured(update_height(h, p), h, n, D, p)
  <1> DEFINE v == higher(height(h, h[p].child1), height(h, h[p].child2)) + 1
             g == [h EXCEPT ![p].height = v]
  <1>1. v \in Nat
    BY HeightIs DEF higher
  <1> HIDE DEF v
  <1>2. Heap(g, n, D)
    BY <1>1 DEF Heap, Record
  <1>3. g[p].height = v
    BY DEF Heap, Record
  <1>4. ASSUME NEW q \in 1 .. n
        PROVE  /\ g[q].id = h[q].id /\ g[q].data = h[q].data
               /\ g[q].child1 = h[q].child1 /\ g[q].child2 = h[q].child2
               /\ q # p => g[q] = h[q]
    BY DEF Heap, Record
  <1>5. g = update_height(h, p)
    BY DEF update_height, v
  <1> HIDE DEF g
  <1> QED BY <1>2, <1>3, <1>4, <1>5 DEF Remeasured, v

-----------------------------------------------------------------------------
(* The search tree: the nodes that are left                                *)

\* The nodes of L are a forest: the ids that may be below p are in B[p], and
\* U[p] is the node that leads to p.
Tree(h, n, L, B, U) ==
    /\ L \subseteq 1 .. n
    /\ \A p \in L : h[p].id \in B[p]
    /\ \A p \in L : h[p].child1 # NULL =>
          /\ h[p].child1 \in L /\ U[h[p].child1] = p
          /\ \A e \in B[h[p].child1] : e \in B[p] /\ e < h[p].id
    /\ \A p \in L : h[p].child2 # NULL =>
          /\ h[p].child2 \in L /\ U[h[p].child2] = p
          /\ \A e \in B[h[p].child2] : e \in B[p] /\ e > h[p].id

\* What that says of one node.
NodeIn(h, n, L, B, U, q) ==
    /\ q \in 1 .. n /\ n \in Nat /\ h[q].id \in Nat /\ h[q].id \in B[q]
    /\ h[q].child1 \in 0 .. n /\ h[q].child1 # q
    /\ h[q].child2 \in 0 .. n /\ h[q].child2 # q
    /\ h[q].child1 # h[q].child2 \/ h[q].child1 = 0
    /\ h[q].child1 # 0 => /\ h[q].child1 \in L /\ U[h[q].child1] = q
                          /\ h[q].id \notin B[h[q].child1]
                          /\ \A e \in B[h[q].child1] : e \in B[q] /\ e < h[q].id
    /\ h[q].child2 # 0 => /\ h[q].child2 \in L /\ U[h[q].child2] = q
                          /\ h[q].id \notin B[h[q].child2]
                          /\ \A e \in B[h[q].child2] : e \in B[q] /\ e > h[q].id

\* NodeIn holds of every node that is left.
LEMMA NodeIs ==
  ASSUME NEW h, NEW n, NEW D, NEW L, NEW B, NEW U, Heap(h, n, D),
         Tree(h, n, L, B, U), NEW q \in L
  PROVE  NodeIn(h, n, L, B, U, q)
  <1> DEFINE c == h[q].child1
             d == h[q].child2
             i == h[q].id
  <1>1. q \in 1 .. n /\ n \in Nat /\ L \subseteq 1 .. n
    BY DEF Tree, Heap
  <1>2. i \in Nat /\ i \in B[q]
    BY <1>1 DEF Tree, Heap, Record
  <1>3. c # 0 => c \in L /\ U[c] = q /\ \A e \in B[c] : e \in B[q] /\ e < i
    BY DEF Tree, NULL
  <1>4. d # 0 => d \in L /\ U[d] = q /\ \A e \in B[d] : e \in B[q] /\ e > i
    BY DEF Tree, NULL
  <1>5. \A p \in L : h[p].id \in B[p] /\ h[p].id \in Nat
    BY <1>1 DEF Tree, Heap, Record
  <1> HIDE DEF c, d, i
  <1>6. (c # 0 => i \notin B[c]) /\ (d # 0 => i \notin B[d])
    BY <1>2, <1>3, <1>4
  <1>7. c \in 0 .. n /\ d \in 0 .. n
    <2>1. 0 \in 0 .. n /\ 1 .. n \subseteq 0 .. n
      BY <1>1
    <2> QED BY <1>1, <1>3, <1>4, <2>1
  <1>8. q # 0
    BY <1>1
  <1>9. c # q /\ d # q
    BY <1>2, <1>6, <1>8
  <1>10. c # d \/ c = 0
    <2> SUFFICES ASSUME c = d, c # 0 PROVE FALSE
      OBVIOUS
    <2>1. h[c].id \in B[c] /\ h[c].id \in Nat
      BY <1>3, <1>5
    <2>2. h[c].id < i /\ h[c].id > i
      BY <1>3, <1>4, <2>1
    <2> QED BY <1>2, <2>1, <2>2
  <1> QED BY <1>1, <1>2, <1>3, <1>4, <1>6, <1>7, <1>9, <1>10 DEF NodeIn, c, d, i

\* From h to g the nodes of L below p may change and get lost, M stay: they
\* are the same forest, and heights that were right are, but above p.
Kept(g, h, n, D, L, M, B, U, V, p) ==
    /\ Heap(g, n, D) /\ Tree(g, n, M, B, V) /\ M \subseteq L /\ p \in M
    /\ \A q \in 1 .. n : g[q].id = h[q].id /\ g[q].data = h[q].data
    /\ \A q \in L : h[q].id \notin B[p] => q \in M
    /\ V[p] = U[p] /\ \A q \in M : h[q].id \notin B[p] => V[q] = U[q]
    /\ Exact(g, p)
    /\ \A q \in M : q # p /\ U[p] # q /\ Exact(h, q) => Exact(g, q)

\* A node that is measured is right, and so are the others.
LEMMA MeasureKeeps ==
  ASSUME NEW h, NEW n, NEW D, NEW L, NEW B, NEW U, Heap(h, n, D),
         Tree(h, n, L, B, U), NEW p \in L
  PROVE  Kept(update_height(h, p), h, n, D, L, L, B, U, U, p)
  <1> DEFINE g == update_height(h, p)
  <1>0. \A q \in L : NodeIn(h, n, L, B, U, q)
    BY NodeIs
  <1>1. /\ p \in 1 .. n /\ L \subseteq 1 .. n
        /\ \A q \in L : h[q].child1 \in 0 .. n /\ h[q].child2 \in 0 .. n
    BY <1>0 DEF NodeIn
  <1>2. Remeasured(g, h, n, D, p)
    BY <1>1, UpdateHeight
  <1> HIDE DEF g
  <1>3. /\ Heap(g, n, D)
        /\ \A q \in 1 .. n : /\ g[q].id = h[q].id /\ g[q].data = h[q].data
                             /\ g[q].child1 = h[q].child1 /\ g[q].child2 = h[q].child2
                             /\ q # p => g[q] = h[q]
        /\ g[p].height = higher(height(h, h[p].child1), height(h, h[p].child2)) + 1
    BY <1>2 DEF Remeasured
  <1>4. Tree(g, n, L, B, U)
    BY <1>1, <1>3 DEF Tree
  <1>5. \A c \in 0 .. n : c # p => height(g, c) = height(h, c)
    BY <1>3 DEF height, NULL
  <1>6. /\ h[p].child1 # p /\ h[p].child2 # p
        /\ \A q \in L : U[p] # q => h[q].child1 # p /\ h[q].child2 # p
    <2>1. p # 0
      BY <1>1
    <2> QED BY <1>0, <2>1 DEF NodeIn
  <1>7. Exact(g, p)
    BY <1>1, <1>3, <1>5, <1>6 DEF Exact
  <1>8. ASSUME NEW q \in L, q # p, U[p] # q, Exact(h, q)
        PROVE  Exact(g, q)
    BY <1>1, <1>3, <1>5, <1>6, <1>8 DEF Exact
  <1> QED BY <1>1, <1>3, <1>4, <1>7, <1>8 DEF Kept, g

-----------------------------------------------------------------------------
(* The search tree: rotations                                              *)

\* rotate_right puts y below its child x, and x loses its child2 to y.
RotatedRight(g, h, n, D, x, y) ==
    /\ Heap(g, n, D)
    /\ \A q \in 1 .. n : /\ g[q].id = h[q].id /\ g[q].data = h[q].data
                         /\ q \notin {x, y} => g[q] = h[q]
    /\ g[x].child1 = h[x].child1 /\ g[x].child2 = y
    /\ g[y].child1 = h[x].child2 /\ g[y].child2 = h[y].child2
    /\ h[x].child2 \notin {x, y} /\ h[y].child2 \notin {x, y} => Exact(g, y)

\* What rotate_right does to the two nodes.
LEMMA RotateRight ==
  ASSUME NEW h, NEW n, NEW D, Heap(h, n, D), NEW x \in 1 .. n, NEW y \in 1 .. n,
         x # y, h[y].child1 = x, h[y].child2 \in 0 .. n,
         h[x].child1 \in 0 .. n, h[x].child2 \in 0 .. n
  PROVE  RotatedRight(rotate_right(h, y), h, n, D, x, y)
  <1> DEFINE h0 == [h EXCEPT ![x].child2 = y, ![y].child1 = h[x].child2]
             h1 == update_height(h0, y)
             h2 == update_height(h1, x)
  <1>1. rotate_right(h, y) = h2
    BY DEF rotate_right
  <1>2. Heap(h0, n, D)
    <2>0. n \in Nat /\ h \in [1 .. n -> Record(n, D)]
      BY DEF Heap
    <2>1. /\ h \in [1 .. n -> Record(n, D)] /\ h[x] \in Record(n, D) /\ h[y] \in Record(n, D)
          /\ x \in Int /\ y \in Int /\ n \in Nat
      BY <2>0
    <2>2. [h[x] EXCEPT !.child2 = y] \in Record(n, D)
      BY <2>1 DEF Record
    <2>3. [h[y] EXCEPT !.child1 = h[x].child2] \in Record(n, D)
      BY <2>1 DEF Record
    <2>4. h0 = [[h EXCEPT ![x] = [h[x] EXCEPT !.child2 = y]] EXCEPT
                    ![y] = [h[y] EXCEPT !.child1 = h[x].child2]]
      BY <2>1
    <2> QED BY <2>1, <2>2, <2>3, <2>4 DEF Heap
  <1>3. /\ \A q \in 1 .. n : h0[q].id = h[q].id /\ h0[q].data = h[q].data
        /\ \A q \in 1 .. n : q \notin {x, y} => h0[q] = h[q]
        /\ h0[x].child1 = h[x].child1 /\ h0[x].child2 = y
        /\ h0[y].child1 = h[x].child2 /\ h0[y].child2 = h[y].child2
    BY DEF Heap, Record
  <1>4. n \in Nat
    BY DEF Heap
  <1> HIDE DEF h0
  <1>5. Remeasured(h1, h0, n, D, y)
    BY <1>2, <1>3, UpdateHeight
  <1> HIDE DEF h1
  <1>6. /\ Heap(h1, n, D)
        /\ \A q \in 1 .. n : /\ h1[q].id = h0[q].id /\ h1[q].data = h0[q].data
                             /\ h1[q].child1 = h0[q].child1 /\ h1[q].child2 = h0[q].child2
                             /\ q # y => h1[q] = h0[q]
        /\ h1[y].height = higher(height(h0, h0[y].child1), height(h0, h0[y].child2)) + 1
    BY <1>5 DEF Remeasured
  <1>7. Remeasured(h2, h1, n, D, x)
    <2>1. h1[x].child1 \in 0 .. n /\ h1[x].child2 \in 0 .. n
      BY <1>3, <1>4, <1>6
    <2> QED BY <1>6, <2>1, UpdateHeight
  <1> HIDE DEF h2
  <1>8. /\ Heap(h2, n, D)
        /\ \A q \in 1 .. n : /\ h2[q].id = h1[q].id /\ h2[q].data = h1[q].data
                             /\ h2[q].child1 = h1[q].child1 /\ h2[q].child2 = h1[q].child2
                             /\ q # x => h2[q] = h1[q]
    BY <1>7 DEF Remeasured
  <1>9. ASSUME h[x].child2 \notin {x, y}, h[y].child2 \notin {x, y}
        PROVE  Exact(h2, y)
    <2>1. h2[y] = h1[y]
      BY <1>8
    <2>2. \A c \in 0 .. n : c \notin {x, y} => height(h2, c) = height(h0, c)
      BY <1>6, <1>8 DEF height, NULL
    <2>3. /\ h2[y].child1 = h[x].child2 /\ h2[y].child2 = h[y].child2
          /\ h0[y].child1 = h[x].child2 /\ h0[y].child2 = h[y].child2
      BY <1>3, <1>6, <2>1
    <2> QED BY <1>6, <1>9, <2>1, <2>2, <2>3 DEF Exact
  <1> QED BY <1>1, <1>3, <1>6, <1>8, <1>9 DEF RotatedRight


\* rotate_left is the mirror image of that.
RotatedLeft(g, h, n, D, x, y) ==
    /\ Heap(g, n, D)
    /\ \A q \in 1 .. n : /\ g[q].id = h[q].id /\ g[q].data = h[q].data
                         /\ q \notin {x, y} => g[q] = h[q]
    /\ g[x].child2 = h[x].child2 /\ g[x].child1 = y
    /\ g[y].child2 = h[x].child1 /\ g[y].child1 = h[y].child1
    /\ h[x].child1 \notin {x, y} /\ h[y].child1 \notin {x, y} => Exact(g, y)

\* What rotate_left does to the two nodes.
LEMMA RotateLeft ==
  ASSUME NEW h, NEW n, NEW D, Heap(h, n, D), NEW x \in 1 .. n, NEW y \in 1 .. n,
         x # y, h[y].child2 = x, h[y].child1 \in 0 .. n,
         h[x].child2 \in 0 .. n, h[x].child1 \in 0 .. n
  PROVE  RotatedLeft(rotate_left(h, y), h, n, D, x, y)
  <1> DEFINE h0 == [h EXCEPT ![x].child1 = y, ![y].child2 = h[x].child1]
             h1 == update_height(h0, y)
             h2 == update_height(h1, x)
  <1>1. rotate_left(h, y) = h2
    BY DEF rotate_left
  <1>2. Heap(h0, n, D)
    <2>0. n \in Nat /\ h \in [1 .. n -> Record(n, D)]
      BY DEF Heap
    <2>1. /\ h \in [1 .. n -> Record(n, D)] /\ h[x] \in Record(n, D) /\ h[y] \in Record(n, D)
          /\ x \in Int /\ y \in Int /\ n \in Nat
      BY <2>0
    <2>2. [h[x] EXCEPT !.child1 = y] \in Record(n, D)
      BY <2>1 DEF Record
    <2>3. [h[y] EXCEPT !.child2 = h[x].child1] \in Record(n, D)
      BY <2>1 DEF Record
    <2>4. h0 = [[h EXCEPT ![x] = [h[x] EXCEPT !.child1 = y]] EXCEPT
                    ![y] = [h[y] EXCEPT !.child2 = h[x].child1]]
      BY <2>1
    <2> QED BY <2>1, <2>2, <2>3, <2>4 DEF Heap
  <1>3. /\ \A q \in 1 .. n : h0[q].id = h[q].id /\ h0[q].data = h[q].data
        /\ \A q \in 1 .. n : q \notin {x, y} => h0[q] = h[q]
        /\ h0[x].child2 = h[x].child2 /\ h0[x].child1 = y
        /\ h0[y].child2 = h[x].child1 /\ h0[y].child1 = h[y].child1
    BY DEF Heap, Record
  <1>4. n \in Nat
    BY DEF Heap
  <1> HIDE DEF h0
  <1>5. Remeasured(h1, h0, n, D, y)
    BY <1>2, <1>3, UpdateHeight
  <1> HIDE DEF h1
  <1>6. /\ Heap(h1, n, D)
        /\ \A q \in 1 .. n : /\ h1[q].id = h0[q].id /\ h1[q].data = h0[q].data
                             /\ h1[q].child2 = h0[q].child2 /\ h1[q].child1 = h0[q].child1
                             /\ q # y => h1[q] = h0[q]
        /\ h1[y].height = higher(height(h0, h0[y].child1), height(h0, h0[y].child2)) + 1
    BY <1>5 DEF Remeasured
  <1>7. Remeasured(h2, h1, n, D, x)
    <2>1. h1[x].child2 \in 0 .. n /\ h1[x].child1 \in 0 .. n
      BY <1>3, <1>4, <1>6
    <2> QED BY <1>6, <2>1, UpdateHeight
  <1> HIDE DEF h2
  <1>8. /\ Heap(h2, n, D)
        /\ \A q \in 1 .. n : /\ h2[q].id = h1[q].id /\ h2[q].data = h1[q].data
                             /\ h2[q].child2 = h1[q].child2 /\ h2[q].child1 = h1[q].child1
                             /\ q # x => h2[q] = h1[q]
    BY <1>7 DEF Remeasured
  <1>9. ASSUME h[x].child1 \notin {x, y}, h[y].child1 \notin {x, y}
        PROVE  Exact(h2, y)
    <2>1. h2[y] = h1[y]
      BY <1>8
    <2>2. \A c \in 0 .. n : c \notin {x, y} => height(h2, c) = height(h0, c)
      BY <1>6, <1>8 DEF height, NULL
    <2>3. /\ h2[y].child2 = h[x].child1 /\ h2[y].child1 = h[y].child1
          /\ h0[y].child2 = h[x].child1 /\ h0[y].child1 = h[y].child1
      BY <1>3, <1>6, <2>1
    <2> QED BY <1>6, <1>9, <2>1, <2>2, <2>3 DEF Exact
  <1> QED BY <1>1, <1>3, <1>6, <1>8, <1>9 DEF RotatedLeft

-----------------------------------------------------------------------------
(* The search tree: what a rotation leaves                                 *)

\* p gets top, which was below the nodes R that are lost, as its child1.
Cut1(g, h, n, D, L, B, U, p, R, top) ==
    /\ Heap(g, n, D) /\ R \subseteq L /\ p \in L /\ p \notin R
    /\ \A q \in 1 .. n : g[q].id = h[q].id /\ g[q].data = h[q].data
    /\ \A q \in L : q \notin R /\ q # p => g[q] = h[q]
    /\ \A q \in R : U[q] \in R \cup {p} /\ h[q].id \in B[p]
    /\ Exact(g, p)
    /\ g[p].child2 = h[p].child2 /\ h[p].child2 \notin R
    /\ g[p].child1 = top
    /\ top # 0 => /\ top \in L \ R /\ U[top] \in R
                  /\ \A e \in B[top] : e \in B[p] /\ e < h[p].id

\* The others are the same forest as before.
LEMMA CutKeeps1 ==
  ASSUME NEW g, NEW h, NEW n, NEW D, NEW L, NEW B, NEW U, NEW p, NEW R, NEW top,
         Heap(h, n, D), Tree(h, n, L, B, U), Cut1(g, h, n, D, L, B, U, p, R, top)
  PROVE  \E M, V : Kept(g, h, n, D, L, M, B, U, V, p)
  <1> DEFINE M == L \ R
             V == [q \in 1 .. n |-> IF q = top THEN p ELSE U[q]]
  <1>1. /\ Heap(g, n, D) /\ R \subseteq L /\ p \in L /\ p \notin R
        /\ \A q \in 1 .. n : g[q].id = h[q].id /\ g[q].data = h[q].data
        /\ \A q \in L : q \notin R /\ q # p => g[q] = h[q]
        /\ \A q \in R : U[q] \in R \cup {p} /\ h[q].id \in B[p]
        /\ Exact(g, p)
        /\ g[p].child2 = h[p].child2 /\ h[p].child2 \notin R
        /\ g[p].child1 = top
        /\ top # 0 => /\ top \in L \ R /\ U[top] \in R
                      /\ \A e \in B[top] : e \in B[p] /\ e < h[p].id
    BY DEF Cut1
  <1>2. \A q \in L : NodeIn(h, n, L, B, U, q)
    BY NodeIs
  <1>3. L \subseteq 1 .. n /\ M \subseteq L /\ p \in M /\ p \in 1 .. n /\ p # 0
    <2>1. L \subseteq 1 .. n
      BY DEF Tree
    <2> QED BY <1>1, <2>1
  \* the children of the others stay, and have the same parents
  <1>4. ASSUME NEW q \in M, q # p
        PROVE  /\ g[q] = h[q]
               /\ h[q].child1 # 0 => h[q].child1 \in M /\ h[q].child1 # top
               /\ h[q].child2 # 0 => h[q].child2 \in M /\ h[q].child2 # top
    <2>1. q \in L /\ q \notin R /\ g[q] = h[q]
      BY <1>1, <1>4
    <2>2. NodeIn(h, n, L, B, U, q)
      BY <1>2, <2>1
    <2>3. top # 0 => U[top] # q
      BY <1>1, <2>1
    <2>4. \A c \in L : U[c] = q => c \notin R
      BY <1>1, <1>4, <2>1
    <2>5. h[q].child1 # 0 => h[q].child1 \in L /\ U[h[q].child1] = q
      BY <2>2 DEF NodeIn
    <2>6. h[q].child2 # 0 => h[q].child2 \in L /\ U[h[q].child2] = q
      BY <2>2 DEF NodeIn
    <2> QED BY <2>1, <2>3, <2>4, <2>5, <2>6
  <1>5. h[p].child2 # 0 => h[p].child2 \in M /\ h[p].child2 # top
    <2>1. h[p].child2 # 0 => h[p].child2 \in L /\ U[h[p].child2] = p
      BY <1>1, <1>2 DEF NodeIn
    <2>2. top # 0 => U[top] # p
      BY <1>1
    <2> QED BY <1>1, <2>1, <2>2
  <1>6. \A q \in 1 .. n : V[q] = IF q = top THEN p ELSE U[q]
    OBVIOUS
  <1>7. V[p] = U[p] /\ \A q \in M : h[q].id \notin B[p] => V[q] = U[q]
    <2>1. top # p
      <3>1. h[p].id \in Nat
        BY <1>1, <1>2 DEF NodeIn
      <3>2. h[p].id \in B[p]
        BY <1>1, <1>2 DEF NodeIn
      <3>3. top = p => h[p].id < h[p].id
        BY <1>1, <1>3, <3>2
      <3> QED BY <3>1, <3>3
    <2>2. top # 0 => h[top].id \in B[p]
      <3>1. top # 0 => h[top].id \in B[top]
        BY <1>1, <1>2 DEF NodeIn
      <3> QED BY <1>1, <3>1
    <2>3. \A q \in M : q \in 1 .. n /\ q # 0
      BY <1>3
    <2> QED BY <1>3, <1>6, <2>1, <2>2, <2>3
  <1>8. Tree(g, n, M, B, V)
    <2>1. ASSUME NEW q \in M
          PROVE  g[q].id \in B[q] /\ g[q].id = h[q].id
      BY <1>1, <1>2, <1>3 DEF NodeIn
    <2>2. ASSUME NEW q \in M, g[q].child1 # NULL
          PROVE  /\ g[q].child1 \in M /\ V[g[q].child1] = q
                 /\ \A e \in B[g[q].child1] : e \in B[q] /\ e < g[q].id
      <3> DEFINE c == g[q].child1
      <3>1. CASE q = p
        BY <1>1, <1>3, <1>6, <2>1, <2>2, <3>1 DEF NULL
      <3>2. CASE q # p
        <4>1. c = h[q].child1 /\ c # 0 /\ c \in M /\ c # top
          BY <1>4, <2>2, <3>2 DEF NULL
        <4>2. U[c] = q /\ \A e \in B[c] : e \in B[q] /\ e < h[q].id
          BY <1>2, <1>3, <4>1 DEF NodeIn
        <4>3. V[c] = q
          BY <1>3, <1>6, <4>1, <4>2
        <4> QED BY <2>1, <4>1, <4>2, <4>3
      <3> QED BY <3>1, <3>2
    <2>3. ASSUME NEW q \in M, g[q].child2 # NULL
          PROVE  /\ g[q].child2 \in M /\ V[g[q].child2] = q
                 /\ \A e \in B[g[q].child2] : e \in B[q] /\ e > g[q].id
      <3> DEFINE c == g[q].child2
      <3>1. c = h[q].child2 /\ c # 0 /\ c \in M /\ c # top
        BY <1>1, <1>4, <1>5, <2>3 DEF NULL
      <3>2. U[c] = q /\ \A e \in B[c] : e \in B[q] /\ e > h[q].id
        BY <1>2, <1>3, <3>1 DEF NodeIn
      <3>3. V[c] = q
        BY <1>3, <1>6, <3>1, <3>2
      <3> QED BY <2>1, <3>1, <3>2, <3>3
    <2> HIDE DEF M, V
    <2> QED BY <1>3, <2>1, <2>2, <2>3 DEF Tree
  <1>9. ASSUME NEW q \in M, q # p, U[p] # q, Exact(h, q)
        PROVE  Exact(g, q)
    <2>1. g[q] = h[q] /\ NodeIn(h, n, L, B, U, q)
      BY <1>2, <1>3, <1>4, <1>9
    <2>2. \A c \in M : c # p => height(g, c) = height(h, c)
      BY <1>4 DEF height
    <2>3. height(g, 0) = height(h, 0)
      BY DEF height, NULL
    <2>4. h[q].child1 # p /\ h[q].child2 # p
      BY <1>3, <1>9, <2>1 DEF NodeIn
    <2>5. height(g, h[q].child1) = height(h, h[q].child1)
      BY <1>4, <1>9, <2>2, <2>3, <2>4
    <2>6. height(g, h[q].child2) = height(h, h[q].child2)
      BY <1>4, <1>9, <2>2, <2>3, <2>4
    <2> QED BY <1>9, <2>1, <2>5, <2>6 DEF Exact
  <1>10. \A q \in L : h[q].id \notin B[p] => q \in M
    BY <1>1
  <1> HIDE DEF M, V
  <1>11. Kept(g, h, n, D, L, M, B, U, V, p)
    BY <1>1, <1>3, <1>7, <1>8, <1>9, <1>10 DEF Kept
  <1> QED BY <1>11

\* p gets top, which was below the nodes R that are lost, as its child2.
Cut2(g, h, n, D, L, B, U, p, R, top) ==
    /\ Heap(g, n, D) /\ R \subseteq L /\ p \in L /\ p \notin R
    /\ \A q \in 1 .. n : g[q].id = h[q].id /\ g[q].data = h[q].data
    /\ \A q \in L : q \notin R /\ q # p => g[q] = h[q]
    /\ \A q \in R : U[q] \in R \cup {p} /\ h[q].id \in B[p]
    /\ Exact(g, p)
    /\ g[p].child1 = h[p].child1 /\ h[p].child1 \notin R
    /\ g[p].child2 = top
    /\ top # 0 => /\ top \in L \ R /\ U[top] \in R
                  /\ \A e \in B[top] : e \in B[p] /\ e > h[p].id

\* The others are the same forest as before.
LEMMA CutKeeps2 ==
  ASSUME NEW g, NEW h, NEW n, NEW D, NEW L, NEW B, NEW U, NEW p, NEW R, NEW top,
         Heap(h, n, D), Tree(h, n, L, B, U), Cut2(g, h, n, D, L, B, U, p, R, top)
  PROVE  \E M, V : Kept(g, h, n, D, L, M, B, U, V, p)
  <1> DEFINE M == L \ R
             V == [q \in 1 .. n |-> IF q = top THEN p ELSE U[q]]
  <1>1. /\ Heap(g, n, D) /\ R \subseteq L /\ p \in L /\ p \notin R
        /\ \A q \in 1 .. n : g[q].id = h[q].id /\ g[q].data = h[q].data
        /\ \A q \in L : q \notin R /\ q # p => g[q] = h[q]
        /\ \A q \in R : U[q] \in R \cup {p} /\ h[q].id \in B[p]
        /\ Exact(g, p)
        /\ g[p].child1 = h[p].child1 /\ h[p].child1 \notin R
        /\ g[p].child2 = top
        /\ top # 0 => /\ top \in L \ R /\ U[top] \in R
                      /\ \A e \in B[top] : e \in B[p] /\ e > h[p].id
    BY DEF Cut2
  <1>2. \A q \in L : NodeIn(h, n, L, B, U, q)
    BY NodeIs
  <1>3. L \subseteq 1 .. n /\ M \subseteq L /\ p \in M /\ p \in 1 .. n /\ p # 0
    <2>1. L \subseteq 1 .. n
      BY DEF Tree
    <2> QED BY <1>1, <2>1
  \* the children of the others stay, and have the same parents
  <1>4. ASSUME NEW q \in M, q # p
        PROVE  /\ g[q] = h[q]
               /\ h[q].child2 # 0 => h[q].child2 \in M /\ h[q].child2 # top
               /\ h[q].child1 # 0 => h[q].child1 \in M /\ h[q].child1 # top
    <2>1. q \in L /\ q \notin R /\ g[q] = h[q]
      BY <1>1, <1>4
    <2>2. NodeIn(h, n, L, B, U, q)
      BY <1>2, <2>1
    <2>3. top # 0 => U[top] # q
      BY <1>1, <2>1
    <2>4. \A c \in L : U[c] = q => c \notin R
      BY <1>1, <1>4, <2>1
    <2>5. h[q].child2 # 0 => h[q].child2 \in L /\ U[h[q].child2] = q
      BY <2>2 DEF NodeIn
    <2>6. h[q].child1 # 0 => h[q].child1 \in L /\ U[h[q].child1] = q
      BY <2>2 DEF NodeIn
    <2> QED BY <2>1, <2>3, <2>4, <2>5, <2>6
  <1>5. h[p].child1 # 0 => h[p].child1 \in M /\ h[p].child1 # top
    <2>1. h[p].child1 # 0 => h[p].child1 \in L /\ U[h[p].child1] = p
      BY <1>1, <1>2 DEF NodeIn
    <2>2. top # 0 => U[top] # p
      BY <1>1
    <2> QED BY <1>1, <2>1, <2>2
  <1>6. \A q \in 1 .. n : V[q] = IF q = top THEN p ELSE U[q]
    OBVIOUS
  <1>7. V[p] = U[p] /\ \A q \in M : h[q].id \notin B[p] => V[q] = U[q]
    <2>1. top # p
      <3>1. h[p].id \in Nat
        BY <1>1, <1>2 DEF NodeIn
      <3>2. h[p].id \in B[p]
        BY <1>1, <1>2 DEF NodeIn
      <3>3. top = p => h[p].id < h[p].id
        BY <1>1, <1>3, <3>2
      <3> QED BY <3>1, <3>3
    <2>2. top # 0 => h[top].id \in B[p]
      <3>1. top # 0 => h[top].id \in B[top]
        BY <1>1, <1>2 DEF NodeIn
      <3> QED BY <1>1, <3>1
    <2>3. \A q \in M : q \in 1 .. n /\ q # 0
      BY <1>3
    <2> QED BY <1>3, <1>6, <2>1, <2>2, <2>3
  <1>8. Tree(g, n, M, B, V)
    <2>1. ASSUME NEW q \in M
          PROVE  g[q].id \in B[q] /\ g[q].id = h[q].id
      BY <1>1, <1>2, <1>3 DEF NodeIn
    <2>2. ASSUME NEW q \in M, g[q].child2 # NULL
          PROVE  /\ g[q].child2 \in M /\ V[g[q].child2] = q
                 /\ \A e \in B[g[q].child2] : e \in B[q] /\ e > g[q].id
      <3> DEFINE c == g[q].child2
      <3>1. CASE q = p
        BY <1>1, <1>3, <1>6, <2>1, <2>2, <3>1 DEF NULL
      <3>2. CASE q # p
        <4>1. c = h[q].child2 /\ c # 0 /\ c \in M /\ c # top
          BY <1>4, <2>2, <3>2 DEF NULL
        <4>2. U[c] = q /\ \A e \in B[c] : e \in B[q] /\ e > h[q].id
          BY <1>2, <1>3, <4>1 DEF NodeIn
        <4>3. V[c] = q
          BY <1>3, <1>6, <4>1, <4>2
        <4> QED BY <2>1, <4>1, <4>2, <4>3
      <3> QED BY <3>1, <3>2
    <2>3. ASSUME NEW q \in M, g[q].child1 # NULL
          PROVE  /\ g[q].child1 \in M /\ V[g[q].child1] = q
                 /\ \A e \in B[g[q].child1] : e \in B[q] /\ e < g[q].id
      <3> DEFINE c == g[q].child1
      <3>1. c = h[q].child1 /\ c # 0 /\ c \in M /\ c # top
        BY <1>1, <1>4, <1>5, <2>3 DEF NULL
      <3>2. U[c] = q /\ \A e \in B[c] : e \in B[q] /\ e < h[q].id
        BY <1>2, <1>3, <3>1 DEF NodeIn
      <3>3. V[c] = q
        BY <1>3, <1>6, <3>1, <3>2
      <3> QED BY <2>1, <3>1, <3>2, <3>3
    <2> HIDE DEF M, V
    <2> QED BY <1>3, <2>1, <2>2, <2>3 DEF Tree
  <1>9. ASSUME NEW q \in M, q # p, U[p] # q, Exact(h, q)
        PROVE  Exact(g, q)
    <2>1. g[q] = h[q] /\ NodeIn(h, n, L, B, U, q)
      BY <1>2, <1>3, <1>4, <1>9
    <2>2. \A c \in M : c # p => height(g, c) = height(h, c)
      BY <1>4 DEF height
    <2>3. height(g, 0) = height(h, 0)
      BY DEF height, NULL
    <2>4. h[q].child2 # p /\ h[q].child1 # p
      BY <1>3, <1>9, <2>1 DEF NodeIn
    <2>5. height(g, h[q].child2) = height(h, h[q].child2)
      BY <1>4, <1>9, <2>2, <2>3, <2>4
    <2>6. height(g, h[q].child1) = height(h, h[q].child1)
      BY <1>4, <1>9, <2>2, <2>3, <2>4
    <2> QED BY <1>9, <2>1, <2>5, <2>6 DEF Exact
  <1>10. \A q \in L : h[q].id \notin B[p] => q \in M
    BY <1>1
  <1> HIDE DEF M, V
  <1>11. Kept(g, h, n, D, L, M, B, U, V, p)
    BY <1>1, <1>3, <1>7, <1>8, <1>9, <1>10 DEF Kept
  <1> QED BY <1>11

-----------------------------------------------------------------------------
(* The search tree: balance                                                *)

\* A node that is higher on the left by two is rotated, twice if its child is
\* higher on the right.
LEMMA Heavy1 ==
  ASSUME NEW h, NEW n, NEW D, NEW L, NEW B, NEW U, Heap(h, n, D),
         Tree(h, n, L, B, U), NEW p \in L, balance_factor(h, p) > 1
  PROVE  \E R, top : Cut1(balance(h, p).heap, h, n, D, L, B, U, p, R, top)
  <1> DEFINE l == h[p].child1
             lr == h[l].child2
             hl == [rotate_left(h, l) EXCEPT ![p].child1 = lr]
             h1 == IF balance_factor(h, l) < 0 THEN hl ELSE h
  <1>1. /\ p # 0 /\ p \in 1 .. n /\ n \in Nat /\ h[p].id \in Nat /\ h[p].id \in B[p]
        /\ l \in 0 .. n /\ l # p /\ h[p].child2 \in 0 .. n /\ h[p].child2 # p
    <2>1. NodeIn(h, n, L, B, U, p)
      BY NodeIs
    <2> QED BY <2>1 DEF NodeIn
  <1>2. l # 0
    <2>1. balance_factor(h, p) = height(h, l) - height(h, h[p].child2)
      BY <1>1 DEF balance_factor, NULL
    <2>2. height(h, l) \in Int /\ height(h, h[p].child2) \in Int
      BY <1>1, HeightIs
    <2>3. height(h, h[p].child2) >= -1
      BY <1>1, HeightIs
    <2>4. height(h, l) >= 0
      BY <2>1, <2>2, <2>3
    <2> QED BY <1>1, <2>4, HeightIs DEF NULL
  <1>3. /\ l \in L /\ U[l] = p /\ h[p].id \notin B[l] /\ h[p].child2 # l
        /\ \A e \in B[l] : e \in B[p] /\ e < h[p].id
        /\ h[p].child2 # 0 => U[h[p].child2] = p
    <2>1. NodeIn(h, n, L, B, U, p)
      BY NodeIs
    <2> QED BY <1>2, <2>1 DEF NodeIn
  <1>4. /\ l \in 1 .. n /\ h[l].id \in B[l] /\ h[l].child1 \in 0 .. n
        /\ lr \in 0 .. n /\ lr # l
        /\ lr # 0 => lr \in L /\ U[lr] = l /\ \A e \in B[lr] : e \in B[l]
    <2>1. NodeIn(h, n, L, B, U, l)
      BY <1>3, NodeIs
    <2> QED BY <2>1 DEF NodeIn
  <1>5. lr # p
    <2>1. lr # 0 => h[lr].id \in B[lr]
      BY <1>4 DEF Tree
    <2> QED BY <1>1, <1>3, <1>4, <2>1
  <1>6. balance(h, p).heap = rotate_right(h1, p)
    <2>1. balance_factor(h, p) = height(h, l) - height(h, h[p].child2)
      BY <1>1 DEF balance_factor, NULL
    <2>2. height(h, l) \in Int /\ height(h, h[p].child2) \in Int
      BY <1>1, HeightIs
    <2>3. balance_factor(h, p) > 1 /\ ~ (balance_factor(h, p) < -1)
      BY <2>1, <2>2
    <2> QED BY <2>3, Zenon DEF balance
  <1>7. CASE ~ (balance_factor(h, l) < 0)
    <2> DEFINE g == rotate_right(h, p)
    <2>1. balance(h, p).heap = g
      BY <1>6, <1>7
    <2>2. RotatedRight(g, h, n, D, l, p)
      BY <1>1, <1>3, <1>4, RotateRight
    <2> HIDE DEF g
    <2>3. /\ Heap(g, n, D)
          /\ \A q \in 1 .. n : /\ g[q].id = h[q].id /\ g[q].data = h[q].data
                               /\ q \notin {l, p} => g[q] = h[q]
          /\ g[p].child1 = lr /\ g[p].child2 = h[p].child2
          /\ lr \notin {l, p} /\ h[p].child2 \notin {l, p} => Exact(g, p)
      BY <2>2 DEF RotatedRight
    <2>4. L \subseteq 1 .. n
      BY DEF Tree
    <2>5. lr # 0 => \A e \in B[lr] : e \in B[p] /\ e < h[p].id
      BY <1>3, <1>4
    <2> HIDE DEF l, lr
    <2>6. Cut1(g, h, n, D, L, B, U, p, {l}, lr)
      BY <1>1, <1>3, <1>4, <1>5, <2>3, <2>4, <2>5 DEF Cut1
    <2> QED BY <2>1, <2>6
  <1>8. CASE balance_factor(h, l) < 0
    <2> DEFINE a == rotate_left(h, l)
               g == rotate_right(hl, p)
               top == h[lr].child2
    <2>1. balance(h, p).heap = g
      BY <1>6, <1>8
    <2>2. lr # 0
      <3> DEFINE b == balance_factor(h, l)
                 v == height(h, lr)
                 w == height(h, h[l].child1)
      <3>1. b = w - v
        BY <1>2 DEF balance_factor, NULL
      <3>2. v \in Int /\ w \in Int
        BY <1>4, HeightIs
      <3>3. w >= -1
        BY <1>4, HeightIs
      <3>4. v >= 0
        <4>1. b < 0
          BY <1>8, Zenon
        <4> HIDE DEF b, v, w
        <4> QED BY <4>1, <3>1, <3>2, <3>3
      <3> QED BY <1>4, <3>4, HeightIs DEF NULL
    <2>3. /\ lr \in L /\ lr \in 1 .. n /\ h[lr].id \in B[lr]
          /\ h[lr].child1 \in 0 .. n /\ top \in 0 .. n /\ top # lr
          /\ top # 0 => top \in L /\ U[top] = lr /\ \A e \in B[top] : e \in B[lr]
      <3>1. NodeIn(h, n, L, B, U, lr)
        BY <1>4, <2>2, NodeIs
      <3> QED BY <1>4, <2>2, <3>1 DEF NodeIn
    <2>4. top # p /\ top # l
      <3> HIDE DEF l, lr, top
      <3>1. top # 0 => h[top].id \in B[top]
        BY <2>3 DEF Tree
      <3>2. top # p
        BY <1>1, <1>3, <1>4, <2>2, <2>3, <3>1
      <3>3. top # l
        BY <1>2, <1>3, <1>5, <2>3, Zenon
      <3> QED BY <3>2, <3>3
    <2>5. RotatedLeft(a, h, n, D, lr, l)
      BY <1>4, <2>3, RotateLeft
    <2> HIDE DEF a, l, lr, top
    <2>6. /\ Heap(a, n, D)
          /\ \A q \in 1 .. n : /\ a[q].id = h[q].id /\ a[q].data = h[q].data
                               /\ q \notin {lr, l} => a[q] = h[q]
          /\ a[lr].child2 = top /\ a[lr].child1 = l
      BY <2>5 DEF RotatedLeft, top
    <2> DEFINE b == [a EXCEPT ![p].child1 = lr]
    <2>7. /\ Heap(b, n, D)
          /\ \A q \in 1 .. n : /\ b[q].id = h[q].id /\ b[q].data = h[q].data
                               /\ q \notin {lr, l, p} => b[q] = h[q]
          /\ b[lr].child2 = top /\ b[lr].child1 = l
          /\ b[p].child1 = lr /\ b[p].child2 = h[p].child2
      <3>1. /\ n \in Nat /\ a \in [1 .. n -> Record(n, D)] /\ a[p] \in Record(n, D)
            /\ lr \in 1 .. n /\ lr \in 0 .. n
        BY <1>1, <2>3, <2>6 DEF Heap
      <3>2. [a[p] EXCEPT !.child1 = lr] \in Record(n, D)
        BY <3>1 DEF Record
      <3>3. b = [a EXCEPT ![p] = [a[p] EXCEPT !.child1 = lr]]
        OBVIOUS
      <3>4. Heap(b, n, D)
        BY <3>1, <3>2, <3>3 DEF Heap
      <3>5. \A q \in 1 .. n : q # p => b[q] = a[q]
        BY <3>1
      <3>6. /\ b[p].child1 = lr /\ b[p].child2 = a[p].child2
            /\ b[p].id = a[p].id /\ b[p].data = a[p].data
        BY <1>1, <3>1 DEF Record
      <3>7. a[p] = h[p]
        BY <1>1, <1>3, <1>5, <2>6
      <3> HIDE DEF b
      <3> QED BY <1>1, <1>5, <2>3, <2>6, <3>4, <3>5, <3>6, <3>7
    <2>8. b = hl
      BY DEF a
    <2> HIDE DEF b, hl
    <2>9. RotatedRight(g, b, n, D, lr, p)
      <3>1. l \in 0 .. n
        BY <1>1
      <3> QED BY <1>1, <1>5, <2>3, <2>7, <2>8, <3>1, RotateRight
    <2> HIDE DEF g
    <2>10. h[p].child2 # lr
      BY <1>1, <1>3, <1>4, <2>2
    <2>11. /\ Heap(g, n, D)
           /\ \A q \in 1 .. n : /\ g[q].id = h[q].id /\ g[q].data = h[q].data
                                /\ q \notin {lr, l, p} => g[q] = h[q]
           /\ g[p].child1 = top /\ g[p].child2 = h[p].child2
           /\ Exact(g, p)
      <3>1. /\ Heap(g, n, D)
            /\ \A q \in 1 .. n : /\ g[q].id = b[q].id /\ g[q].data = b[q].data
                                 /\ q \notin {lr, p} => g[q] = b[q]
            /\ g[p].child1 = b[lr].child2 /\ g[p].child2 = b[p].child2
            /\ b[lr].child2 \notin {lr, p} /\ b[p].child2 \notin {lr, p} => Exact(g, p)
        BY <2>9 DEF RotatedRight
      <3> QED BY <1>1, <2>3, <2>4, <2>7, <2>10, <3>1
    <2>12. L \subseteq 1 .. n
      BY DEF Tree
    <2>13. top # 0 => \A e \in B[top] : e \in B[p] /\ e < h[p].id
      BY <1>3, <1>4, <2>2, <2>3
    <2>14. Cut1(g, h, n, D, L, B, U, p, {l, lr}, top)
      BY <1>1, <1>3, <1>4, <1>5, <2>2, <2>3, <2>4, <2>10, <2>11, <2>12, <2>13 DEF Cut1
    <2> QED BY <2>1, <2>14
  <1> QED BY <1>7, <1>8

\* A node that is higher on the right by two is rotated, twice if its child is
\* higher on the left.
LEMMA Heavy2 ==
  ASSUME NEW h, NEW n, NEW D, NEW L, NEW B, NEW U, Heap(h, n, D),
         Tree(h, n, L, B, U), NEW p \in L, balance_factor(h, p) < -1
  PROVE  \E R, top : Cut2(balance(h, p).heap, h, n, D, L, B, U, p, R, top)
  <1> DEFINE s == h[p].child2
             sl == h[s].child1
             hs == [rotate_right(h, s) EXCEPT ![p].child2 = sl]
             h1 == IF balance_factor(h, s) > 0 THEN hs ELSE h
  <1>1. /\ p # 0 /\ p \in 1 .. n /\ n \in Nat /\ h[p].id \in Nat /\ h[p].id \in B[p]
        /\ s \in 0 .. n /\ s # p /\ h[p].child1 \in 0 .. n /\ h[p].child1 # p
    <2>1. NodeIn(h, n, L, B, U, p)
      BY NodeIs
    <2> QED BY <2>1 DEF NodeIn
  <1>2. s # 0
    <2>1. balance_factor(h, p) = height(h, h[p].child1) - height(h, s)
      BY <1>1 DEF balance_factor, NULL
    <2>2. height(h, s) \in Int /\ height(h, h[p].child1) \in Int
      BY <1>1, HeightIs
    <2>3. height(h, h[p].child1) >= -1
      BY <1>1, HeightIs
    <2>4. height(h, s) >= 0
      BY <2>1, <2>2, <2>3
    <2> QED BY <1>1, <2>4, HeightIs DEF NULL
  <1>3. /\ s \in L /\ U[s] = p /\ h[p].id \notin B[s] /\ h[p].child1 # s
        /\ \A e \in B[s] : e \in B[p] /\ e > h[p].id
        /\ h[p].child1 # 0 => U[h[p].child1] = p
    <2>1. NodeIn(h, n, L, B, U, p)
      BY NodeIs
    <2> QED BY <1>2, <2>1 DEF NodeIn
  <1>4. /\ s \in 1 .. n /\ h[s].id \in B[s] /\ h[s].child2 \in 0 .. n
        /\ sl \in 0 .. n /\ sl # s
        /\ sl # 0 => sl \in L /\ U[sl] = s /\ \A e \in B[sl] : e \in B[s]
    <2>1. NodeIn(h, n, L, B, U, s)
      BY <1>3, NodeIs
    <2> QED BY <2>1 DEF NodeIn
  <1>5. sl # p
    <2>1. sl # 0 => h[sl].id \in B[sl]
      BY <1>4 DEF Tree
    <2> QED BY <1>1, <1>3, <1>4, <2>1
  <1>6. balance(h, p).heap = rotate_left(h1, p)
    <2>1. balance_factor(h, p) = height(h, h[p].child1) - height(h, s)
      BY <1>1 DEF balance_factor, NULL
    <2>2. height(h, s) \in Int /\ height(h, h[p].child1) \in Int
      BY <1>1, HeightIs
    <2>3. balance_factor(h, p) < -1 /\ ~ (balance_factor(h, p) > 1)
      BY <2>1, <2>2
    <2> QED BY <2>3, Zenon DEF balance
  <1>7. CASE ~ (balance_factor(h, s) > 0)
    <2> DEFINE g == rotate_left(h, p)
    <2>1. balance(h, p).heap = g
      BY <1>6, <1>7
    <2>2. RotatedLeft(g, h, n, D, s, p)
      BY <1>1, <1>3, <1>4, RotateLeft
    <2> HIDE DEF g
    <2>3. /\ Heap(g, n, D)
          /\ \A q \in 1 .. n : /\ g[q].id = h[q].id /\ g[q].data = h[q].data
                               /\ q \notin {s, p} => g[q] = h[q]
          /\ g[p].child2 = sl /\ g[p].child1 = h[p].child1
          /\ sl \notin {s, p} /\ h[p].child1 \notin {s, p} => Exact(g, p)
      BY <2>2 DEF RotatedLeft
    <2>4. L \subseteq 1 .. n
      BY DEF Tree
    <2>5. sl # 0 => \A e \in B[sl] : e \in B[p] /\ e > h[p].id
      BY <1>3, <1>4
    <2> HIDE DEF s, sl
    <2>6. Cut2(g, h, n, D, L, B, U, p, {s}, sl)
      BY <1>1, <1>3, <1>4, <1>5, <2>3, <2>4, <2>5 DEF Cut2
    <2> QED BY <2>1, <2>6
  <1>8. CASE balance_factor(h, s) > 0
    <2> DEFINE a == rotate_right(h, s)
               g == rotate_left(hs, p)
               top == h[sl].child1
    <2>1. balance(h, p).heap = g
      BY <1>6, <1>8
    <2>2. sl # 0
      <3> DEFINE b == balance_factor(h, s)
                 v == height(h, sl)
                 w == height(h, h[s].child2)
      <3>1. b = v - w
        BY <1>2 DEF balance_factor, NULL
      <3>2. v \in Int /\ w \in Int
        BY <1>4, HeightIs
      <3>3. w >= -1
        BY <1>4, HeightIs
      <3>4. v >= 0
        <4>1. b > 0
          BY <1>8, Zenon
        <4> HIDE DEF b, v, w
        <4> QED BY <4>1, <3>1, <3>2, <3>3
      <3> QED BY <1>4, <3>4, HeightIs DEF NULL
    <2>3. /\ sl \in L /\ sl \in 1 .. n /\ h[sl].id \in B[sl]
          /\ h[sl].child2 \in 0 .. n /\ top \in 0 .. n /\ top # sl
          /\ top # 0 => top \in L /\ U[top] = sl /\ \A e \in B[top] : e \in B[sl]
      <3>1. NodeIn(h, n, L, B, U, sl)
        BY <1>4, <2>2, NodeIs
      <3> QED BY <1>4, <2>2, <3>1 DEF NodeIn
    <2>4. top # p /\ top # s
      <3> HIDE DEF s, sl, top
      <3>1. top # 0 => h[top].id \in B[top]
        BY <2>3 DEF Tree
      <3>2. top # p
        BY <1>1, <1>3, <1>4, <2>2, <2>3, <3>1
      <3>3. top # s
        BY <1>2, <1>3, <1>5, <2>3, Zenon
      <3> QED BY <3>2, <3>3
    <2>5. RotatedRight(a, h, n, D, sl, s)
      BY <1>4, <2>3, RotateRight
    <2> HIDE DEF a, s, sl, top
    <2>6. /\ Heap(a, n, D)
          /\ \A q \in 1 .. n : /\ a[q].id = h[q].id /\ a[q].data = h[q].data
                               /\ q \notin {sl, s} => a[q] = h[q]
          /\ a[sl].child1 = top /\ a[sl].child2 = s
      BY <2>5 DEF RotatedRight, top
    <2> DEFINE b == [a EXCEPT ![p].child2 = sl]
    <2>7. /\ Heap(b, n, D)
          /\ \A q \in 1 .. n : /\ b[q].id = h[q].id /\ b[q].data = h[q].data
                               /\ q \notin {sl, s, p} => b[q] = h[q]
          /\ b[sl].child1 = top /\ b[sl].child2 = s
          /\ b[p].child2 = sl /\ b[p].child1 = h[p].child1
      <3>1. /\ n \in Nat /\ a \in [1 .. n -> Record(n, D)] /\ a[p] \in Record(n, D)
            /\ sl \in 1 .. n /\ sl \in 0 .. n
        BY <1>1, <2>3, <2>6 DEF Heap
      <3>2. [a[p] EXCEPT !.child2 = sl] \in Record(n, D)
        BY <3>1 DEF Record
      <3>3. b = [a EXCEPT ![p] = [a[p] EXCEPT !.child2 = sl]]
        OBVIOUS
      <3>4. Heap(b, n, D)
        BY <3>1, <3>2, <3>3 DEF Heap
      <3>5. \A q \in 1 .. n : q # p => b[q] = a[q]
        BY <3>1
      <3>6. /\ b[p].child2 = sl /\ b[p].child1 = a[p].child1
            /\ b[p].id = a[p].id /\ b[p].data = a[p].data
        BY <1>1, <3>1 DEF Record
      <3>7. a[p] = h[p]
        BY <1>1, <1>3, <1>5, <2>6
      <3> HIDE DEF b
      <3> QED BY <1>1, <1>5, <2>3, <2>6, <3>4, <3>5, <3>6, <3>7
    <2>8. b = hs
      BY DEF a
    <2> HIDE DEF b, hs
    <2>9. RotatedLeft(g, b, n, D, sl, p)
      <3>1. s \in 0 .. n
        BY <1>1
      <3> QED BY <1>1, <1>5, <2>3, <2>7, <2>8, <3>1, RotateLeft
    <2> HIDE DEF g
    <2>10. h[p].child1 # sl
      BY <1>1, <1>3, <1>4, <2>2
    <2>11. /\ Heap(g, n, D)
           /\ \A q \in 1 .. n : /\ g[q].id = h[q].id /\ g[q].data = h[q].data
                                /\ q \notin {sl, s, p} => g[q] = h[q]
           /\ g[p].child2 = top /\ g[p].child1 = h[p].child1
           /\ Exact(g, p)
      <3>1. /\ Heap(g, n, D)
            /\ \A q \in 1 .. n : /\ g[q].id = b[q].id /\ g[q].data = b[q].data
                                 /\ q \notin {sl, p} => g[q] = b[q]
            /\ g[p].child2 = b[sl].child1 /\ g[p].child1 = b[p].child1
            /\ b[sl].child1 \notin {sl, p} /\ b[p].child1 \notin {sl, p} => Exact(g, p)
        BY <2>9 DEF RotatedLeft
      <3> QED BY <1>1, <2>3, <2>4, <2>7, <2>10, <3>1
    <2>12. L \subseteq 1 .. n
      BY DEF Tree
    <2>13. top # 0 => \A e \in B[top] : e \in B[p] /\ e > h[p].id
      BY <1>3, <1>4, <2>2, <2>3
    <2>14. Cut2(g, h, n, D, L, B, U, p, {s, sl}, top)
      BY <1>1, <1>3, <1>4, <1>5, <2>2, <2>3, <2>4, <2>10, <2>11, <2>12, <2>13 DEF Cut2
    <2> QED BY <2>1, <2>14
  <1> QED BY <1>7, <1>8

\* balance leaves the same forest, with some nodes less, and heights as right
\* as they were.
LEMMA BalanceKeeps ==
  ASSUME NEW h, NEW n, NEW D, NEW L, NEW B, NEW U, Heap(h, n, D),
         Tree(h, n, L, B, U), NEW p \in L, Exact(h, p)
  PROVE  \E M, V : Kept(balance(h, p).heap, h, n, D, L, M, B, U, V, p)
  <1>1. CASE balance_factor(h, p) > 1
    BY <1>1, Heavy1, CutKeeps1
  <1>2. CASE balance_factor(h, p) < -1
    BY <1>2, Heavy2, CutKeeps2
  <1>3. CASE ~ (balance_factor(h, p) > 1) /\ ~ (balance_factor(h, p) < -1)
    <2>1. balance(h, p).heap = h
      BY <1>3, Zenon DEF balance
    <2>2. Kept(h, h, n, D, L, L, B, U, U, p)
      BY DEF Kept
    <2> QED BY <2>1, <2>2
  <1> QED BY <1>1, <1>2, <1>3

\* From h to g the pointer of p to a child that is no leaf changes.
Turns(g, h, p) ==
    \/ /\ h[p].child1 # 0 /\ height(h, h[p].child1) >= 1
       /\ g[p].child1 # h[p].child1
    \/ /\ h[p].child2 # 0 /\ height(h, h[p].child2) >= 1
       /\ g[p].child2 # h[p].child2

\* balance leaves the heap as it is or turns p, and nothing but what is below p
\* changes.
LEMMA BalanceTurns ==
  ASSUME NEW h, NEW n, NEW D, NEW L, NEW B, NEW U, Heap(h, n, D),
         Tree(h, n, L, B, U), NEW p \in L
  PROVE  /\ balance(h, p).heap = h \/ Turns(balance(h, p).heap, h, p)
         /\ \A q \in L : h[q].id \notin B[p] => balance(h, p).heap[q] = h[q]
  <1> DEFINE g == balance(h, p).heap
             l == h[p].child1
             r == h[p].child2
  <1>1. /\ p # 0 /\ l \in 0 .. n /\ r \in 0 .. n /\ h[p].id \in B[p]
        /\ l # 0 => U[l] = p
        /\ r # 0 => U[r] = p
    <2>1. NodeIn(h, n, L, B, U, p)
      BY NodeIs
    <2> QED BY <2>1 DEF NodeIn
  <1>2. balance_factor(h, p) = height(h, l) - height(h, r)
    BY <1>1 DEF balance_factor, NULL
  <1>3. /\ height(h, l) \in Int /\ height(h, l) >= -1
        /\ height(h, r) \in Int /\ height(h, r) >= -1
        /\ height(h, l) >= 0 => l # 0
        /\ height(h, r) >= 0 => r # 0
    BY <1>1, HeightIs DEF NULL
  <1> HIDE DEF g
  <1>4. CASE balance_factor(h, p) > 1
    <2>1. PICK R, top : Cut1(g, h, n, D, L, B, U, p, R, top)
      BY <1>4, Heavy1 DEF g
    <2>2. /\ p \notin R /\ g[p].child1 = top /\ (top # 0 => U[top] \in R)
          /\ \A q \in L : q \notin R /\ q # p => g[q] = h[q]
          /\ \A q \in R : h[q].id \in B[p]
      BY <2>1 DEF Cut1
    <2>3. l # 0 /\ height(h, l) >= 1
      <3> HIDE DEF l, r
      <3> QED BY <1>2, <1>3, <1>4
    <2>4. Turns(g, h, p)
      BY <1>1, <2>2, <2>3 DEF Turns
    <2> QED BY <1>1, <2>2, <2>4 DEF g
  <1>5. CASE balance_factor(h, p) < -1
    <2>1. PICK R, top : Cut2(g, h, n, D, L, B, U, p, R, top)
      BY <1>5, Heavy2 DEF g
    <2>2. /\ p \notin R /\ g[p].child2 = top /\ (top # 0 => U[top] \in R)
          /\ \A q \in L : q \notin R /\ q # p => g[q] = h[q]
          /\ \A q \in R : h[q].id \in B[p]
      BY <2>1 DEF Cut2
    <2>3. r # 0 /\ height(h, r) >= 1
      <3> HIDE DEF l, r
      <3> QED BY <1>2, <1>3, <1>5
    <2>4. Turns(g, h, p)
      BY <1>1, <2>2, <2>3 DEF Turns
    <2> QED BY <1>1, <2>2, <2>4 DEF g
  <1>6. CASE ~ (balance_factor(h, p) > 1) /\ ~ (balance_factor(h, p) < -1)
    <2>1. g = h
      BY <1>6, Zenon DEF balance, g
    <2> QED BY <2>1 DEF g
  <1> QED BY <1>4, <1>5, <1>6

-----------------------------------------------------------------------------
(* The search tree: the way back of an insertion                           *)

\* What f has after every ancestor that was settled, the last one first.
Settles(f, h, up) ==
    /\ f[0] = h
    /\ \A k \in 1 .. Len(up) :
          f[k] = balance(update_height(f[k - 1], up[Len(up) + 1 - k]),
                         up[Len(up) + 1 - k]).heap

\* settle does with the ancestors what balance does with one after the other.
LEMMA SettleIs ==
  ASSUME NEW h, NEW up \in Seq(Nat), NEW f, Settles(f, h, up)
  PROVE  settle(h, up) = f[Len(up)]
  <1>0. Len(up) \in Nat
    OBVIOUS
  <1> DEFINE n == Len(up)
             S == 0 .. n
             to(k) == up[n + 1 - k]
             body(g, k) == IF k = 0 THEN h
                           ELSE balance(update_height(g[k - 1], to(k)), to(k)).heap
             value == CHOOSE g : g = [k \in S |-> body(g, k)]
  <1>1. n \in Nat
    BY <1>0
  <1>2. settle(h, up) = value[n]
    BY DEF settle
  <1>3. f[0] = h /\ \A k \in 1 .. n : f[k] = balance(update_height(f[k - 1], to(k)), to(k)).heap
    BY DEF Settles
  <1> HIDE DEF n, to
  <1>4. \A k \in S : f[k] = body(f, k)
    <2> SUFFICES ASSUME NEW k \in S PROVE f[k] = body(f, k)
      OBVIOUS
    <2>1. k = 0 \/ k \in 1 .. n
      BY <1>1
    <2> QED BY <1>3, <2>1
  <1>5. value = [k \in S |-> body(value, k)]
    <2> DEFINE e == [k \in S |-> f[k]]
    <2>1. \A k \in S : e[k] = body(e, k)
      <3> SUFFICES ASSUME NEW k \in S PROVE e[k] = body(e, k)
        OBVIOUS
      <3>1. k # 0 => k - 1 \in S
        BY <1>1
      <3>2. e[k] = f[k] /\ (k # 0 => e[k - 1] = f[k - 1])
        BY <3>1
      <3> HIDE DEF e
      <3> QED BY <1>4, <3>2
    <2> HIDE DEF body
    <2>2. e = [k \in S |-> body(e, k)]
      BY <2>1
    <2> HIDE DEF e
    <2> QED BY <2>2
  <1> HIDE DEF value
  <1>6. \A k \in S : value[k] = body(value, k)
    <2> HIDE DEF body
    <2> QED BY <1>5
  <1> DEFINE T == {k \in S : value[k] = f[k]}
  <1>7. \A k \in 0 .. n : k \in T
    <2>1. 0 \in T
      <3>1. 0 \in S
        BY <1>1
      <3>2. value[0] = f[0]
        <4>1. value[0] = body(value, 0) /\ f[0] = body(f, 0)
          BY <3>1, <1>4, <1>6
        <4> QED BY <4>1
      <3> QED BY <3>1, <3>2
    <2>2. ASSUME NEW k \in 0 .. n - 1, k \in T
          PROVE  k + 1 \in T
      <3>1. k + 1 \in S /\ k + 1 # 0 /\ (k + 1) - 1 = k /\ value[k] = f[k]
        BY <1>1, <2>2
      <3> QED BY <1>4, <1>6, <3>1
    <2> HIDE DEF T
    <2> QED BY <1>1, <2>1, <2>2, UpTo
  <1>8. n \in 0 .. n
    BY <1>1
  <1> QED BY <1>2, <1>7, <1>8 DEF n

\* The nodes up on a way down from r, each the parent of the next one.
Chain(h, L, B, U, r, up) ==
    /\ up \in Seq(L)
    /\ Len(up) >= 1 => up[1] = r
    /\ \A j \in 1 .. Len(up) : j >= 2 => U[up[j]] = up[j - 1]
    /\ \A i, j \in 1 .. Len(up) : i < j => h[up[i]].id \notin B[up[j]]

\* The heap g when the ancestors after the first m are settled.
Climbing(g, h, n, D, L, M, B, V, r, up, m) ==
    /\ Heap(g, n, D) /\ Tree(g, n, M, B, V) /\ M \subseteq L
    /\ r \in M /\ V[r] = 0
    /\ \A q \in 1 .. n : g[q].id = h[q].id /\ g[q].data = h[q].data
    /\ \A j \in 1 .. m : up[j] \in M /\ (j >= 2 => V[up[j]] = up[j - 1])
    /\ \A q \in M : Exact(g, q) \/ \E i \in 1 .. m : up[i] = q

\* One ancestor more is measured and balanced.
LEMMA ClimbStep ==
  ASSUME NEW g, NEW h, NEW n, NEW D, NEW L, NEW M, NEW B, NEW U, NEW V, NEW r,
         NEW up, NEW m \in 1 .. Len(up), Chain(h, L, B, U, r, up),
         Climbing(g, h, n, D, L, M, B, V, r, up, m)
  PROVE  \E M2, V2 :
            Climbing(balance(update_height(g, up[m]), up[m]).heap,
                     h, n, D, L, M2, B, V2, r, up, m - 1)
  <1> DEFINE p == up[m]
             g1 == update_height(g, p)
             g2 == balance(g1, p).heap
  <1>1. /\ Heap(g, n, D) /\ Tree(g, n, M, B, V) /\ M \subseteq L
        /\ r \in M /\ V[r] = 0
        /\ \A q \in 1 .. n : g[q].id = h[q].id /\ g[q].data = h[q].data
        /\ \A j \in 1 .. m : up[j] \in M /\ (j >= 2 => V[up[j]] = up[j - 1])
        /\ \A q \in M : Exact(g, q) \/ \E i \in 1 .. m : up[i] = q
    BY DEF Climbing
  <1>2. /\ Len(up) \in Nat /\ m \in Nat /\ m >= 1 /\ m <= Len(up) /\ up[1] = r
        /\ \A i \in 1 .. m : i < m => h[up[i]].id \notin B[p]
    <2>1. up \in Seq(L)
      BY DEF Chain
    <2>2. Len(up) \in Nat
      BY <2>1
    <2>3. m \in Nat /\ m >= 1 /\ m <= Len(up) /\ 1 .. m \subseteq 1 .. Len(up)
      BY <2>2
    <2> QED BY <2>2, <2>3 DEF Chain
  <1>3. p \in M /\ M \subseteq 1 .. n /\ n \in Nat
    <2>1. m \in 1 .. m
      BY <1>2
    <2>2. M \subseteq 1 .. n /\ n \in Nat
      BY <1>1 DEF Tree, Heap
    <2> QED BY <1>1, <2>1, <2>2
  <1> HIDE DEF p
  <1>4. Kept(g1, g, n, D, M, M, B, V, V, p)
    BY <1>1, <1>3, MeasureKeeps
  <1> HIDE DEF g1
  <1>5. Heap(g1, n, D) /\ Tree(g1, n, M, B, V) /\ Exact(g1, p)
    BY <1>4 DEF Kept
  <1>6. PICK M2, V2 : Kept(g2, g1, n, D, M, M2, B, V, V2, p)
    BY <1>3, <1>5, BalanceKeeps
  <1> HIDE DEF g2
  <1>7. /\ \A q \in 1 .. n : g1[q].id = g[q].id /\ g1[q].data = g[q].data
        /\ \A q \in M : q # p /\ V[p] # q /\ Exact(g, q) => Exact(g1, q)
    BY <1>4 DEF Kept
  <1>8. /\ Heap(g2, n, D) /\ Tree(g2, n, M2, B, V2) /\ M2 \subseteq M /\ p \in M2
        /\ \A q \in 1 .. n : g2[q].id = g1[q].id /\ g2[q].data = g1[q].data
        /\ \A q \in M : g1[q].id \notin B[p] => q \in M2
        /\ V2[p] = V[p] /\ \A q \in M2 : g1[q].id \notin B[p] => V2[q] = V[q]
        /\ Exact(g2, p)
        /\ \A q \in M2 : q # p /\ V[p] # q /\ Exact(g1, q) => Exact(g2, q)
    BY <1>6 DEF Kept
  <1>9. \A q \in 1 .. n : g2[q].id = h[q].id /\ g2[q].data = h[q].data
    BY <1>1, <1>7, <1>8
  <1>10. \A j \in 1 .. m - 1 :
            up[j] \in M2 /\ V2[up[j]] = V[up[j]] /\ j \in 1 .. m
    <2> SUFFICES ASSUME NEW j \in 1 .. m - 1
                 PROVE  up[j] \in M2 /\ V2[up[j]] = V[up[j]] /\ j \in 1 .. m
      OBVIOUS
    <2>1. j \in 1 .. m /\ j < m
      BY <1>2
    <2>2. up[j] \in M /\ h[up[j]].id \notin B[p]
      BY <1>1, <1>2, <2>1
    <2>3. g1[up[j]].id \notin B[p]
      BY <1>1, <1>3, <1>7, <2>2
    <2> QED BY <1>8, <2>1, <2>2, <2>3
  <1>11. r \in M2 /\ V2[r] = 0
    <2>1. CASE m = 1
      BY <1>1, <1>2, <1>8, <2>1 DEF p
    <2>2. CASE m # 1
      <3>1. 1 \in 1 .. m - 1
        BY <1>2, <2>2
      <3> QED BY <1>1, <1>2, <1>10, <3>1
    <2> QED BY <2>1, <2>2
  <1>12. ASSUME NEW q \in M2
         PROVE  Exact(g2, q) \/ \E i \in 1 .. m - 1 : up[i] = q
    <2>1. CASE q = p
      BY <1>8, <2>1
    <2>2. CASE q # p /\ V[p] = q
      <3>1. q # 0
        BY <1>3, <1>8
      <3>2. m # 1
        BY <1>1, <1>2, <2>2, <3>1 DEF p
      <3>3. m >= 2 /\ m - 1 \in 1 .. m - 1 /\ m \in 1 .. m
        BY <1>2, <3>2
      <3> QED BY <1>1, <2>2, <3>3 DEF p
    <2>3. CASE q # p /\ V[p] # q
      <3>1. CASE Exact(g, q)
        BY <1>7, <1>8, <2>3, <3>1
      <3>2. CASE \E i \in 1 .. m : up[i] = q
        <4>1. PICK i \in 1 .. m : up[i] = q
          BY <3>2
        <4>2. i # m
          BY <2>3, <4>1 DEF p
        <4>3. i \in 1 .. m - 1
          BY <1>2, <4>2
        <4> QED BY <4>1, <4>3
      <3> QED BY <1>1, <1>8, <3>1, <3>2
    <2> QED BY <2>1, <2>2, <2>3
  <1>13. Climbing(g2, h, n, D, L, M2, B, V2, r, up, m - 1)
    BY <1>1, <1>8, <1>9, <1>10, <1>11, <1>12 DEF Climbing
  <1> QED BY <1>13 DEF g2, g1, p

\* g has the pointers of h.
SamePointers(g, h, n) ==
    \A q \in 1 .. n : g[q].child1 = h[q].child1 /\ g[q].child2 = h[q].child2

\* A pointer of h to a node that is not z is another one in g.
Turned(g, h, n, z) ==
    \E q \in 1 .. n :
        \/ h[q].child1 \notin {0, z} /\ g[q].child1 # h[q].child1
        \/ h[q].child2 \notin {0, z} /\ g[q].child2 # h[q].child2

\* What the pointers of the heap g are when the ancestors after the first m are
\* settled.
Shaped(g, h, n, z, up, m) ==
    /\ SamePointers(g, h, n) \/ Turned(g, h, n, z)
    /\ \A j \in 1 .. m : /\ g[up[j]].child1 = h[up[j]].child1
                         /\ g[up[j]].child2 = h[up[j]].child2
    /\ m = Len(up) => g = h

\* z is no node, or a leaf below the last ancestor.
Leaf(h, U, z, up) == z # 0 => h[z].height = 0 /\ U[z] = up[Len(up)]

\* An ancestor that is rotated has still got its pointers when it is.
LEMMA ClimbShape ==
  ASSUME NEW g, NEW h, NEW n, NEW D, NEW L, NEW M, NEW B, NEW U, NEW V, NEW r,
         NEW up, NEW m \in 1 .. Len(up), Chain(h, L, B, U, r, up),
         Climbing(g, h, n, D, L, M, B, V, r, up, m),
         Heap(h, n, D), Tree(h, n, L, B, U), NEW z, Leaf(h, U, z, up),
         Shaped(g, h, n, z, up, m)
  PROVE  Shaped(balance(update_height(g, up[m]), up[m]).heap, h, n, z, up, m - 1)
  <1> DEFINE p == up[m]
             N == Len(up)
             g1 == update_height(g, p)
             g2 == balance(g1, p).heap
  <1>1. /\ Heap(g, n, D) /\ Tree(g, n, M, B, V) /\ M \subseteq L
        /\ \A q \in 1 .. n : g[q].id = h[q].id
        /\ \A j \in 1 .. m : up[j] \in M
    BY DEF Climbing
  <1>2. /\ N \in Nat /\ m \in Nat /\ m >= 1 /\ m <= N /\ N \in 1 .. N
        /\ \A i \in 1 .. N : up[i] \in L
        /\ \A i, j \in 1 .. N : i < j => h[up[i]].id \notin B[up[j]]
        /\ 1 .. m \subseteq 1 .. N /\ m \in 1 .. m
    <2>1. up \in Seq(L)
      BY DEF Chain
    <2>2. N \in Nat /\ \A i \in 1 .. N : up[i] \in L
      BY <2>1
    <2>3. \A i, j \in 1 .. N : i < j => h[up[i]].id \notin B[up[j]]
      BY DEF Chain
    <2>4. m \in Nat /\ m >= 1 /\ m <= N /\ N \in 1 .. N
      BY <2>2
    <2>5. 1 .. m \subseteq 1 .. N /\ m \in 1 .. m
      BY <2>2, <2>4
    <2> QED BY <2>2, <2>3, <2>4, <2>5
  <1>3. p \in M /\ M \subseteq 1 .. n /\ p \in 1 .. n /\ p \in L /\ n \in Nat
    <2>1. M \subseteq 1 .. n /\ n \in Nat
      BY <1>1 DEF Tree, Heap
    <2> QED BY <1>1, <1>2, <2>1
  <1>4. /\ g[p].child1 = h[p].child1 /\ g[p].child2 = h[p].child2
        /\ m = N => g = h
    BY <1>2 DEF Shaped
  <1>5. NodeIn(g, n, M, B, V, p) /\ NodeIn(h, n, L, B, U, p)
    BY <1>1, <1>3, NodeIs
  <1> HIDE DEF p, N
  <1>6. Remeasured(g1, g, n, D, p)
    BY <1>1, <1>3, <1>5, UpdateHeight DEF NodeIn
  <1>7. Kept(g1, g, n, D, M, M, B, V, V, p)
    BY <1>1, <1>3, MeasureKeeps
  <1> HIDE DEF g1
  <1>8. /\ Heap(g1, n, D) /\ Tree(g1, n, M, B, V)
        /\ \A q \in 1 .. n : /\ g1[q].id = g[q].id
                             /\ g1[q].child1 = g[q].child1
                             /\ g1[q].child2 = g[q].child2
                             /\ q # p => g1[q] = g[q]
    BY <1>6, <1>7 DEF Remeasured, Kept
  <1>9. /\ g2 = g1 \/ Turns(g2, g1, p)
        /\ \A q \in M : g1[q].id \notin B[p] => g2[q] = g1[q]
    BY <1>3, <1>8, BalanceTurns
  <1> HIDE DEF g2
  <1>10. ASSUME NEW j \in 1 .. m - 1
         PROVE  /\ g2[up[j]].child1 = h[up[j]].child1
                /\ g2[up[j]].child2 = h[up[j]].child2
    <2>1. j \in 1 .. m /\ j \in 1 .. N /\ m \in 1 .. N /\ j < m
      BY <1>2
    <2>2. up[j] \in M /\ up[j] \in 1 .. n /\ h[up[j]].id \notin B[p]
      BY <1>1, <1>2, <1>3, <2>1 DEF p
    <2>3. g2[up[j]] = g1[up[j]]
      BY <1>1, <1>8, <1>9, <2>2
    <2>4. /\ g[up[j]].child1 = h[up[j]].child1
          /\ g[up[j]].child2 = h[up[j]].child2
      BY <2>1 DEF Shaped
    <2> QED BY <1>8, <2>2, <2>3, <2>4
  <1>11. SamePointers(g2, h, n) \/ Turned(g2, h, n, z)
    <2>1. CASE g2 = g1
      <3>1. SamePointers(g, h, n) \/ Turned(g, h, n, z)
        BY DEF Shaped
      <3> QED BY <1>8, <2>1, <3>1 DEF SamePointers, Turned
    <2>2. CASE Turns(g2, g1, p)
      \* z is not the child that is turned
      <3>1. ASSUME NEW c \in 1 .. n, U[c] = p, c # p, height(g1, c) >= 1
            PROVE  c # z
        <4> SUFFICES ASSUME c = z PROVE FALSE
          OBVIOUS
        <4>1. h[c].height = 0 /\ U[c] = up[N]
          <5>1. z # 0
            BY <1>3
          <5> QED BY <5>1 DEF Leaf, N
        <4>2. CASE m = N
          <5>1. g1[c] = h[c] /\ c # 0
            BY <1>3, <1>4, <1>8, <3>1, <4>2
          <5>2. height(g1, c) = 0
            BY <4>1, <5>1 DEF height, NULL
          <5> QED BY <3>1, <5>2
        <4>3. CASE m # N
          <5>1. m < N /\ m \in 1 .. N
            BY <1>2, <4>3
          <5>2. up[N] \in L /\ h[up[m]].id \notin B[up[N]]
            BY <1>2, <5>1
          <5>3. h[up[N]].id \in B[up[N]]
            BY <5>2 DEF Tree
          <5> QED BY <3>1, <4>1, <5>2, <5>3 DEF p
        <4> QED BY <4>2, <4>3
      <3>2. \A c \in 0 .. n : c # 0 => c \in 1 .. n
        BY <1>3
      <3>3. /\ h[p].child1 # 0 /\ height(g1, h[p].child1) >= 1 => h[p].child1 # z
            /\ h[p].child2 # 0 /\ height(g1, h[p].child2) >= 1 => h[p].child2 # z
        BY <1>5, <3>1, <3>2 DEF NodeIn
      <3>4. g1[p].child1 = h[p].child1 /\ g1[p].child2 = h[p].child2
        BY <1>3, <1>4, <1>8
      <3>5. \/ h[p].child1 \notin {0, z} /\ g2[p].child1 # h[p].child1
            \/ h[p].child2 \notin {0, z} /\ g2[p].child2 # h[p].child2
        BY <2>2, <3>3, <3>4 DEF Turns
      <3>6. CASE h[p].child1 \notin {0, z} /\ g2[p].child1 # h[p].child1
        BY <1>3, <3>6, Zenon DEF Turned
      <3>7. CASE h[p].child2 \notin {0, z} /\ g2[p].child2 # h[p].child2
        BY <1>3, <3>7, Zenon DEF Turned
      <3> QED BY <3>5, <3>6, <3>7
    <2> QED BY <1>9, <2>1, <2>2
  <1>12. m - 1 # Len(up)
    BY <1>2 DEF N
  <1> QED BY <1>10, <1>11, <1>12 DEF Shaped, g2, g1, p

\* After the whole way back the nodes that are left are a tree, and measured,
\* and without a rotation the pointers are what they were.
LEMMA SettleKeeps ==
  ASSUME NEW h, NEW n, NEW D, NEW L, NEW B, NEW U, NEW r, NEW up,
         Heap(h, n, D), Tree(h, n, L, B, U), r \in L, U[r] = 0,
         Chain(h, L, B, U, r, up),
         \A q \in L : Exact(h, q) \/ \E i \in 1 .. Len(up) : up[i] = q,
         NEW z, Leaf(h, U, z, up)
  PROVE  /\ \E M, V : Climbing(settle(h, up), h, n, D, L, M, B, V, r, up, 0)
         /\ Shaped(settle(h, up), h, n, z, up, 0)
  <1>1. up \in Seq(L) /\ L \subseteq 1 .. n /\ n \in Nat
    BY DEF Chain, Tree, Heap
  <1>2. Len(up) \in Nat /\ up \in Seq(Nat)
    <2>1. Len(up) \in Nat
      BY <1>1
    <2>2. \A i \in 1 .. Len(up) : up[i] \in Nat
      <3> SUFFICES ASSUME NEW i \in 1 .. Len(up) PROVE up[i] \in Nat
        OBVIOUS
      <3>1. up[i] \in L
        BY <1>1
      <3>2. \A j \in L : j \in Nat
        BY <1>1
      <3> QED BY <3>1, <3>2
    <2>3. up = [i \in 1 .. Len(up) |-> up[i]]
      BY <1>1
    <2> QED BY <2>1, <2>2, <2>3
  <1> DEFINE N == Len(up)
             S == [1 .. n -> Record(n, D)]
             next1(x, p) == balance(update_height(x, p), p).heap
             a == [y \in Nat \X S |->
                      IF next1(y[2], up[N + 1 - y[1]]) \in S
                      THEN next1(y[2], up[N + 1 - y[1]]) ELSE h]
             Climbs(x, m) == /\ \E M, V : Climbing(x, h, n, D, L, M, B, V, r, up, m)
                             /\ Shaped(x, h, n, z, up, m)
  <1>3. N \in Nat
    BY <1>2
  <1>4. h \in S
    BY DEF Heap
  <1>5. PICK f \in [0 .. N -> S] : Iterates(f, h, a, N)
    <2>1. a \in [Nat \X S -> S]
      <3> HIDE DEF S, next1, N
      <3> QED BY <1>4
    <2> HIDE DEF S, a, N
    <2> QED BY <1>3, <1>4, <2>1, LoopRuns
  <1>6. f[0] = h /\ \A k \in 1 .. N : f[k] = a[<<k, f[k - 1]>>]
    BY <1>5 DEF Iterates
  <1>7. Climbs(h, N)
    <2>1. \A j \in 1 .. N : up[j] \in L /\ (j >= 2 => U[up[j]] = up[j - 1])
      BY <1>1 DEF Chain
    <2>2. Climbing(h, h, n, D, L, L, B, U, r, up, N)
      BY <2>1 DEF Climbing
    <2>3. Shaped(h, h, n, z, up, N)
      BY DEF Shaped, SamePointers
    <2> QED BY <2>2, <2>3
  <1>8. ASSUME NEW x, NEW m \in 1 .. N, Climbs(x, m)
        PROVE  Climbs(next1(x, up[m]), m - 1) /\ next1(x, up[m]) \in S
    <2>1. PICK M, V : Climbing(x, h, n, D, L, M, B, V, r, up, m)
      BY <1>8
    <2>2. \E M2, V2 : Climbing(next1(x, up[m]), h, n, D, L, M2, B, V2, r, up, m - 1)
      BY <2>1, ClimbStep
    <2>3. Shaped(next1(x, up[m]), h, n, z, up, m - 1)
      BY <1>8, <2>1, ClimbShape
    <2> HIDE DEF next1
    <2> QED BY <2>2, <2>3 DEF Climbing, Heap
  <1> HIDE DEF Climbs
  <1> DEFINE T == {k \in 0 .. N : /\ Climbs(f[k], N - k)
                                  /\ k # 0 => f[k] = next1(f[k - 1], up[N + 1 - k])}
  <1>9. \A k \in 0 .. N : k \in T
    <2>1. 0 \in T
      <3>1. N - 0 = N /\ 0 \in 0 .. N
        BY <1>3
      <3> HIDE DEF N, next1
      <3> QED BY <1>6, <1>7, <3>1
    <2>2. ASSUME NEW k \in 0 .. N - 1, k \in T
          PROVE  k + 1 \in T
      <3> HIDE DEF N, S, next1
      <3> DEFINE m == N - k
      <3>1. /\ k \in Nat /\ m \in 1 .. N /\ k + 1 \in 1 .. N /\ (k + 1) - 1 = k
            /\ k + 1 \in 0 .. N /\ N - (k + 1) = m - 1 /\ N + 1 - (k + 1) = m
            /\ k \in 0 .. N
        BY <1>3
      <3>2. f[k] \in S
        BY <1>5, <3>1
      <3>3. Climbs(f[k], m)
        BY <2>2
      <3> HIDE DEF m
      <3>4. Climbs(next1(f[k], up[m]), m - 1) /\ next1(f[k], up[m]) \in S
        BY <1>8, <3>1, <3>3
      <3>5. a[<<k + 1, f[k]>>] = next1(f[k], up[m])
        BY <3>1, <3>2, <3>4
      <3>6. f[k + 1] = a[<<k + 1, f[(k + 1) - 1]>>]
        BY <1>6, <3>1
      <3> HIDE DEF a
      <3>7. f[k + 1] = next1(f[k], up[m])
        BY <3>1, <3>5, <3>6
      <3> QED BY <3>1, <3>4, <3>7
    <2> HIDE DEF T, N
    <2> QED BY <1>3, <2>1, <2>2, UpTo
  <1>10. Settles(f, h, up)
    <2> SUFFICES ASSUME NEW k \in 1 .. N
                 PROVE  f[k] = next1(f[k - 1], up[N + 1 - k])
      BY <1>6 DEF Settles
    <2>1. k \in 0 .. N /\ k # 0
      BY <1>3
    <2> HIDE DEF N, next1
    <2> QED BY <1>9, <2>1
  <1>11. settle(h, up) = f[N]
    BY <1>2, <1>10, SettleIs
  <1>12. Climbs(f[N], 0)
    <2>1. N \in 0 .. N /\ N - N = 0
      BY <1>3
    <2> HIDE DEF N, next1
    <2> QED BY <1>9, <2>1
  <1> HIDE DEF N
  <1> QED BY <1>11, <1>12 DEF Climbs

-----------------------------------------------------------------------------
(* The search tree: the way of a search                                    *)

\* The way from r down towards id i, as a search goes.
Search(h, L, B, U, r, i, s) ==
    /\ Chain(h, L, B, U, r, s)
    /\ \A j \in 1 .. Len(s) : j < Len(s) =>
          h[s[j]].id # i /\ s[j + 1] = next(h, s[j], i)

\* The child the search goes on to.
NextIn(h, n, L, B, U, q, i, c) ==
    /\ c \in 0 .. n
    /\ c # 0 => /\ c \in L /\ U[c] = q /\ h[q].id # i
                /\ h[q].id \notin B[c] /\ \A e \in B[c] : e \in B[q]

\* next follows the pointer behind which id i is, if it is in the tree.
LEMMA NextIs ==
  ASSUME NEW h, NEW n, NEW D, NEW L, NEW B, NEW U, NEW i, Heap(h, n, D),
         Tree(h, n, L, B, U), NEW q \in L
  PROVE  NextIn(h, n, L, B, U, q, i, next(h, q, i))
  <1>1. NodeIn(h, n, L, B, U, q)
    BY NodeIs
  <1>2. 0 \in 0 .. n
    BY <1>1 DEF NodeIn
  <1>3. CASE i = h[q].id
    <2>1. next(h, q, i) = 0
      BY <1>3 DEF next, NULL
    <2> QED BY <1>2, <2>1 DEF NextIn
  <1>4. CASE i # h[q].id /\ next(h, q, i) = h[q].child1
    BY <1>1, <1>4 DEF NextIn, NodeIn
  <1>5. CASE i # h[q].id /\ next(h, q, i) = h[q].child2
    BY <1>1, <1>5 DEF NextIn, NodeIn
  <1> QED BY <1>3, <1>4, <1>5 DEF next

\* onward goes on with the search by one node.
LEMMA OnwardStep ==
  ASSUME NEW h, NEW n, NEW D, NEW L, NEW B, NEW U, NEW r, NEW i, NEW s,
         Heap(h, n, D), Tree(h, n, L, B, U), r \in L, U[r] = 0,
         Search(h, L, B, U, r, i, s)
  PROVE  Search(h, L, B, U, r, i, onward(h, r, i, s)) /\ onward(h, r, i, s) # <<>>
  <1> DEFINE N == Len(s)
             q == IF s = <<>> THEN r ELSE next(h, Last(s), i)
             t == Append(s, q)
  <1>1. /\ s \in Seq(L) /\ L \subseteq 1 .. n /\ n \in Nat
        /\ N >= 1 => s[1] = r
        /\ \A j \in 1 .. N : j >= 2 => U[s[j]] = s[j - 1]
        /\ \A a, b \in 1 .. N : a < b => h[s[a]].id \notin B[s[b]]
        /\ \A j \in 1 .. N : j < N => h[s[j]].id # i /\ s[j + 1] = next(h, s[j], i)
    BY DEF Search, Chain, Tree, Heap
  <1>2. N \in Nat /\ (s = <<>> <=> N = 0)
    BY <1>1
  <1>3. onward(h, r, i, s) = IF q \in {0, -1} THEN s ELSE t
    BY DEF onward, NULL, Wild
  <1>4. \A j \in L : j \in 1 .. n
    BY <1>1
  <1>5. CASE s = <<>>
    <2>1. q = r /\ r \in L
      BY <1>5
    <2>2. r \in 1 .. n
      BY <1>4, <2>1
    <2>3. q \notin {0, -1}
      BY <1>1, <2>1, <2>2
    <2>4. onward(h, r, i, s) = <<r>>
      <3>1. Append(<<>>, r) = <<r>>
        OBVIOUS
      <3> HIDE DEF q
      <3> QED BY <1>3, <1>5, <2>1, <2>3, <3>1
    <2>5. /\ <<r>> \in Seq(L) /\ Len(<<r>>) = 1 /\ <<r>>[1] = r /\ <<r>> # <<>>
      BY <2>1
    <2>6. \A j \in 1 .. 1 : j = 1
      OBVIOUS
    <2> DEFINE t1 == <<r>>
    <2>7. t1 \in Seq(L) /\ Len(t1) = 1 /\ t1[1] = r /\ t1 # <<>>
      BY <2>5
    <2> HIDE DEF t1
    <2>8. Search(h, L, B, U, r, i, t1)
      BY <2>6, <2>7 DEF Search, Chain
    <2> QED BY <2>4, <2>7, <2>8 DEF t1
  <1>6. CASE s # <<>>
    <2> DEFINE l == s[N]
    <2>1. N >= 1 /\ N \in 1 .. N
      BY <1>2, <1>6
    <2>2. l \in L /\ Last(s) = l
      BY <1>1, <2>1 DEF Last
    <2>3. q = next(h, l, i)
      BY <1>6, <2>2
    <2> HIDE DEF q
    <2>4. NextIn(h, n, L, B, U, l, i, q)
      <3> HIDE DEF l
      <3> QED BY <2>2, <2>3, NextIs
    <2>5. CASE q \in {0, -1}
      BY <1>3, <1>6, <2>5
    <2>6. CASE q \notin {0, -1}
      <3>1. onward(h, r, i, s) = t
        BY <1>3, <2>6, Zenon
      <3>2. /\ q \in L /\ U[q] = l /\ h[l].id # i
            /\ h[l].id \notin B[q] /\ \A e \in B[q] : e \in B[l]
        BY <2>4, <2>6 DEF NextIn
      <3>3. /\ t \in Seq(L) /\ Len(t) = N + 1 /\ t[N + 1] = q
            /\ \A j \in 1 .. N : t[j] = s[j]
        BY <1>1, <3>2
      <3> HIDE DEF t, N
      <3>4. \A j \in 1 .. N + 1 : j = N + 1 \/ (j \in 1 .. N /\ j < N + 1)
        BY <1>2
      <3>5. t # <<>>
        <4>1. N + 1 # 0
          BY <1>2
        <4> QED BY <3>3, <4>1
      <3>6. 1 \in 1 .. N /\ N < N + 1 /\ (N + 1) - 1 = N
        BY <1>2, <2>1
      <3>7. \A j \in 1 .. N + 1 : j >= 2 => U[t[j]] = t[j - 1]
        <4> SUFFICES ASSUME NEW j \in 1 .. N + 1, j >= 2
                     PROVE  U[t[j]] = t[j - 1]
          OBVIOUS
        <4>1. CASE j = N + 1
          BY <2>1, <3>2, <3>3, <3>6, <4>1 DEF l
        <4>2. CASE j # N + 1
          <5>1. j \in 1 .. N /\ j - 1 \in 1 .. N
            BY <1>2, <4>2
          <5> QED BY <1>1, <3>3, <5>1
        <4> QED BY <4>1, <4>2
      <3>8. \A a, b \in 1 .. N + 1 : a < b => h[t[a]].id \notin B[t[b]]
        <4> SUFFICES ASSUME NEW a \in 1 .. N + 1, NEW b \in 1 .. N + 1, a < b
                     PROVE  h[t[a]].id \notin B[t[b]]
          OBVIOUS
        <4>1. a \in 1 .. N
          BY <1>2
        <4>2. CASE b # N + 1
          <5>1. b \in 1 .. N
            BY <1>2, <4>2
          <5> QED BY <1>1, <3>3, <4>1, <5>1
        <4>3. CASE b = N + 1
          <5>1. CASE a = N
            BY <2>1, <3>2, <3>3, <4>3, <5>1 DEF l
          <5>2. CASE a # N
            <6>1. a < N
              BY <1>2, <4>1, <5>2
            <6>2. h[s[a]].id \notin B[l]
              BY <1>1, <2>1, <4>1, <6>1 DEF l
            <6> QED BY <3>2, <3>3, <4>1, <4>3, <6>2
          <5> QED BY <5>1, <5>2
        <4> QED BY <4>2, <4>3
      <3>9. \A j \in 1 .. N + 1 : j < N + 1 =>
               h[t[j]].id # i /\ t[j + 1] = next(h, t[j], i)
        <4> SUFFICES ASSUME NEW j \in 1 .. N + 1, j < N + 1
                     PROVE  h[t[j]].id # i /\ t[j + 1] = next(h, t[j], i)
          OBVIOUS
        <4>1. j \in 1 .. N
          BY <1>2
        <4>2. CASE j = N
          BY <2>1, <2>3, <3>2, <3>3, <4>2 DEF l
        <4>3. CASE j # N
          <5>1. j < N /\ j + 1 \in 1 .. N
            BY <1>2, <4>1, <4>3
          <5>2. h[s[j]].id # i /\ s[j + 1] = next(h, s[j], i)
            BY <1>1, <4>1, <5>1 DEF N
          <5> QED BY <3>3, <4>1, <5>1, <5>2
        <4> QED BY <4>2, <4>3
      <3>10. t[1] = r
        BY <1>1, <1>2, <2>1, <3>3, <3>6 DEF N
      <3>11. Search(h, L, B, U, r, i, t)
        BY <3>3, <3>7, <3>8, <3>9, <3>10 DEF Search, Chain
      <3> QED BY <3>1, <3>5, <3>11
    <2> QED BY <2>5, <2>6
  <1> QED BY <1>5, <1>6

\* The nodes f has found after every step.
Descends(f, h, r, i) ==
    /\ f[0] = <<>>
    /\ \A k \in 1 .. Len(h) : f[k] = onward(h, r, i, f[k - 1])

\* path is what its steps come to.
LEMMA PathIs ==
  ASSUME NEW h, Len(h) \in Nat, NEW r, NEW i, NEW f, Descends(f, h, r, i)
  PROVE  path(h, r, i) = f[Len(h)]
  <1> DEFINE n == Len(h)
             S == 0 .. n
             body(g, k) == IF k = 0 THEN <<>> ELSE onward(h, r, i, g[k - 1])
             way == CHOOSE g : g = [k \in S |-> body(g, k)]
  <1>1. n \in Nat
    OBVIOUS
  <1>2. path(h, r, i) = way[n]
    BY DEF path
  <1>3. f[0] = <<>> /\ \A k \in 1 .. n : f[k] = onward(h, r, i, f[k - 1])
    BY DEF Descends
  <1> HIDE DEF n
  <1>4. \A k \in S : f[k] = body(f, k)
    <2> SUFFICES ASSUME NEW k \in S PROVE f[k] = body(f, k)
      OBVIOUS
    <2>1. k = 0 \/ k \in 1 .. n
      BY <1>1
    <2> QED BY <1>3, <2>1
  <1>5. way = [k \in S |-> body(way, k)]
    <2> DEFINE e == [k \in S |-> f[k]]
    <2>1. \A k \in S : e[k] = body(e, k)
      <3> SUFFICES ASSUME NEW k \in S PROVE e[k] = body(e, k)
        OBVIOUS
      <3>1. k # 0 => k - 1 \in S
        BY <1>1
      <3>2. e[k] = f[k] /\ (k # 0 => e[k - 1] = f[k - 1])
        BY <3>1
      <3> HIDE DEF e
      <3> QED BY <1>4, <3>2
    <2> HIDE DEF body
    <2>2. e = [k \in S |-> body(e, k)]
      BY <2>1
    <2> HIDE DEF e
    <2> QED BY <2>2
  <1> HIDE DEF way
  <1>6. \A k \in S : way[k] = body(way, k)
    <2> HIDE DEF body
    <2> QED BY <1>5
  <1> DEFINE T == {k \in S : way[k] = f[k]}
  <1>7. \A k \in 0 .. n : k \in T
    <2>1. 0 \in T
      BY <1>1, <1>4, <1>6
    <2>2. ASSUME NEW k \in 0 .. n - 1, k \in T
          PROVE  k + 1 \in T
      <3>1. k + 1 \in S /\ k + 1 # 0 /\ (k + 1) - 1 = k /\ way[k] = f[k]
        BY <1>1, <2>2
      <3> QED BY <1>4, <1>6, <3>1
    <2> HIDE DEF T
    <2> QED BY <1>1, <2>1, <2>2, UpTo
  <1>8. n \in 0 .. n
    BY <1>1
  <1> QED BY <1>2, <1>7, <1>8 DEF n

\* A heap of n nodes is a sequence of n nodes.
LEMMA HeapLen ==
  ASSUME NEW h, NEW n, NEW D, Heap(h, n, D)
  PROVE  Len(h) = n /\ h \in Seq(Record(n, D))
  <1> DEFINE R == Record(n, D)
  <1>1. n \in Nat /\ h \in [1 .. n -> R]
    BY DEF Heap
  <1> HIDE DEF R
  <1>2. h \in Seq(R)
    BY <1>1, SeqDef, Zenon
  <1>3. Len(h) \in Nat /\ DOMAIN h = 1 .. Len(h)
    BY <1>2, LenProperties
  <1>4. 1 .. n = 1 .. Len(h)
    BY <1>1, <1>3
  <1>5. \A m \in Nat : 1 .. n = 1 .. m => m = n
    <2> SUFFICES ASSUME NEW m \in Nat, 1 .. n = 1 .. m PROVE m = n
      OBVIOUS
    <2>1. n \in Nat /\ (n = 0 \/ n \in 1 .. n) /\ (m = 0 \/ m \in 1 .. m)
      BY <1>1
    <2> QED BY <2>1
  <1>6. n = Len(h)
    BY <1>3, <1>4, <1>5
  <1> QED BY <1>2, <1>6 DEF R

\* A search meets no node twice.
LEMMA SearchShort ==
  ASSUME NEW h, NEW n, NEW D, NEW L, NEW B, NEW U, NEW r, NEW i, NEW s,
         Heap(h, n, D), Tree(h, n, L, B, U), Search(h, L, B, U, r, i, s)
  PROVE  Len(s) <= n
  <1> DEFINE N == Len(s)
             f == [j \in 1 .. N |-> s[j]]
  <1>1. /\ N \in Nat /\ n \in Nat /\ L \subseteq 1 .. n
        /\ \A j \in 1 .. N : s[j] \in L
    <2>1. s \in Seq(L)
      BY DEF Search, Chain
    <2> QED BY <2>1 DEF Tree, Heap
  <1>2. \A a, b \in 1 .. N : a < b => s[a] # s[b]
    <2> SUFFICES ASSUME NEW a \in 1 .. N, NEW b \in 1 .. N, a < b, s[a] = s[b]
                 PROVE  FALSE
      OBVIOUS
    <2>1. h[s[a]].id \notin B[s[b]]
      BY DEF Search, Chain
    <2>2. h[s[b]].id \in B[s[b]]
      BY <1>1 DEF Tree
    <2> QED BY <2>1, <2>2
  <1> HIDE DEF N
  <1>3. SUFFICES ASSUME N > n PROVE FALSE
    BY <1>1 DEF N
  <1>4. f \in [1 .. N -> 1 .. n]
    BY <1>1
  <1>5. /\ IsFiniteSet(1 .. N) /\ IsFiniteSet(1 .. n)
        /\ Cardinality(1 .. N) = N /\ Cardinality(1 .. n) = n
    <2>1. /\ IsFiniteSet(1 .. N)
          /\ Cardinality(1 .. N) = IF 1 > N THEN 0 ELSE N - 1 + 1
      BY <1>1, FS_Interval
    <2>2. /\ IsFiniteSet(1 .. n)
          /\ Cardinality(1 .. n) = IF 1 > n THEN 0 ELSE n - 1 + 1
      BY <1>1, FS_Interval
    <2> QED BY <1>1, <2>1, <2>2
  <1>6. \E a, b \in 1 .. N : a # b /\ f[a] = f[b]
    <2>1. Cardinality(1 .. n) < Cardinality(1 .. N)
      BY <1>1, <1>3, <1>5
    <2> HIDE DEF f
    <2> QED BY <1>4, <1>5, <2>1, FS_PigeonHole
  <1>7. PICK a \in 1 .. N, b \in 1 .. N : a # b /\ s[a] = s[b]
    BY <1>6
  <1>8. a < b \/ b < a
    BY <1>1, <1>7
  <1> QED BY <1>2, <1>7, <1>8

\* onward adds one node or none.
LEMMA OnwardAdds ==
  ASSUME NEW S, NEW s \in Seq(S), NEW h, NEW r, NEW i, onward(h, r, i, s) \in Seq(S),
         onward(h, r, i, s) # s
  PROVE  Len(onward(h, r, i, s)) = Len(s) + 1
  <1> DEFINE q == IF s = <<>> THEN r ELSE next(h, Last(s), i)
             t == onward(h, r, i, s)
  <1>1. t = Append(s, q)
    BY DEF onward
  <1> HIDE DEF q
  <1> QED BY <1>1 DEF t

\* path goes on until no node is added.
Walks(h, n, L, r, i) ==
    /\ \E f \in [0 .. n -> Seq(L)] : Descends(f, h, r, i)
    /\ onward(h, r, i, path(h, r, i)) = path(h, r, i)

\* path follows the way of a search, which is in the tree from its first node,
\* to its end.
LEMMA PathSearches ==
  ASSUME NEW h, NEW n, NEW D, NEW L, NEW B, NEW U, NEW r, NEW i,
         Heap(h, n, D), Tree(h, n, L, B, U), r \in L, U[r] = 0
  PROVE  /\ Search(h, L, B, U, r, i, path(h, r, i)) /\ path(h, r, i) # <<>>
         /\ Walks(h, n, L, r, i)
  <1>1. n \in Nat /\ Len(h) = n /\ L \subseteq 1 .. n /\ r \in 1 .. n /\ n >= 1
    <2>1. n \in Nat /\ L \subseteq 1 .. n
      BY DEF Heap, Tree
    <2> QED BY <2>1, HeapLen
  <1> DEFINE S == Seq(L)
             G(s) == Search(h, L, B, U, r, i, s)
             step1(s) == onward(h, r, i, s)
             a == [z \in Nat \X S |-> IF step1(z[2]) \in S THEN step1(z[2]) ELSE <<>>]
  <1>2. <<>> \in S
    OBVIOUS
  <1>3. PICK f \in [0 .. n -> S] : Iterates(f, <<>>, a, n)
    <2>1. a \in [Nat \X S -> S]
      <3> HIDE DEF S, step1
      <3> QED BY <1>2
    <2> HIDE DEF S, a
    <2> QED BY <1>1, <1>2, <2>1, LoopRuns
  <1>4. f[0] = <<>> /\ \A k \in 1 .. n : f[k] = a[<<k, f[k - 1]>>]
    BY <1>3 DEF Iterates
  <1>5. G(<<>>)
    BY DEF Search, Chain
  <1>6. \A s : G(s) => G(step1(s)) /\ step1(s) # <<>> /\ step1(s) \in S
    <2> SUFFICES ASSUME NEW s, G(s)
                 PROVE  G(step1(s)) /\ step1(s) # <<>> /\ step1(s) \in S
      OBVIOUS
    <2>1. G(step1(s)) /\ step1(s) # <<>>
      BY OnwardStep
    <2> HIDE DEF step1
    <2> QED BY <2>1 DEF Search, Chain
  <1>7. \A s : G(s) => Len(s) <= n
    BY SearchShort
  <1>8. \A s \in S : step1(s) \in S => step1(s) = s \/ Len(step1(s)) = Len(s) + 1
    BY OnwardAdds
  <1> HIDE DEF G
  <1> DEFINE T == {k \in 0 .. n : /\ G(f[k])
                                  /\ step1(f[k]) = f[k] \/ Len(f[k]) = k
                                  /\ k # 0 => f[k] # <<>> /\ f[k] = step1(f[k - 1])}
  <1>9. \A k \in 0 .. n : k \in T
    <2>1. 0 \in T
      <3> HIDE DEF step1
      <3>1. Len(f[0]) = 0
        BY <1>4
      <3> QED BY <1>1, <1>4, <1>5, <3>1
    <2>2. ASSUME NEW k \in 0 .. n - 1, k \in T
          PROVE  k + 1 \in T
      <3> HIDE DEF S, step1
      <3>1. /\ k \in Nat /\ k \in 0 .. n /\ k + 1 \in 1 .. n /\ (k + 1) - 1 = k
            /\ k + 1 \in 0 .. n
        BY <1>1
      <3>2. f[k] \in S /\ G(f[k])
        BY <1>3, <2>2, <3>1
      <3>3. G(step1(f[k])) /\ step1(f[k]) # <<>> /\ step1(f[k]) \in S
        BY <1>6, <3>2
      <3>4. a[<<k + 1, f[k]>>] = step1(f[k])
        BY <3>1, <3>2, <3>3
      <3>5. f[k + 1] = a[<<k + 1, f[(k + 1) - 1]>>]
        BY <1>4, <3>1
      <3> HIDE DEF a
      <3>6. f[k + 1] = step1(f[k])
        BY <3>1, <3>4, <3>5
      <3>7. step1(f[k + 1]) = f[k + 1] \/ Len(f[k + 1]) = k + 1
        <4>1. CASE step1(f[k]) = f[k]
          BY <3>6, <4>1
        <4>2. CASE step1(f[k]) # f[k]
          BY <1>8, <2>2, <3>2, <3>3, <3>6, <4>2
        <4> QED BY <4>1, <4>2
      <3> QED BY <3>1, <3>3, <3>6, <3>7
    <2> HIDE DEF T
    <2> QED BY <1>1, <2>1, <2>2, UpTo
  <1>10. Descends(f, h, r, i)
    <2> SUFFICES ASSUME NEW k \in 1 .. n PROVE f[k] = step1(f[k - 1])
      BY <1>1, <1>4 DEF Descends
    <2>1. k \in 0 .. n /\ k # 0
      BY <1>1
    <2> HIDE DEF step1
    <2> QED BY <1>9, <2>1
  <1>11. path(h, r, i) = f[n]
    BY <1>1, <1>10, PathIs
  <1>12. n \in 0 .. n /\ n # 0
    BY <1>1
  <1> HIDE DEF step1
  <1>13. G(f[n]) /\ f[n] # <<>> /\ f[n] \in S
    BY <1>3, <1>9, <1>12
  <1>14. step1(f[n]) = f[n]
    <2> SUFFICES ASSUME step1(f[n]) # f[n] PROVE FALSE
      OBVIOUS
    <2>1. Len(f[n]) = n
      BY <1>9, <1>12
    <2>2. G(step1(f[n])) /\ step1(f[n]) \in S
      BY <1>6, <1>13
    <2>3. Len(step1(f[n])) = n + 1
      BY <1>13, <1>8, <2>1, <2>2
    <2>4. Len(step1(f[n])) <= n
      BY <1>7, <2>2
    <2> QED BY <1>1, <2>3, <2>4
  <1> QED BY <1>3, <1>10, <1>11, <1>13, <1>14 DEF G, step1, S, Walks

-----------------------------------------------------------------------------
(* The search tree: a node is linked                                       *)

\* g is h with a new node for i, linked below l.
Linked(g, h, n, D, l, i, d) ==
    /\ Heap(g, n + 1, D)
    /\ \A q \in 1 .. n : /\ g[q].id = h[q].id /\ g[q].data = h[q].data
                         /\ g[q].height = h[q].height
                         /\ q # l => g[q] = h[q]
    /\ i < h[l].id => g[l].child1 = n + 1 /\ g[l].child2 = h[l].child2
    /\ i > h[l].id => g[l].child2 = n + 1 /\ g[l].child1 = h[l].child1
    /\ g[n + 1] = fresh(i, d)

\* g is h with the node e at its end.
Appended(g, h, n, D, e) ==
    /\ Heap(g, n + 1, D) /\ g[n + 1] = e
    /\ \A q \in 1 .. n : g[q] = h[q]

\* The node bst_insert allocates comes behind the others.
LEMMA AppendIs ==
  ASSUME NEW h, NEW n, NEW D, Heap(h, n, D), NEW i \in Nat, NEW d \in D
  PROVE  Appended(Append(h, fresh(i, d)), h, n, D, fresh(i, d))
  <1> DEFINE R == Record(n + 1, D)
             e == fresh(i, d)
             g == Append(h, e)
  <1>1. n \in Nat /\ h \in [1 .. n -> Record(n, D)]
    BY DEF Heap
  <1>2. e \in R
    BY <1>1 DEF Record, fresh, NULL
  <1>3. \A q \in 1 .. n : h[q] \in R
    BY <1>1 DEF Record
  <1>4. h \in Seq(Record(n, D)) /\ Len(h) = n
    BY HeapLen
  <1> HIDE DEF R, e
  <1>5. h \in Seq(R) /\ Len(h) = n
    <2>1. h \in [1 .. n -> R]
      BY <1>1, <1>3
    <2>2. h \in Seq(R)
      BY <1>1, <2>1, SeqDef, Zenon
    <2> QED BY <1>4, <2>2
  <1>6. /\ g \in Seq(R) /\ Len(g) = n + 1 /\ g[n + 1] = e
        /\ \A q \in 1 .. n : g[q] = h[q]
    BY <1>2, <1>5
  <1>7. g \in [1 .. n + 1 -> R]
    BY <1>6, LenProperties
  <1>8. n + 1 \in Nat
    BY <1>1
  <1>9. Heap(g, n + 1, D)
    <2> HIDE DEF g
    <2> QED BY <1>7, <1>8 DEF Heap, R
  <1>10. Appended(g, h, n, D, e)
    BY <1>6, <1>9 DEF Appended
  <1> QED BY <1>10 DEF e

\* link makes it a child of l.
LEMMA LinkIs ==
  ASSUME NEW h, NEW n, NEW D, Heap(h, n, D), NEW i \in Nat, NEW d \in D,
         NEW l \in 1 .. n, h[l].id # i
  PROVE  Linked(link(Append(h, fresh(i, d)), l, i, n + 1), h, n, D, l, i, d)
  <1>0. Appended(Append(h, fresh(i, d)), h, n, D, fresh(i, d))
    BY AppendIs, Zenon
  <1> DEFINE h1 == Append(h, fresh(i, d))
             g == link(h1, l, i, n + 1)
             left == [h1[l] EXCEPT !.child1 = n + 1]
             right == [h1[l] EXCEPT !.child2 = n + 1]
  <1>1. /\ Heap(h1, n + 1, D) /\ h1[n + 1] = fresh(i, d)
        /\ \A q \in 1 .. n : h1[q] = h[q]
    <2> HIDE DEF h1
    <2> QED BY <1>0, Zenon DEF Appended, h1
  <1> HIDE DEF h1
  <1>2. /\ n \in Nat /\ h1 \in [1 .. n + 1 -> Record(n + 1, D)] /\ l \in 1 .. n + 1
        /\ h1[l] \in Record(n + 1, D) /\ l # n + 1 /\ n + 1 \in 0 .. n + 1
        /\ h1[l] = h[l]
    <2>1. n \in Nat
      BY DEF Heap
    <2>2. l \in 1 .. n + 1 /\ l # n + 1 /\ n + 1 \in 0 .. n + 1
      BY <2>1
    <2> QED BY <1>1, <2>1, <2>2 DEF Heap
  <1>3. h[l].id \in Nat
    BY <1>2 DEF Record
  <1>4. /\ left \in Record(n + 1, D) /\ right \in Record(n + 1, D)
        /\ left.child1 = n + 1 /\ left.child2 = h[l].child2
        /\ right.child2 = n + 1 /\ right.child1 = h[l].child1
        /\ left.id = h[l].id /\ left.data = h[l].data /\ left.height = h[l].height
        /\ right.id = h[l].id /\ right.data = h[l].data /\ right.height = h[l].height
    BY <1>2 DEF Record
  <1>5. g = [h1 EXCEPT ![l] = IF i < h[l].id THEN left ELSE right]
    BY <1>2 DEF link
  <1> DEFINE new == IF i < h[l].id THEN left ELSE right
  <1>6. /\ new \in Record(n + 1, D)
        /\ i < h[l].id => new.child1 = n + 1 /\ new.child2 = h[l].child2
        /\ i > h[l].id => new.child2 = n + 1 /\ new.child1 = h[l].child1
        /\ new.id = h[l].id /\ new.data = h[l].data /\ new.height = h[l].height
    <2> HIDE DEF left, right
    <2>1. CASE i < h[l].id
      BY <1>3, <1>4, <2>1
    <2>2. CASE ~ (i < h[l].id)
      BY <1>3, <1>4, <2>2
    <2> QED BY <2>1, <2>2
  <1> HIDE DEF left, right, new, g
  <1>7. g \in [1 .. n + 1 -> Record(n + 1, D)] /\ g[l] = new
        /\ \A q \in 1 .. n + 1 : q # l => g[q] = h1[q]
    BY <1>2, <1>5, <1>6 DEF new
  <1>8. Heap(g, n + 1, D)
    BY <1>2, <1>7 DEF Heap
  <1>9. g[n + 1] = fresh(i, d)
    <2>1. n + 1 \in 1 .. n + 1
      BY <1>2
    <2> QED BY <1>1, <1>2, <1>7, <2>1
  <1>10. ASSUME NEW q \in 1 .. n
         PROVE  /\ g[q].id = h[q].id /\ g[q].data = h[q].data
                /\ g[q].height = h[q].height
                /\ q # l => g[q] = h[q]
    <2>1. q \in 1 .. n + 1 /\ h1[q] = h[q]
      BY <1>1, <1>2
    <2> QED BY <1>6, <1>7, <2>1
  <1> QED BY <1>6, <1>7, <1>8, <1>9, <1>10 DEF Linked, g, h1

-----------------------------------------------------------------------------
(* The search tree: what is left when a node is linked                     *)

\* The nodes on the way s.
OnWay(s) == {s[j] : j \in 1 .. Len(s)}

\* q leads to c on the way s.
LeadsOn(h, s, i, q, c) ==
    \E j \in 1 .. Len(s) : /\ j < Len(s) /\ q = s[j] /\ c = s[j + 1] /\ q # s[Len(s)]
                           /\ h[q].id # i /\ c = next(h, q, i)

\* The nodes on the way lead to each other only.
LEMMA WayIs ==
  ASSUME NEW h, NEW n, NEW D, NEW L, NEW B, NEW U, NEW r, NEW i, NEW s,
         Heap(h, n, D), Tree(h, n, L, B, U), r \in L, U[r] = 0,
         Search(h, L, B, U, r, i, s), NEW q \in L, NEW c \in OnWay(s), U[c] = q
  PROVE  LeadsOn(h, s, i, q, c)
  <1> DEFINE N == Len(s)
  <1>1. /\ s \in Seq(L) /\ L \subseteq 1 .. n /\ n \in Nat
        /\ N >= 1 => s[1] = r
        /\ \A j \in 1 .. N : j >= 2 => U[s[j]] = s[j - 1]
        /\ \A a, b \in 1 .. N : a < b => h[s[a]].id \notin B[s[b]]
        /\ \A j \in 1 .. N : j < N => h[s[j]].id # i /\ s[j + 1] = next(h, s[j], i)
    BY DEF Search, Chain, Tree, Heap
  <1>2. N \in Nat
    BY <1>1
  <1>3. PICK k \in 1 .. N : c = s[k]
    BY DEF OnWay
  <1>4. k # 1
    <2>1. SUFFICES ASSUME k = 1 PROVE FALSE
      OBVIOUS
    <2>2. N >= 1
      BY <1>2
    <2>3. c = r
      BY <1>1, <1>3, <2>1, <2>2
    <2>4. q # 0
      BY <1>1
    <2> QED BY <2>3, <2>4
  <1> DEFINE j == k - 1
  <1>5. /\ j \in 1 .. N /\ j < N /\ j + 1 = k /\ k >= 2 /\ N \in 1 .. N
    BY <1>2, <1>4
  <1>6. q = s[j] /\ c = s[j + 1]
    BY <1>1, <1>3, <1>5
  <1>7. h[q].id # i /\ c = next(h, q, i)
    BY <1>1, <1>5, <1>6
  <1>8. q # s[N]
    <2>1. h[s[j]].id \notin B[s[N]]
      BY <1>1, <1>5
    <2>2. s[N] \in L
      BY <1>1, <1>5
    <2>3. h[s[N]].id \in B[s[N]]
      BY <2>2 DEF Tree
    <2> QED BY <1>6, <2>1, <2>3
  <1> QED BY <1>5, <1>6, <1>7, <1>8 DEF LeadsOn

\* The nodes that are left when a node n + 1 is linked for id i, the ids they
\* may lead to, and their parents.  Nodes with i elsewhere are not.
Left(n, L, B, s, i) == OnWay(s) \cup {q \in L : i \notin B[q]} \cup {n + 1}

\* The ids the nodes may lead to then: those on the way, to i as well.
LeadTo(n, B, s, i) ==
    [q \in 1 .. n + 1 |-> IF q = n + 1 THEN {i}
                          ELSE IF q \in OnWay(s) THEN B[q] \cup {i} ELSE B[q]]

\* The parents, with that of the new node.
Above(n, U, s) == [q \in 1 .. n + 1 |-> IF q = n + 1 THEN s[Len(s)] ELSE U[q]]

\* c stays a child of q.
StaysChild(h, n, L, B, U, s, i, q, c) ==
    /\ c \in Left(n, L, B, s, i) /\ Above(n, U, s)[c] = q
    /\ \A e \in LeadTo(n, B, s, i)[c] :
          /\ e \in LeadTo(n, B, s, i)[q]
          /\ e \in B[c] \/ (e = i /\ i # h[q].id /\ c = next(h, q, i))

\* A node that is left keeps its children, but for the pointer where the new
\* node is linked.
LEMMA ChildStays ==
  ASSUME NEW h, NEW n, NEW D, NEW L, NEW B, NEW U, NEW r, NEW i \in Nat, NEW s,
         Heap(h, n, D), Tree(h, n, L, B, U), r \in L, U[r] = 0,
         Search(h, L, B, U, r, i, s), h[s[Len(s)]].id # i,
         NEW q \in L, q \in Left(n, L, B, s, i), NEW c,
         c = h[q].child1 \/ c = h[q].child2, c # 0,
         ~ (q = s[Len(s)] /\ c = next(h, q, i))
  PROVE  StaysChild(h, n, L, B, U, s, i, q, c)
  <1>1. NodeIn(h, n, L, B, U, q)
    BY NodeIs
  <1>2. c \in L /\ U[c] = q /\ \A e \in B[c] : e \in B[q]
    BY <1>1 DEF NodeIn
  <1>3. /\ L \subseteq 1 .. n /\ n \in Nat
        /\ \A p \in 1 .. n : p \in 1 .. n + 1 /\ p # n + 1
    BY DEF Tree, Heap
  <1>4. /\ c \in 1 .. n + 1 /\ c # n + 1 /\ q \in 1 .. n + 1 /\ q # n + 1
    BY <1>2, <1>3
  <1>5. /\ Above(n, U, s)[c] = q
        /\ LeadTo(n, B, s, i)[c] = IF c \in OnWay(s) THEN B[c] \cup {i} ELSE B[c]
        /\ LeadTo(n, B, s, i)[q] = IF q \in OnWay(s) THEN B[q] \cup {i} ELSE B[q]
    BY <1>2, <1>4 DEF Above, LeadTo
  <1>6. CASE c \in OnWay(s)
    <2>1. LeadsOn(h, s, i, q, c)
      BY <1>2, <1>6, WayIs
    <2>2. q \in OnWay(s) /\ h[q].id # i /\ c = next(h, q, i)
      BY <2>1 DEF LeadsOn, OnWay
    <2>3. c \in Left(n, L, B, s, i)
      BY <1>6 DEF Left
    <2> QED BY <1>2, <1>5, <1>6, <2>2, <2>3 DEF StaysChild
  <1>7. CASE c \notin OnWay(s)
    <2>1. i \notin B[c]
      <3>1. CASE q \notin OnWay(s)
        BY <1>2, <1>4, <3>1 DEF Left
      <3>2. CASE q \in OnWay(s)
        <4>1. PICK j \in 1 .. Len(s) : q = s[j]
          BY <3>2 DEF OnWay
        <4>2. h[q].id # i /\ c # next(h, q, i)
          <5>1. CASE q = s[Len(s)]
            BY <5>1
          <5>2. CASE q # s[Len(s)]
            <6>1. s \in Seq(L)
              BY DEF Search, Chain
            <6>2. Len(s) \in Nat
              BY <6>1
            <6>3. j < Len(s) /\ j + 1 \in 1 .. Len(s)
              BY <4>1, <5>2, <6>2
            <6>4. h[s[j]].id # i /\ s[j + 1] = next(h, s[j], i)
              BY <6>3 DEF Search
            <6>5. s[j + 1] \in OnWay(s)
              BY <6>3 DEF OnWay
            <6> QED BY <1>7, <4>1, <6>4, <6>5
          <5> QED BY <5>1, <5>2
        <4>3. CASE i < h[q].id
          <5>1. c = h[q].child2
            BY <4>2, <4>3 DEF next
          <5>2. h[q].id \in Nat /\ \A e \in B[c] : e > h[q].id
            BY <1>1, <5>1 DEF NodeIn
          <5> QED BY <4>3, <5>2
        <4>4. CASE ~ (i < h[q].id)
          <5>1. c = h[q].child1
            BY <4>2, <4>4 DEF next
          <5>2. h[q].id \in Nat /\ \A e \in B[c] : e < h[q].id
            BY <1>1, <5>1 DEF NodeIn
          <5> QED BY <4>4, <5>2
        <4> QED BY <4>3, <4>4
      <3> QED BY <3>1, <3>2
    <2>2. c \in Left(n, L, B, s, i)
      BY <1>2, <2>1 DEF Left
    <2> QED BY <1>2, <1>5, <1>7, <2>2 DEF StaysChild
  <1> QED BY <1>6, <1>7

\* s is the way of a search for i from r, which does not end at a node with i,
\* and g is h with a node linked there.
Inserting(g, h, n, D, L, B, U, r, s, i, d) ==
    /\ Heap(h, n, D) /\ Tree(h, n, L, B, U) /\ r \in L /\ U[r] = 0 /\ i \in Nat
    /\ Search(h, L, B, U, r, i, s) /\ s # <<>>
    /\ h[s[Len(s)]].id # i
    /\ Linked(g, h, n, D, s[Len(s)], i, d)

\* The search has a last node, and its nodes are in the tree.
LEMMA LastNode ==
  ASSUME NEW g, NEW h, NEW n, NEW D, NEW L, NEW B, NEW U, NEW r, NEW s, NEW i, NEW d,
         Inserting(g, h, n, D, L, B, U, r, s, i, d)
  PROVE  /\ Len(s) \in Nat /\ Len(s) >= 1 /\ s \in Seq(L)
         /\ s[Len(s)] \in L /\ s[Len(s)] \in OnWay(s)
         /\ OnWay(s) \subseteq L /\ L \subseteq 1 .. n /\ n \in Nat
         /\ r \in OnWay(s)
  <1>1. s \in Seq(L) /\ s # <<>>
    BY DEF Inserting, Search, Chain
  <1>2. Len(s) \in Nat /\ Len(s) >= 1 /\ \A j \in 1 .. Len(s) : s[j] \in L
    BY <1>1
  <1>3. Len(s) \in 1 .. Len(s) /\ 1 \in 1 .. Len(s)
    BY <1>2
  <1>4. s[1] = r
    BY <1>2 DEF Inserting, Search, Chain
  <1>5. L \subseteq 1 .. n /\ n \in Nat
    BY DEF Inserting, Tree, Heap
  <1> QED BY <1>1, <1>2, <1>3, <1>4, <1>5 DEF OnWay

\* With the new node the nodes that are left are a tree.
LEMMA LinkedTree ==
  ASSUME NEW g, NEW h, NEW n, NEW D, NEW L, NEW B, NEW U, NEW r, NEW s, NEW i, NEW d,
         Inserting(g, h, n, D, L, B, U, r, s, i, d)
  PROVE  Tree(g, n + 1, Left(n, L, B, s, i), LeadTo(n, B, s, i), Above(n, U, s))
  <1> DEFINE l == s[Len(s)]
             L1 == Left(n, L, B, s, i)
             C1 == LeadTo(n, B, s, i)
             U1 == Above(n, U, s)
  <1>1. /\ Heap(h, n, D) /\ Tree(h, n, L, B, U) /\ r \in L /\ U[r] = 0
        /\ Search(h, L, B, U, r, i, s) /\ h[l].id # i /\ i \in Nat
        /\ Heap(g, n + 1, D)
        /\ \A q \in 1 .. n : g[q].id = h[q].id /\ (q # l => g[q] = h[q])
        /\ i < h[l].id => g[l].child1 = n + 1 /\ g[l].child2 = h[l].child2
        /\ i > h[l].id => g[l].child2 = n + 1 /\ g[l].child1 = h[l].child1
        /\ g[n + 1] = fresh(i, d)
    BY DEF Inserting, Linked
  <1>2. /\ l \in L /\ l \in OnWay(s) /\ OnWay(s) \subseteq L /\ L \subseteq 1 .. n
        /\ n \in Nat
    BY LastNode
  <1>3. /\ L1 \subseteq 1 .. n + 1
        /\ \A q \in L1 : q # n + 1 => q \in L /\ q \in 1 .. n /\ q \in 1 .. n + 1
        /\ n + 1 \in L1 /\ l \in L1 /\ n + 1 \notin L /\ n + 1 \notin 1 .. n
        /\ n + 1 \in 1 .. n + 1
    <2>1. \A q \in 1 .. n : q # n + 1 /\ q \in 1 .. n + 1
      BY <1>2
    <2>2. n + 1 \in 1 .. n + 1
      BY <1>2
    <2> QED BY <1>2, <2>1, <2>2 DEF Left
  <1>4. C1[n + 1] = {i} /\ U1[n + 1] = l
    BY <1>3 DEF LeadTo, Above
  <1>5. /\ i \in C1[l]
        /\ \A q \in L1 : q # n + 1 => \A e \in B[q] : e \in C1[q]
    BY <1>2, <1>3 DEF LeadTo
  <1>6. /\ g[n + 1].id = i /\ g[n + 1].child1 = 0 /\ g[n + 1].child2 = 0
    BY <1>1 DEF fresh, NULL
  <1> HIDE DEF l, L1, C1, U1
  <1>7. ASSUME NEW q \in L1 PROVE g[q].id \in C1[q]
    <2>1. CASE q = n + 1
      BY <1>4, <1>6, <2>1
    <2>2. CASE q # n + 1
      <3>1. h[q].id \in B[q]
        BY <1>1, <1>3, <2>2 DEF Tree
      <3> QED BY <1>1, <1>3, <1>5, <2>2, <3>1
    <2> QED BY <2>1, <2>2
  <1>8. ASSUME NEW q \in L1, q # n + 1, NEW c, c = h[q].child1 \/ c = h[q].child2,
               c # 0, ~ (q = l /\ c = next(h, q, i))
        PROVE  /\ c \in L1 /\ U1[c] = q
               /\ \A e \in C1[c] :
                     e \in C1[q] /\ (e \in B[c] \/ (e = i /\ i # h[q].id /\ c = next(h, q, i)))
    <2>1. q \in L
      BY <1>3, <1>8
    <2>2. StaysChild(h, n, L, B, U, s, i, q, c)
      BY <1>1, <1>8, <2>1, ChildStays DEF l, L1
    <2> QED BY <2>2 DEF StaysChild, L1, C1, U1
  <1>9. ASSUME NEW q \in L1, g[q].child1 # NULL
        PROVE  /\ g[q].child1 \in L1 /\ U1[g[q].child1] = q
               /\ \A e \in C1[g[q].child1] : e \in C1[q] /\ e < g[q].id
    <2>1. q # n + 1
      BY <1>6, <1>9 DEF NULL
    <2>2. q \in L /\ q \in 1 .. n
      BY <1>3, <2>1
    <2>3. NodeIn(h, n, L, B, U, q)
      BY <1>1, <2>2, NodeIs
    <2>4. g[q].id = h[q].id /\ h[q].id \in Nat
      BY <1>1, <2>2, <2>3 DEF NodeIn
    <2>5. CASE q = l /\ i < h[l].id
      <3>1. g[q].child1 = n + 1
        BY <1>1, <2>5
      <3> QED BY <1>3, <1>4, <1>5, <2>4, <2>5, <3>1
    <2>6. CASE ~ (q = l /\ i < h[l].id)
      <3> DEFINE c == h[q].child1
      <3>1. g[q].child1 = c /\ c # 0
        <4>1. g[q].child1 = c
          <5>1. CASE q = l
            BY <1>1, <2>4, <2>6, <5>1
          <5>2. CASE q # l
            BY <1>1, <2>2, <5>2
          <5> QED BY <5>1, <5>2
        <4> QED BY <1>9, <4>1 DEF NULL
      <3>2. c = next(h, q, i) /\ i # h[q].id => i < h[q].id
        <4>1. h[q].child1 # h[q].child2
          BY <2>3, <3>1 DEF NodeIn
        <4> QED BY <4>1 DEF next
      <3>3. ~ (q = l /\ c = next(h, q, i))
        BY <1>1, <2>6, <3>2
      <3>4. /\ c \in L1 /\ U1[c] = q
            /\ \A e \in C1[c] :
                  e \in C1[q] /\ (e \in B[c] \/ (e = i /\ i # h[q].id /\ c = next(h, q, i)))
        <4> DEFINE x == c
        <4>1. x = h[q].child1 \/ x = h[q].child2
          OBVIOUS
        <4>2. x # 0 /\ ~ (q = l /\ x = next(h, q, i))
          BY <3>1, <3>3
        <4> HIDE DEF x
        <4>3. /\ x \in L1 /\ U1[x] = q
              /\ \A e \in C1[x] :
                    e \in C1[q] /\ (e \in B[x] \/ (e = i /\ i # h[q].id /\ x = next(h, q, i)))
          BY <1>8, <2>1, <4>1, <4>2
        <4> QED BY <4>3 DEF x
      <3>5. \A e \in B[c] : e < h[q].id
        BY <2>3, <3>1 DEF NodeIn
      <3> QED BY <2>4, <3>1, <3>2, <3>4, <3>5
    <2> QED BY <2>5, <2>6
  <1>10. ASSUME NEW q \in L1, g[q].child2 # NULL
         PROVE  /\ g[q].child2 \in L1 /\ U1[g[q].child2] = q
                /\ \A e \in C1[g[q].child2] : e \in C1[q] /\ e > g[q].id
    <2>1. q # n + 1
      BY <1>6, <1>10 DEF NULL
    <2>2. q \in L /\ q \in 1 .. n
      BY <1>3, <2>1
    <2>3. NodeIn(h, n, L, B, U, q)
      BY <1>1, <2>2, NodeIs
    <2>4. g[q].id = h[q].id /\ h[q].id \in Nat
      BY <1>1, <2>2, <2>3 DEF NodeIn
    <2>5. CASE q = l /\ i > h[l].id
      <3>1. g[q].child2 = n + 1
        BY <1>1, <2>5
      <3> QED BY <1>3, <1>4, <1>5, <2>4, <2>5, <3>1
    <2>6. CASE ~ (q = l /\ i > h[l].id)
      <3> DEFINE c == h[q].child2
      <3>1. g[q].child2 = c /\ c # 0
        <4>1. g[q].child2 = c
          <5>1. CASE q = l
            BY <1>1, <2>4, <2>6, <5>1
          <5>2. CASE q # l
            BY <1>1, <2>2, <5>2
          <5> QED BY <5>1, <5>2
        <4> QED BY <1>10, <4>1 DEF NULL
      <3>2. c = next(h, q, i) /\ i # h[q].id => i > h[q].id
        <4>1. h[q].child1 # h[q].child2
          BY <2>3, <3>1 DEF NodeIn
        <4>2. i \in Nat /\ h[q].id \in Nat
          BY <1>1, <2>4
        <4> QED BY <4>1, <4>2 DEF next
      <3>3. ~ (q = l /\ c = next(h, q, i))
        BY <1>1, <2>6, <3>2
      <3>4. /\ c \in L1 /\ U1[c] = q
            /\ \A e \in C1[c] :
                  e \in C1[q] /\ (e \in B[c] \/ (e = i /\ i # h[q].id /\ c = next(h, q, i)))
        <4> DEFINE x == c
        <4>1. x = h[q].child1 \/ x = h[q].child2
          OBVIOUS
        <4>2. x # 0 /\ ~ (q = l /\ x = next(h, q, i))
          BY <3>1, <3>3
        <4> HIDE DEF x
        <4>3. /\ x \in L1 /\ U1[x] = q
              /\ \A e \in C1[x] :
                    e \in C1[q] /\ (e \in B[x] \/ (e = i /\ i # h[q].id /\ x = next(h, q, i)))
          BY <1>8, <2>1, <4>1, <4>2
        <4> QED BY <4>3 DEF x
      <3>5. \A e \in B[c] : e > h[q].id
        BY <2>3, <3>1 DEF NodeIn
      <3> QED BY <2>4, <3>1, <3>2, <3>4, <3>5
    <2> QED BY <2>5, <2>6
  <1>11. Tree(g, n + 1, L1, C1, U1)
    BY <1>3, <1>7, <1>9, <1>10 DEF Tree
  <1> QED BY <1>11 DEF L1, C1, U1

\* The way of the search is the way to the new node, too.
LEMMA LinkedChain ==
  ASSUME NEW g, NEW h, NEW n, NEW D, NEW L, NEW B, NEW U, NEW r, NEW s, NEW i, NEW d,
         Inserting(g, h, n, D, L, B, U, r, s, i, d)
  PROVE  Chain(g, Left(n, L, B, s, i), LeadTo(n, B, s, i), Above(n, U, s), r, s)
  <1> DEFINE N == Len(s)
             L1 == Left(n, L, B, s, i)
             C1 == LeadTo(n, B, s, i)
             U1 == Above(n, U, s)
  <1>1. /\ \A q \in 1 .. n : g[q].id = h[q].id
        /\ N >= 1 => s[1] = r
        /\ \A j \in 1 .. N : j >= 2 => U[s[j]] = s[j - 1]
        /\ \A a, b \in 1 .. N : a < b => h[s[a]].id \notin B[s[b]]
        /\ \A j \in 1 .. N : j < N => h[s[j]].id # i
    BY DEF Inserting, Linked, Search, Chain
  <1>2. /\ N \in Nat /\ s \in Seq(L) /\ OnWay(s) \subseteq L /\ L \subseteq 1 .. n
        /\ n \in Nat
    BY LastNode
  <1>3. /\ \A j \in 1 .. N : s[j] \in OnWay(s) /\ s[j] \in L1
        /\ OnWay(s) \subseteq L1
    BY DEF OnWay, Left
  <1>4. \A q \in 1 .. n : q # n + 1 /\ q \in 1 .. n + 1
    BY <1>2
  <1>5. \A q \in OnWay(s) : U1[q] = U[q] /\ C1[q] = B[q] \cup {i} /\ g[q].id = h[q].id
    BY <1>1, <1>2, <1>4 DEF LeadTo, Above
  <1> HIDE DEF L1, C1, U1
  <1>6. s \in Seq(L1)
    <2>1. s \in [1 .. N -> L]
      BY <1>2, LenProperties
    <2>2. s \in [1 .. N -> L1]
      BY <1>3, <2>1
    <2>3. N \in Nat
      BY <1>2
    <2> HIDE DEF N
    <2> QED BY <2>2, <2>3, SeqDef, Zenon
  <1>7. \A a, b \in 1 .. N : a < b => g[s[a]].id \notin C1[s[b]]
    <2> SUFFICES ASSUME NEW a \in 1 .. N, NEW b \in 1 .. N, a < b
                 PROVE  g[s[a]].id \notin C1[s[b]]
      OBVIOUS
    <2>1. a < N
      BY <1>2
    <2> QED BY <1>1, <1>3, <1>5, <2>1
  <1>8. \A j \in 1 .. N : j >= 2 => U1[s[j]] = s[j - 1]
    BY <1>1, <1>3, <1>5
  <1>9. Chain(g, L1, C1, U1, r, s)
    BY <1>1, <1>6, <1>7, <1>8 DEF Chain
  <1> QED BY <1>9 DEF L1, C1, U1

\* Only the nodes on that way may have got a wrong height.
LEMMA LinkedExact ==
  ASSUME NEW g, NEW h, NEW n, NEW D, NEW L, NEW B, NEW U, NEW r, NEW s, NEW i, NEW d,
         Inserting(g, h, n, D, L, B, U, r, s, i, d),
         \A q \in L : Exact(h, q)
  PROVE  \A q \in Left(n, L, B, s, i) : Exact(g, q) \/ \E j \in 1 .. Len(s) : s[j] = q
  <1> DEFINE l == s[Len(s)]
  <1>1. /\ Heap(h, n, D) /\ Tree(h, n, L, B, U) /\ Heap(g, n + 1, D)
        /\ \A q \in 1 .. n : g[q].height = h[q].height /\ (q # l => g[q] = h[q])
        /\ g[n + 1] = fresh(i, d)
    BY DEF Inserting, Linked
  <1>2. l \in OnWay(s) /\ L \subseteq 1 .. n /\ n \in Nat
    BY LastNode
  <1> HIDE DEF l
  <1> SUFFICES ASSUME NEW q \in Left(n, L, B, s, i), q \notin OnWay(s)
               PROVE  Exact(g, q)
    BY DEF OnWay
  <1>3. CASE q = n + 1
    BY <1>1, <1>3 DEF fresh, Exact, height, NULL, higher
  <1>4. CASE q # n + 1
    <2>1. q \in L /\ q \in 1 .. n /\ q # l
      BY <1>2, <1>4 DEF Left
    <2>2. g[q] = h[q] /\ h[q].child1 \in 0 .. n /\ h[q].child2 \in 0 .. n
      <3>1. NodeIn(h, n, L, B, U, q)
        BY <1>1, <2>1, NodeIs
      <3> QED BY <1>1, <2>1, <3>1 DEF NodeIn
    <2>3. \A c \in 0 .. n : height(g, c) = height(h, c)
      <3>1. \A c \in 0 .. n : c # 0 => c \in 1 .. n
        BY <1>2
      <3> QED BY <1>1, <3>1 DEF height, NULL
    <2>4. Exact(h, q)
      BY <2>1
    <2> QED BY <2>2, <2>3, <2>4 DEF Exact
  <1> QED BY <1>3, <1>4

\* The nodes below r are a measured search tree for what g gives.
Good(h, n, D, L, B, U, r, g) ==
    /\ Heap(h, n, D) /\ Tree(h, n, L, B, U) /\ r \in L /\ U[r] = 0
    /\ \A q \in L : Exact(h, q) /\ g[h[q].id] = h[q].data

\* x has a node more than h, for i, and is as good.  It is h with the node
\* linked below l, but for rotations.
HasNew(x, h, n, D, r, g, l, i, d) ==
    /\ \E L, B, U : Good(x, n + 1, D, L, B, U, r, [g EXCEPT ![i] = d])
    /\ \A q \in 1 .. n : x[q].id = h[q].id /\ x[q].data = h[q].data
    /\ x[n + 1].id = i /\ x[n + 1].data = d
    /\ \E k : /\ Linked(k, h, n, D, l, i, d)
              /\ SamePointers(x, k, n + 1) \/ Turned(x, k, n + 1, n + 1)

\* An id that is not found is stored: once the way is settled the tree is good.
LEMMA InsertNew ==
  ASSUME NEW I, NEW D, NEW g \in [I -> D \cup {Nothing}], NEW h, NEW n, NEW L, NEW B,
         NEW U, NEW r, Good(h, n, D, L, B, U, r, g), NEW i \in I, i \in Nat, NEW d \in D,
         NEW s, Search(h, L, B, U, r, i, s), s # <<>>, h[s[Len(s)]].id # i,
         \A q \in 1 .. n : h[q].id \in I
  PROVE  HasNew(settle(link(Append(h, fresh(i, d)), s[Len(s)], i, n + 1), s),
                h, n, D, r, g, s[Len(s)], i, d)
  <1> DEFINE l == s[Len(s)]
             h1 == link(Append(h, fresh(i, d)), l, i, n + 1)
             x == settle(h1, s)
             L1 == Left(n, L, B, s, i)
             C1 == LeadTo(n, B, s, i)
             U1 == Above(n, U, s)
             g1 == [g EXCEPT ![i] = d]
  <1>1. /\ Heap(h, n, D) /\ Tree(h, n, L, B, U) /\ r \in L /\ U[r] = 0
        /\ \A q \in L : Exact(h, q) /\ g[h[q].id] = h[q].data
    BY DEF Good
  <1>2. l \in 1 .. n
    <2>1. s \in Seq(L) /\ L \subseteq 1 .. n
      BY <1>1 DEF Search, Chain, Tree
    <2>2. Len(s) \in Nat /\ Len(s) >= 1 /\ Len(s) \in 1 .. Len(s)
      BY <2>1
    <2>3. s[Len(s)] \in L
      BY <2>1, <2>2
    <2> QED BY <2>1, <2>3
  <1>3. Linked(h1, h, n, D, l, i, d)
    <2> HIDE DEF l
    <2>1. h[l].id # i
      BY DEF l
    <2> QED BY <1>1, <1>2, <2>1, LinkIs
  <1> HIDE DEF h1
  <1>4. Inserting(h1, h, n, D, L, B, U, r, s, i, d)
    BY <1>1, <1>3 DEF Inserting
  <1>5. /\ OnWay(s) \subseteq L /\ L \subseteq 1 .. n /\ n \in Nat /\ r \in OnWay(s)
    BY <1>4, LastNode
  <1>6. Tree(h1, n + 1, L1, C1, U1)
    BY <1>4, LinkedTree
  <1>7. Chain(h1, L1, C1, U1, r, s)
    BY <1>4, LinkedChain
  <1>8. \A q \in L1 : Exact(h1, q) \/ \E j \in 1 .. Len(s) : s[j] = q
    BY <1>1, <1>4, LinkedExact
  <1>9. r \in L1 /\ U1[r] = 0
    <2>1. r \in 1 .. n /\ n \in Nat
      BY <1>5
    <2>2. r # n + 1 /\ r \in 1 .. n + 1
      BY <2>1
    <2> QED BY <1>1, <1>5, <2>2 DEF Left, Above
  <1>10. /\ Heap(h1, n + 1, D) /\ h1[n + 1] = fresh(i, d)
         /\ \A q \in 1 .. n : h1[q].id = h[q].id /\ h1[q].data = h[q].data
    BY <1>3 DEF Linked
  <1>11. \A q \in L1 : q # n + 1 => q \in L /\ h[q].id # i
    <2> SUFFICES ASSUME NEW q \in L1, q # n + 1 PROVE q \in L /\ h[q].id # i
      OBVIOUS
    <2>1. q \in L
      BY <1>5 DEF Left
    <2>2. CASE q \in OnWay(s)
      <3>1. PICK j \in 1 .. Len(s) : q = s[j]
        BY <2>2 DEF OnWay
      <3>2. Len(s) \in Nat
        BY <1>4, LastNode
      <3>3. CASE j = Len(s)
        BY <2>1, <3>1, <3>3
      <3>4. CASE j # Len(s)
        <4>1. j < Len(s)
          BY <3>2, <3>4
        <4> QED BY <2>1, <3>1, <4>1 DEF Search
      <3> QED BY <3>3, <3>4
    <2>3. CASE q \notin OnWay(s)
      <3>1. i \notin B[q] /\ h[q].id \in B[q]
        BY <1>1, <2>1, <2>3 DEF Left, Tree
      <3> QED BY <2>1, <3>1
    <2> QED BY <2>2, <2>3
  <1> HIDE DEF L1, C1, U1
  <1>12. Leaf(h1, U1, n + 1, s)
    <2>1. n + 1 \in 1 .. n + 1
      BY <1>5
    <2> QED BY <1>10, <2>1 DEF Leaf, Above, fresh, U1
  <1>13. /\ \E M, V : Climbing(x, h1, n + 1, D, L1, M, C1, V, r, s, 0)
         /\ Shaped(x, h1, n + 1, n + 1, s, 0)
    BY <1>6, <1>7, <1>8, <1>9, <1>10, <1>12, SettleKeeps
  <1>14. PICK M, V : Climbing(x, h1, n + 1, D, L1, M, C1, V, r, s, 0)
    BY <1>13
  <1> HIDE DEF x
  <1>15. /\ Heap(x, n + 1, D) /\ Tree(x, n + 1, M, C1, V) /\ M \subseteq L1
         /\ r \in M /\ V[r] = 0
         /\ \A q \in 1 .. n + 1 : x[q].id = h1[q].id /\ x[q].data = h1[q].data
         /\ \A q \in M : Exact(x, q)
    BY <1>14 DEF Climbing
  <1>16. \A q \in 1 .. n : q \in 1 .. n + 1
    BY <1>5
  <1>17. \A q \in 1 .. n : x[q].id = h[q].id /\ x[q].data = h[q].data
    BY <1>10, <1>15, <1>16
  <1>18. x[n + 1].id = i /\ x[n + 1].data = d
    <2>1. n + 1 \in 1 .. n + 1
      BY <1>5
    <2> QED BY <1>10, <1>15, <2>1 DEF fresh
  <1>19. \A q \in M : g1[x[q].id] = x[q].data
    <2> SUFFICES ASSUME NEW q \in M PROVE g1[x[q].id] = x[q].data
      OBVIOUS
    <2>1. CASE q = n + 1
      BY <1>18, <2>1
    <2>2. CASE q # n + 1
      <3>1. q \in L /\ h[q].id # i /\ q \in 1 .. n
        BY <1>5, <1>11, <1>15, <2>2
      <3>2. g1[h[q].id] = g[h[q].id]
        BY <3>1
      <3> QED BY <1>1, <1>17, <3>1, <3>2
    <2> QED BY <2>1, <2>2
  <1>20. Good(x, n + 1, D, M, C1, V, r, g1)
    <2> HIDE DEF g1
    <2> QED BY <1>15, <1>19 DEF Good
  <1>21. HasNew(x, h, n, D, r, g, l, i, d)
    <2>1. SamePointers(x, h1, n + 1) \/ Turned(x, h1, n + 1, n + 1)
      BY <1>13 DEF Shaped
    <2> QED BY <1>3, <1>17, <1>18, <1>20, <2>1 DEF HasNew, g1
  <1> QED BY <1>21 DEF x, h1, l

\* Front is all but the last element.
LEMMA FrontIs ==
  ASSUME NEW S, NEW s \in Seq(S), s # <<>>
  PROVE  /\ Front(s) \in Seq(S) /\ Len(Front(s)) = Len(s) - 1
         /\ \A j \in 1 .. Len(s) - 1 : Front(s)[j] = s[j]
         /\ Len(s) \in Nat /\ Len(s) >= 1 /\ s[Len(s)] \in S /\ Last(s) = s[Len(s)]
  <1>1. Len(s) \in Nat /\ Len(s) >= 1
    OBVIOUS
  <1>2. Front(s) = SubSeq(s, 1, Len(s) - 1)
    BY DEF Front
  <1>3. /\ SubSeq(s, 1, Len(s) - 1) \in Seq(S)
        /\ Len(SubSeq(s, 1, Len(s) - 1)) = Len(s) - 1
        /\ \A j \in 1 .. Len(s) - 1 : SubSeq(s, 1, Len(s) - 1)[j] = s[j]
    <2> DEFINE m == Len(s) - 1
    <2>0. m \in Nat
      BY <1>1
    <2>1. m \in Int /\ m >= 0 /\ (1 > m => m = 0) /\ m - 1 + 1 = m
      <3> HIDE DEF m
      <3> QED BY <2>0
    <2>2. \A j \in 1 .. m : s[j] \in S /\ j \in Int /\ 1 + j - 1 = j
      BY <1>1
    <2> HIDE DEF m
    <2>3. /\ SubSeq(s, 1, m) \in Seq(S)
          /\ Len(SubSeq(s, 1, m)) = IF 1 <= m THEN m - 1 + 1 ELSE 0
          /\ \A j \in 1 .. m - 1 + 1 : SubSeq(s, 1, m)[j] = s[1 + j - 1]
      BY <2>1, <2>2, SubSeqProperties
    <2>4. Len(SubSeq(s, 1, m)) = m /\ \A j \in 1 .. m : SubSeq(s, 1, m)[j] = s[j]
      BY <2>1, <2>2, <2>3
    <2> QED BY <2>3, <2>4 DEF m
  <1>4. Len(s) \in 1 .. Len(s)
    BY <1>1
  <1> QED BY <1>1, <1>2, <1>3, <1>4 DEF Last

\* An id that is found is not stored again, but its ancestors are settled.
LEMMA InsertFound ==
  ASSUME NEW D, NEW g, NEW h, NEW n, NEW L, NEW B, NEW U, NEW r,
         Good(h, n, D, L, B, U, r, g), NEW i,
         NEW s, Search(h, L, B, U, r, i, s), s # <<>>
  PROVE  /\ \E M, V : Good(settle(h, Front(s)), n, D, M, B, V, r, g)
         /\ \A q \in 1 .. n : settle(h, Front(s))[q].id = h[q].id
  <1> DEFINE t == Front(s)
             x == settle(h, t)
  <1>1. /\ Heap(h, n, D) /\ Tree(h, n, L, B, U) /\ r \in L /\ U[r] = 0
        /\ \A q \in L : Exact(h, q) /\ g[h[q].id] = h[q].data
    BY DEF Good
  <1>2. s \in Seq(L)
    BY DEF Search, Chain
  <1>3. /\ t \in Seq(L) /\ Len(t) = Len(s) - 1 /\ Len(s) \in Nat
        /\ \A j \in 1 .. Len(s) - 1 : t[j] = s[j]
    BY <1>2, FrontIs
  <1> HIDE DEF t
  <1>4. Chain(h, L, B, U, r, t)
    <2>1. \A j \in 1 .. Len(t) : j \in 1 .. Len(s) /\ t[j] = s[j]
      BY <1>3
    <2>2. \A j \in 1 .. Len(t) : j >= 2 => j - 1 \in 1 .. Len(t)
      BY <1>3
    <2>3. Len(t) >= 1 => 1 \in 1 .. Len(t) /\ Len(s) >= 1
      BY <1>3
    <2>4. /\ Len(s) >= 1 => s[1] = r
          /\ \A j \in 1 .. Len(s) : j >= 2 => U[s[j]] = s[j - 1]
          /\ \A a, b \in 1 .. Len(s) : a < b => h[s[a]].id \notin B[s[b]]
      BY DEF Search, Chain
    <2>5. Len(t) >= 1 => t[1] = r
      BY <2>1, <2>3, <2>4
    <2>6. \A j \in 1 .. Len(t) : j >= 2 => U[t[j]] = t[j - 1]
      BY <2>1, <2>2, <2>4
    <2>7. \A a, b \in 1 .. Len(t) : a < b => h[t[a]].id \notin B[t[b]]
      BY <2>1, <2>4
    <2> QED BY <1>3, <2>5, <2>6, <2>7 DEF Chain
  <1>5. PICK M, V : Climbing(x, h, n, D, L, M, B, V, r, t, 0)
    <2>1. Leaf(h, U, 0, t)
      BY DEF Leaf
    <2> QED BY <1>1, <1>4, <2>1, SettleKeeps
  <1> HIDE DEF x
  <1>6. /\ Heap(x, n, D) /\ Tree(x, n, M, B, V) /\ M \subseteq L
        /\ r \in M /\ V[r] = 0
        /\ \A q \in 1 .. n : x[q].id = h[q].id /\ x[q].data = h[q].data
        /\ \A q \in M : Exact(x, q)
    BY <1>5 DEF Climbing
  <1>7. L \subseteq 1 .. n
    BY <1>1 DEF Tree
  <1>8. \A q \in M : g[x[q].id] = x[q].data
    BY <1>1, <1>6, <1>7
  <1>9. Good(x, n, D, M, B, V, r, g)
    BY <1>6, <1>8 DEF Good
  <1> QED BY <1>6, <1>9 DEF x, t

-----------------------------------------------------------------------------
(* The search tree: insertion keeps it                                     *)

\* What the tree is between the operations.
Kempt(I, D, h, r, g) ==
    \/ h = <<>> /\ r = 0
    \/ \E n, L, B, U : /\ Good(h, n, D, L, B, U, r, g)
                       /\ \A q \in 1 .. n : h[q].id \in I

\* In an empty tree a search meets no node.
LEMMA EmptyPath ==
  ASSUME NEW i PROVE path(<<>>, 0, i) = <<>>
  <1> DEFINE f == [k \in {0} |-> <<>>]
  <1>1. Len(<<>>) = 0 /\ Len(<<>>) \in Nat /\ \A k \in 1 .. Len(<<>>) : FALSE
    OBVIOUS
  <1>2. f[0] = <<>>
    OBVIOUS
  <1> HIDE DEF f
  <1>3. Descends(f, <<>>, 0, i)
    BY <1>1, <1>2 DEF Descends
  <1>4. path(<<>>, 0, i) = f[Len(<<>>)]
    BY <1>1, <1>3, PathIs
  <1> QED BY <1>1, <1>2, <1>4

\* h is the tree of one node.
IsFirst(h, I, D, g, i, d) ==
    /\ Kempt(I, D, h, 1, [g EXCEPT ![i] = d])
    /\ Len(h) = 1 /\ h[1] = fresh(i, d)

\* The first insertion makes a tree of one node.
LEMMA FirstNode ==
  ASSUME NEW I, NEW D, NEW G, NEW g \in [I -> G], NEW i \in I, i \in Nat, NEW d \in D
  PROVE  IsFirst(Append(<<>>, fresh(i, d)), I, D, g, i, d)
  <1> DEFINE e == fresh(i, d)
             h == Append(<<>>, e)
             L == {1}
             B == [q \in L |-> {i}]
             U == [q \in L |-> 0]
             g1 == [g EXCEPT ![i] = d]
  <1>1. e \in Record(1, D) /\ Exact(<<e>>, 1) /\ e.child1 = 0 /\ e.child2 = 0
        /\ e.id = i /\ e.data = d
    BY DEF Record, fresh, NULL, Exact, height, higher
  <1> HIDE DEF e
  <1>2. h = <<e>> /\ Len(h) = 1 /\ h[1] = e
    OBVIOUS
  <1>3. Heap(h, 1, D)
    <2>1. h \in [1 .. 1 -> Record(1, D)]
      <3>1. h = [q \in 1 .. 1 |-> e]
        BY <1>2
      <3> HIDE DEF h
      <3> QED BY <1>1, <3>1
    <2> QED BY <2>1 DEF Heap
  <1>4. g1[i] = d
    OBVIOUS
  <1> HIDE DEF g1
  <1>5. Exact(h, 1)
    BY <1>1, <1>2
  <1> HIDE DEF h
  <1>6. Tree(h, 1, L, B, U)
    BY <1>1, <1>2 DEF Tree, NULL
  <1>7. Good(h, 1, D, L, B, U, 1, g1)
    BY <1>1, <1>2, <1>3, <1>4, <1>5, <1>6 DEF Good
  <1>8. \A q \in 1 .. 1 : h[q].id \in I
    BY <1>1, <1>2
  <1>9. Kempt(I, D, h, 1, g1)
    BY <1>7, <1>8 DEF Kempt
  <1>10. IsFirst(h, I, D, g, i, d)
    <2>1. h[1] = fresh(i, d)
      BY <1>2 DEF e
    <2> QED BY <1>2, <1>9, <2>1 DEF IsFirst, g1
  <1> QED BY <1>10 DEF h, e

\* What an insertion that makes x must leave.
Keeps(x, I, D, h, g, i, d) ==
    /\ Kempt(I, D, x.heap, x.root, IF Len(x.heap) > Len(h) THEN [g EXCEPT ![i] = d] ELSE g)
    /\ Len(x.heap) \in {Len(h), Len(h) + 1}
    /\ \A q \in 1 .. Len(h) : x.heap[q].id = h[q].id
    /\ Len(x.heap) > Len(h) => x.heap[Len(x.heap)].id = i

\* bst_insert leaves a tree as it should be, found or not, rotated or not.
LEMMA InsertKeeps ==
  ASSUME NEW I, NEW D, NEW g \in [I -> D \cup {Nothing}], NEW h, NEW r,
         Kempt(I, D, h, r, g), NEW i \in I, i \in Nat, NEW d \in D
  PROVE  Keeps(insert(h, r, i, d), I, D, h, g, i, d)
  <1> DEFINE s == path(h, r, i)
             m == Len(h) + 1
             h1 == Append(h, fresh(i, d))
             x == insert(h, r, i, d)
  <1>1. CASE h = <<>> /\ r = 0
    <2>1. s = <<>>
      BY <1>1, EmptyPath
    <2>2. x = [heap |-> h1, root |-> m]
      BY <2>1 DEF insert
    <2>3. Len(h) = 0 /\ m = 1
      BY <1>1
    <2>4. Kempt(I, D, h1, 1, [g EXCEPT ![i] = d]) /\ Len(h1) = 1 /\ h1[1].id = i
      <3> DEFINE a == Append(<<>>, fresh(i, d))
      <3>1. IsFirst(a, I, D, g, i, d)
        BY FirstNode
      <3>2. h1 = a
        BY <1>1
      <3> HIDE DEF a, h1
      <3> QED BY <3>1, <3>2 DEF IsFirst, fresh
    <2> HIDE DEF h1, x, s, m
    <2>5. x.heap = h1 /\ x.root = 1
      BY <2>2, <2>3
    <2>6. Len(x.heap) > Len(h) /\ Len(x.heap) = Len(h) + 1 /\ \A q \in 1 .. Len(h) : FALSE
      <3>1. Len(x.heap) = 1 /\ Len(h) = 0
        BY <2>3, <2>4, <2>5
      <3>2. 1 > 0 /\ 1 = 0 + 1 /\ \A q \in 1 .. 0 : FALSE
        OBVIOUS
      <3> QED BY <3>1, <3>2, Zenon
    <2>7. Kempt(I, D, x.heap, x.root, IF Len(x.heap) > Len(h) THEN [g EXCEPT ![i] = d] ELSE g)
      BY <2>4, <2>5, <2>6
    <2>8. x.heap[Len(x.heap)].id = i
      BY <2>4, <2>5
    <2>9. Keeps(x, I, D, h, g, i, d)
      BY <2>6, <2>7, <2>8, Zenon DEF Keeps
    <2> QED BY <2>9 DEF x
  <1>2. CASE \E n, L, B, U : /\ Good(h, n, D, L, B, U, r, g)
                             /\ \A q \in 1 .. n : h[q].id \in I
    <2>1. PICK n, L, B, U : /\ Good(h, n, D, L, B, U, r, g)
                            /\ \A q \in 1 .. n : h[q].id \in I
      BY <1>2
    <2>2. /\ Heap(h, n, D) /\ Tree(h, n, L, B, U) /\ r \in L /\ U[r] = 0
      BY <2>1 DEF Good
    <2>3. n \in Nat /\ Len(h) = n /\ m = n + 1
      BY <2>2, HeapLen DEF Heap
    <2>4. Search(h, L, B, U, r, i, s) /\ s # <<>>
      BY <2>2, PathSearches
    <2> HIDE DEF s
    <2>5. s \in Seq(L)
      BY <2>4 DEF Search, Chain
    <2>6. Last(s) = s[Len(s)]
      BY <2>4, <2>5, FrontIs
    <2>7. CASE h[s[Len(s)]].id = i
      <3> DEFINE y == settle(h, Front(s))
      <3>1. x = [heap |-> y, root |-> r]
        BY <2>4, <2>6, <2>7 DEF insert, s
      <3>2. /\ \E M, V : Good(y, n, D, M, B, V, r, g)
            /\ \A q \in 1 .. n : y[q].id = h[q].id
        BY <2>1, <2>4, InsertFound
      <3> HIDE DEF y, x
      <3>3. x.heap = y /\ x.root = r
        BY <3>1
      <3>4. Len(y) = n
        BY <3>2, HeapLen DEF Good
      <3>5. Kempt(I, D, y, r, g)
        BY <2>1, <3>2 DEF Kempt
      <3> QED BY <2>3, <3>2, <3>3, <3>4, <3>5 DEF Keeps, x
    <2>8. CASE h[s[Len(s)]].id # i
      <3> DEFINE y == settle(link(h1, s[Len(s)], i, n + 1), s)
      <3>1. x = [heap |-> y, root |-> r]
        BY <2>3, <2>4, <2>6, <2>8 DEF insert, s
      <3>2. HasNew(y, h, n, D, r, g, s[Len(s)], i, d)
        BY <2>1, <2>4, <2>8, InsertNew
      <3> HIDE DEF y, x
      <3>3. x.heap = y /\ x.root = r
        BY <3>1
      <3>4. Len(y) = n + 1
        BY <3>2, HeapLen DEF Good, HasNew
      <3>5. \A q \in 1 .. n + 1 : y[q].id \in I
        <4>1. \A q \in 1 .. n + 1 : q \in 1 .. n \/ q = n + 1
          BY <2>3
        <4> QED BY <2>1, <3>2, <4>1 DEF HasNew
      <3>6. Kempt(I, D, y, r, [g EXCEPT ![i] = d])
        BY <3>2, <3>5 DEF Kempt, HasNew
      <3> QED BY <2>3, <3>2, <3>3, <3>4, <3>6 DEF Keeps, HasNew, x
    <2> QED BY <2>7, <2>8
  <1> QED BY <1>1, <1>2 DEF Kempt

-----------------------------------------------------------------------------
(* The search tree: its theorems                                           *)

\* A set that holds p, and the children of what it holds, holds all that p
\* leads to.
LEMMA ReachableIn ==
  ASSUME NEW h, Len(h) \in Nat, NEW p, NEW R, p = 0 \/ p \in R,
         \A q \in R : children(h, q) \subseteq R
  PROVE  reachable(h, p) \subseteq R
  <1> DEFINE n == Len(h)
             S == 0 .. n
             from == {p} \ {0}
             more(ps) == ps \cup UNION {children(h, q) : q \in ps}
             body(g, k) == IF k = 0 THEN from ELSE more(g[k - 1])
             within == CHOOSE g : g = [k \in S |-> body(g, k)]
             a == [z \in Nat \X SUBSET R |-> more(z[2])]
  <1>1. n \in Nat
    OBVIOUS
  <1>2. reachable(h, p) = within[n]
    BY DEF reachable, NULL
  <1>3. from \in SUBSET R /\ \A ps \in SUBSET R : more(ps) \in SUBSET R
    OBVIOUS
  <1> HIDE DEF n, from, more
  <1>4. PICK f \in [0 .. n -> SUBSET R] : Iterates(f, from, a, n)
    <2>1. a \in [Nat \X SUBSET R -> SUBSET R]
      BY <1>3
    <2> HIDE DEF a
    <2> QED BY <1>1, <1>3, <2>1, LoopRuns
  <1>5. \A k \in S : f[k] = body(f, k)
    <2> SUFFICES ASSUME NEW k \in S PROVE f[k] = body(f, k)
      OBVIOUS
    <2>1. CASE k = 0
      BY <1>4, <2>1 DEF Iterates
    <2>2. CASE k # 0
      <3>1. k \in 1 .. n /\ k - 1 \in 0 .. n /\ k \in Nat
        BY <1>1, <2>2
      <3>2. f[k] = a[<<k, f[k - 1]>>]
        BY <1>4, <3>1 DEF Iterates
      <3>3. f[k - 1] \in SUBSET R
        BY <1>4, <3>1
      <3>4. a[<<k, f[k - 1]>>] = more(f[k - 1])
        BY <3>1, <3>3
      <3> QED BY <2>2, <3>2, <3>4
    <2> QED BY <2>1, <2>2
  <1> HIDE DEF a
  <1>6. within = [k \in S |-> body(within, k)]
    <2> DEFINE e == [k \in S |-> f[k]]
    <2>1. \A k \in S : e[k] = body(e, k)
      <3> SUFFICES ASSUME NEW k \in S PROVE e[k] = body(e, k)
        OBVIOUS
      <3>1. k # 0 => k - 1 \in S
        BY <1>1
      <3>2. e[k] = f[k] /\ (k # 0 => e[k - 1] = f[k - 1])
        BY <3>1
      <3> HIDE DEF e
      <3> QED BY <1>5, <3>2
    <2> HIDE DEF body
    <2>2. e = [k \in S |-> body(e, k)]
      BY <2>1
    <2> HIDE DEF e
    <2> QED BY <2>2
  <1> HIDE DEF within
  <1>7. \A k \in S : within[k] = body(within, k)
    <2> HIDE DEF body
    <2> QED BY <1>6
  <1> DEFINE T == {k \in S : within[k] \in SUBSET R}
  <1>8. \A k \in 0 .. n : k \in T
    <2>1. 0 \in T
      BY <1>1, <1>3, <1>7
    <2>2. ASSUME NEW k \in 0 .. n - 1, k \in T
          PROVE  k + 1 \in T
      <3>1. k + 1 \in S /\ k + 1 # 0 /\ (k + 1) - 1 = k /\ within[k] \in SUBSET R
        BY <1>1, <2>2
      <3>2. within[k + 1] = more(within[k])
        BY <1>7, <3>1
      <3> QED BY <1>3, <3>1, <3>2
    <2> HIDE DEF T
    <2> QED BY <1>1, <2>1, <2>2, UpTo
  <1>9. n \in 0 .. n
    BY <1>1
  <1>10. within[n] \in SUBSET R
    BY <1>8, <1>9
  <1> QED BY <1>2, <1>10

\* What a search of a tree returns was given for the id.
LEMMA SearchFinds ==
  ASSUME NEW I, NEW D, NEW h, NEW r, NEW g, Kempt(I, D, h, r, g), NEW i
  PROVE  bst_search(h, r, i) = Nothing \/ bst_search(h, r, i) = g[i]
  <1> DEFINE s == path(h, r, i)
  <1>1. CASE h = <<>> /\ r = 0
    <2>1. s = <<>>
      BY <1>1, EmptyPath
    <2> QED BY <2>1 DEF bst_search
  <1>2. CASE \E n, L, B, U : /\ Good(h, n, D, L, B, U, r, g)
                             /\ \A q \in 1 .. n : h[q].id \in I
    <2>1. PICK n, L, B, U : Good(h, n, D, L, B, U, r, g)
      BY <1>2
    <2>2. /\ Heap(h, n, D) /\ Tree(h, n, L, B, U) /\ r \in L /\ U[r] = 0
          /\ \A q \in L : g[h[q].id] = h[q].data
      BY <2>1 DEF Good
    <2>3. Search(h, L, B, U, r, i, s) /\ s # <<>>
      BY <2>2, PathSearches
    <2>4. bst_search(h, r, i) = IF h[Last(s)].id = i THEN h[Last(s)].data ELSE Nothing
      BY <2>3 DEF bst_search
    <2> HIDE DEF s
    <2>5. s \in Seq(L)
      BY <2>3 DEF Search, Chain
    <2>6. Last(s) \in L
      BY <2>3, <2>5, FrontIs
    <2>7. g[h[Last(s)].id] = h[Last(s)].data
      BY <2>2, <2>6
    <2> QED BY <2>4, <2>7
  <1> QED BY <1>1, <1>2 DEF Kempt

\* A tree is in order, and measured.
LEMMA KemptIs ==
  ASSUME Kempt(Ids, Data, heap, root, given)
  PROVE  Ordered /\ Measured
  <1>1. CASE heap = <<>> /\ root = 0
    <2>1. InTree \subseteq {}
      <3>1. Len(heap) \in Nat
        BY <1>1
      <3> DEFINE none == {}
      <3>2. \A q \in none : children(heap, q) \subseteq none
        OBVIOUS
      <3> HIDE DEF none
      <3>3. reachable(heap, root) \subseteq none
        BY <1>1, <3>1, <3>2, ReachableIn
      <3> QED BY <3>3 DEF InTree, none
    <2> QED BY <2>1 DEF Ordered, Measured
  <1>2. CASE \E n, L, B, U : /\ Good(heap, n, Data, L, B, U, root, given)
                             /\ \A q \in 1 .. n : heap[q].id \in Ids
    <2>1. PICK n, L, B, U : Good(heap, n, Data, L, B, U, root, given)
      BY <1>2
    <2>2. /\ Heap(heap, n, Data) /\ Tree(heap, n, L, B, U) /\ root \in L
          /\ \A q \in L : Exact(heap, q)
      BY <2>1 DEF Good
    <2>3. Len(heap) = n /\ n \in Nat
      BY <2>2, HeapLen DEF Heap
    <2>4. \A q \in L : NodeIn(heap, n, L, B, U, q)
      BY <2>2, NodeIs
    <2>5. \A q \in L : children(heap, q) \subseteq L
      BY <2>4 DEF children, NodeIn, NULL
    <2>6. InTree \subseteq L
      <3>1. reachable(heap, root) \subseteq L
        BY <2>2, <2>3, <2>5, ReachableIn
      <3> QED BY <3>1 DEF InTree
    <2>7. ASSUME NEW c, c = 0 \/ c \in L
          PROVE  \A q \in reachable(heap, c) : c # 0 /\ heap[q].id \in B[c]
      <3> DEFINE R == IF c = 0 THEN {} ELSE {q \in L : B[q] \subseteq B[c]}
      <3>1. c = 0 \/ c \in R
        BY <2>7
      <3>2. \A q \in R : children(heap, q) \subseteq R
        <4> SUFFICES ASSUME NEW q \in R, NEW e \in children(heap, q) PROVE e \in R
          OBVIOUS
        <4>1. q \in L /\ B[q] \subseteq B[c] /\ c # 0
          OBVIOUS
        <4>2. e \in L /\ B[e] \subseteq B[q]
          BY <2>4, <4>1 DEF children, NodeIn, NULL
        <4> QED BY <4>1, <4>2
      <3> HIDE DEF R
      <3>3. reachable(heap, c) \subseteq R
        BY <2>3, <3>1, <3>2, ReachableIn
      <3>4. \A q \in R : c # 0 /\ q \in L /\ B[q] \subseteq B[c]
        BY DEF R
      <3> QED BY <2>4, <3>3, <3>4 DEF NodeIn
    <2>8. Ordered
      <3> SUFFICES ASSUME NEW p \in InTree
                   PROVE  /\ \A q \in reachable(heap, heap[p].child1) : heap[q].id < heap[p].id
                          /\ \A q \in reachable(heap, heap[p].child2) : heap[q].id > heap[p].id
        BY DEF Ordered
      <3>1. NodeIn(heap, n, L, B, U, p)
        BY <2>4, <2>6
      <3> DEFINE c1 == heap[p].child1
                 c2 == heap[p].child2
      <3>2. /\ c1 = 0 \/ c1 \in L
            /\ c2 = 0 \/ c2 \in L
            /\ c1 # 0 => \A e \in B[c1] : e < heap[p].id
            /\ c2 # 0 => \A e \in B[c2] : e > heap[p].id
        BY <3>1 DEF NodeIn
      <3> HIDE DEF c1, c2
      <3>3. \A q \in reachable(heap, c1) : heap[q].id < heap[p].id
        BY <2>7, <3>2
      <3>4. \A q \in reachable(heap, c2) : heap[q].id > heap[p].id
        BY <2>7, <3>2
      <3> QED BY <3>3, <3>4 DEF c1, c2
    <2>9. Measured
      BY <2>2, <2>6 DEF Measured, Exact
    <2> QED BY <2>8, <2>9
  <1> QED BY <1>1, <1>2 DEF Kempt

\* The nodes of a tree have the ids and the data there are.
LEMMA KemptTypes ==
  ASSUME Kempt(Ids, Data, heap, root, given)
  PROVE  /\ heap \in Seq([id : Ids, data : Data, child1 : Pointers, child2 : Pointers,
                          height : Nat])
         /\ root \in Pointers
         /\ Len(heap) \in Nat
  <1> DEFINE R == [id : Ids, data : Data, child1 : Pointers, child2 : Pointers,
                   height : Nat]
  <1>1. CASE heap = <<>> /\ root = 0
    BY <1>1 DEF Pointers, NULL
  <1>2. CASE \E n, L, B, U : /\ Good(heap, n, Data, L, B, U, root, given)
                             /\ \A q \in 1 .. n : heap[q].id \in Ids
    <2>1. PICK n, L, B, U : /\ Good(heap, n, Data, L, B, U, root, given)
                            /\ \A q \in 1 .. n : heap[q].id \in Ids
      BY <1>2
    <2>2. Heap(heap, n, Data) /\ L \subseteq 1 .. n /\ root \in L
      BY <2>1 DEF Good, Tree
    <2>3. Len(heap) = n /\ n \in Nat /\ heap \in [1 .. n -> Record(n, Data)]
      BY <2>2, HeapLen DEF Heap
    <2>4. 0 .. n \subseteq Pointers /\ root \in Pointers
      <3>1. \A c \in 0 .. n : c = 0 \/ c \in 1 .. n
        BY <2>3
      <3> QED BY <2>2, <2>3, <3>1 DEF Pointers, Nodes, NULL
    <2>5. \A q \in 1 .. n : heap[q] \in R
      BY <2>1, <2>3, <2>4 DEF Record
    <2> HIDE DEF R
    <2>6. heap \in [1 .. n -> R]
      BY <2>3, <2>5
    <2>7. heap \in Seq(R)
      BY <2>3, <2>6, SeqDef, Zenon
    <2> QED BY <2>3, <2>4, <2>7 DEF R
  <1> QED BY <1>1, <1>2 DEF Kempt

\* The inductive invariant of insertion.
InsertInv ==
    /\ Kempt(Ids, Data, heap, root, given)
    /\ given \in [Ids -> Data \cup {Nothing}]
    /\ Len(heap) \in Nat /\ Len(heap) <= MaxNodes

\* It holds in every state.
LEMMA InsertInvHolds == InsertSpec => []InsertInv
  <1>1. BstInit => InsertInv
    <2> SUFFICES ASSUME BstInit PROVE InsertInv
      OBVIOUS
    <2>1. heap = <<>> /\ root = 0 /\ given = [i \in Ids |-> Nothing]
      BY DEF BstInit, NULL
    <2>2. Len(<<>>) = 0 /\ MaxNodes \in Nat
      BY BstAssumption
    <2> QED BY <2>1, <2>2 DEF InsertInv, Kempt
  <1>2. InsertInv /\ [Insert]_bstVars => InsertInv'
    <2> SUFFICES ASSUME InsertInv, [Insert]_bstVars PROVE InsertInv'
      OBVIOUS
    <2>1. CASE UNCHANGED bstVars
      BY <2>1 DEF bstVars, InsertInv
    <2>2. ASSUME NEW i \in Ids, NEW d \in Data, bst_insert(i, d)
          PROVE  InsertInv'
      <3> DEFINE x == insert(heap, root, i, d)
      <3>1. /\ Len(heap) < MaxNodes /\ heap' = x.heap /\ root' = x.root
            /\ given' = IF Len(x.heap) > Len(heap) THEN [given EXCEPT ![i] = d] ELSE given
        BY <2>2 DEF bst_insert
      <3>2. Keeps(x, Ids, Data, heap, given, i, d)
        <4>1. i \in Nat
          BY BstAssumption
        <4> QED BY <4>1, InsertKeeps DEF InsertInv
      <3> HIDE DEF x
      <3>3. Kempt(Ids, Data, heap', root', given')
        BY <3>1, <3>2, Zenon DEF Keeps
      <3>4. given' \in [Ids -> Data \cup {Nothing}]
        BY <3>1 DEF InsertInv
      <3>5. Len(heap') \in Nat /\ Len(heap') <= MaxNodes
        BY <3>1, <3>2, BstAssumption DEF Keeps, InsertInv
      <3> QED BY <3>3, <3>4, <3>5 DEF InsertInv
    <2> QED BY <2>1, <2>2 DEF Insert
  <1> QED BY <1>1, <1>2, PTL DEF InsertSpec

(* bst_search finds under an id what bst_insert stored there, or nothing:  *)
(* SearchIsSound of the run, for every number of insertions, ids and data, *)
(* and whatever the rotations took out of the tree.                        *)
THEOREM BstSearchIsSound == InsertSpec => []SearchIsSound
  <1>1. InsertInv => SearchIsSound
    <2> SUFFICES ASSUME InsertInv, NEW id \in Ids
                 PROVE  bst_search(heap, root, id) \in {Nothing, given[id]}
      BY DEF SearchIsSound
    <2> QED BY SearchFinds DEF InsertInv
  <1> QED BY <1>1, InsertInvHolds, PTL

(* What bst_insert and balance leave below root is a search tree in which  *)
(* every height is exact, so balance decides on true heights: WellFormed   *)
(* of the run, for every number of insertions.                             *)
THEOREM BstWellFormed == InsertSpec => []WellFormed
  <1>1. InsertInv => WellFormed
    <2> SUFFICES ASSUME InsertInv PROVE WellFormed
      OBVIOUS
    <2>1. TypeOK
      BY KemptTypes DEF TypeOK, InsertInv
    <2>2. Ordered /\ Measured
      BY KemptIs DEF InsertInv
    <2> QED BY <2>1, <2>2 DEF WellFormed
  <1> QED BY <1>1, InsertInvHolds, PTL

-----------------------------------------------------------------------------
(* The search tree: one node, or two                                       *)

\* Of one node or two none is lost: h is the first node with the second one
\* below it, if there is one.  The third is for a third id.
Small(h, r) ==
    /\ Len(h) >= 1 => r = 1
    /\ Len(h) = 1 => h[1].child1 = 0 /\ h[1].child2 = 0
    /\ Len(h) = 2 =>
          /\ h[2].child1 = 0 /\ h[2].child2 = 0 /\ h[2].height = 0
          /\ h[2].id < h[1].id => h[1].child1 = 2 /\ h[1].child2 = 0
          /\ h[2].id > h[1].id => h[1].child1 = 0 /\ h[1].child2 = 2
    /\ Len(h) >= 2 => h[1].id # h[2].id
    /\ Len(h) >= 3 => h[1].id # h[3].id /\ h[2].id # h[3].id

\* With one node a search ends there.
LEMMA PathOfOne ==
  ASSUME NEW h, NEW D, Heap(h, 1, D), NEW i
  PROVE  path(h, 1, i) = <<1>>
  <1> DEFINE f == [k \in 0 .. 1 |-> IF k = 0 THEN <<>> ELSE <<1>>]
  <1>1. Len(h) = 1
    BY HeapLen
  <1>2. f[0] = <<>> /\ f[1] = <<1>>
    OBVIOUS
  <1> HIDE DEF f
  <1>3. onward(h, 1, i, <<>>) = <<1>>
    BY DEF onward, NULL, Wild
  <1>4. \A k \in 1 .. 1 : k = 1 /\ k - 1 = 0
    OBVIOUS
  <1>5. Descends(f, h, 1, i)
    BY <1>1, <1>2, <1>3, <1>4 DEF Descends
  <1>6. Len(h) \in Nat
    BY <1>1
  <1>7. path(h, 1, i) = f[Len(h)]
    BY <1>5, <1>6, PathIs
  <1> QED BY <1>1, <1>2, <1>7

\* With two nodes a search ends at the first one or goes on to the second.
LEMMA PathOfTwo ==
  ASSUME NEW h, NEW D, Heap(h, 2, D), NEW i, NEW c, c = next(h, 1, i), c \in {0, 2}
  PROVE  path(h, 1, i) = IF c = 0 THEN <<1>> ELSE <<1, 2>>
  <1> DEFINE two == IF c = 0 THEN <<1>> ELSE <<1, 2>>
             f == [k \in 0 .. 2 |-> IF k = 0 THEN <<>> ELSE IF k = 1 THEN <<1>> ELSE two]
  <1>1. Len(h) = 2
    BY HeapLen
  <1>2. f[0] = <<>> /\ f[1] = <<1>> /\ f[2] = two
    <2> HIDE DEF two
    <2> QED OBVIOUS
  <1> HIDE DEF f
  <1>3. onward(h, 1, i, <<>>) = <<1>>
    BY DEF onward, NULL, Wild
  <1>4. onward(h, 1, i, <<1>>) = two
    <2>0. Append(<<1>>, 2) = <<1, 2>>
      <3> DEFINE t == Append(<<1>>, 2)
                 u == <<1, 2>>
                 v == <<1>>
      <3>1. v \in Seq(Nat) /\ Len(v) = 1 /\ v[1] = 1
        OBVIOUS
      <3>2. u \in Seq(Nat) /\ Len(u) = 2 /\ u[1] = 1 /\ u[2] = 2
        OBVIOUS
      <3> HIDE DEF v, u
      <3>3. t \in Seq(Nat) /\ Len(t) = 2 /\ t[1] = 1 /\ t[2] = 2
        BY <3>1
      <3> HIDE DEF t
      <3>4. \A k \in 1 .. Len(t) : t[k] = u[k]
        BY <3>2, <3>3
      <3>5. t = u
        BY <3>2, <3>3, <3>4, SeqEqual
      <3> QED BY <3>5 DEF t, u, v
    <2>1. Last(<<1>>) = 1 /\ <<1>> # <<>> /\ Append(<<1>>, 2) = <<1, 2>>
      BY <2>0 DEF Last
    <2>2. onward(h, 1, i, <<1>>) = IF c \in {0, -1} THEN <<1>> ELSE Append(<<1>>, c)
      BY <2>1 DEF onward, NULL, Wild
    <2>3. CASE c = 0
      BY <2>2, <2>3
    <2>4. CASE c = 2
      BY <2>1, <2>2, <2>4
    <2> QED BY <2>3, <2>4
  <1> HIDE DEF two
  <1>5. ASSUME NEW k \in 1 .. 2
        PROVE  f[k] = onward(h, 1, i, f[k - 1])
    <2>1. CASE k = 1
      BY <1>2, <1>3, <2>1
    <2>2. CASE k = 2
      BY <1>2, <1>4, <2>2
    <2> QED BY <2>1, <2>2
  <1>6. Descends(f, h, 1, i)
    BY <1>1, <1>2, <1>5 DEF Descends
  <1>7. Len(h) \in Nat
    BY <1>1
  <1>8. path(h, 1, i) = f[Len(h)]
    BY <1>6, <1>7, PathIs
  <1> QED BY <1>1, <1>2, <1>8 DEF two

\* With one node or two a search finds every id there is.
LEMMA SmallFinds ==
  ASSUME NEW D, NEW h, NEW n \in {1, 2}, Heap(h, n, D), NEW r, Small(h, r),
         NEW q \in 1 .. n
  PROVE  /\ Last(path(h, r, h[q].id)) = q /\ path(h, r, h[q].id) # <<>>
         /\ path(h, r, h[q].id) \in {<<1>>, <<1, 2>>}
  <1> DEFINE i == h[q].id
             s == path(h, r, i)
  <1>1. Len(h) = n /\ n \in Nat /\ n >= 1 /\ r = 1
    BY HeapLen DEF Small
  <1>2. Last(<<1>>) = 1 /\ Last(<<1, 2>>) = 2 /\ <<1>> # <<>> /\ <<1, 2>> # <<>>
    BY DEF Last
  <1>3. CASE n = 1
    <2>1. q = 1 /\ s = <<1>>
      BY <1>1, <1>3, PathOfOne
    <2> QED BY <1>2, <2>1
  <1>4. CASE n = 2
    <2>1. /\ h[1].id # h[2].id /\ h[1].id \in Nat /\ h[2].id \in Nat
          /\ h[2].id < h[1].id => h[1].child1 = 2
          /\ h[2].id > h[1].id => h[1].child2 = 2
      BY <1>1, <1>4 DEF Small, Heap, Record
    <2>2. CASE q = 1
      <3>1. next(h, 1, i) = 0
        BY <2>2 DEF next, NULL
      <3>2. s = <<1>>
        BY <1>1, <1>4, <3>1, PathOfTwo
      <3> QED BY <1>2, <2>2, <3>2
    <2>3. CASE q = 2
      <3>1. next(h, 1, i) = 2
        BY <2>1, <2>3 DEF next, NULL
      <3>2. s = <<1, 2>>
        BY <1>1, <1>4, <3>1, PathOfTwo
      <3> QED BY <1>2, <2>3, <3>2
    <2> QED BY <1>4, <2>2, <2>3
  <1> QED BY <1>3, <1>4

\* The first node has no ancestors to settle.
LEMMA SettleNone ==
  ASSUME NEW h PROVE settle(h, <<>>) = h
  <1> DEFINE f == [k \in {0} |-> h]
  <1>1. Len(<<>>) = 0 /\ <<>> \in Seq(Nat) /\ \A k \in 1 .. Len(<<>>) : FALSE
    OBVIOUS
  <1>2. f[0] = h
    OBVIOUS
  <1> HIDE DEF f
  <1>3. Settles(f, h, <<>>)
    BY <1>1, <1>2 DEF Settles
  <1> QED BY <1>1, <1>2, <1>3, SettleIs

\* One ancestor is settled by one measurement and one balance.
LEMMA SettleOne ==
  ASSUME NEW h PROVE settle(h, <<1>>) = balance(update_height(h, 1), 1).heap
  <1> DEFINE x == balance(update_height(h, 1), 1).heap
             f == [k \in 0 .. 1 |-> IF k = 0 THEN h ELSE x]
             one == <<1>>
  <1>1. Len(one) = 1 /\ one \in Seq(Nat) /\ one[1] = 1
    OBVIOUS
  <1>2. f[0] = h /\ f[1] = x
    <2> HIDE DEF x
    <2> QED OBVIOUS
  <1> HIDE DEF f, one
  <1>3. \A k \in 1 .. 1 : k = 1 /\ k - 1 = 0 /\ 1 + 1 - k = 1
    OBVIOUS
  <1>4. Settles(f, h, one)
    BY <1>1, <1>2, <1>3 DEF Settles
  <1>5. settle(h, one) = f[1]
    BY <1>1, <1>4, SettleIs
  <1> QED BY <1>2, <1>5 DEF one

\* Two nodes are not rotated.
LEMMA TwoStay ==
  ASSUME NEW h, NEW D, Heap(h, 2, D),
         \/ h[1].child1 = 2 /\ h[1].child2 = 0
         \/ h[1].child1 = 0 /\ h[1].child2 = 2,
         h[2].height = 0
  PROVE  settle(h, <<1>>) = update_height(h, 1)
  <1> DEFINE g == update_height(h, 1)
  <1>1. Remeasured(g, h, 2, D, 1)
    <2>1. 1 \in 1 .. 2 /\ h[1].child1 \in 0 .. 2 /\ h[1].child2 \in 0 .. 2
      OBVIOUS
    <2> QED BY <2>1, UpdateHeight
  <1> HIDE DEF g
  <1>2. /\ g[1].child1 = h[1].child1 /\ g[1].child2 = h[1].child2 /\ g[2].height = 0
    <2>1. 1 \in 1 .. 2 /\ 2 \in 1 .. 2 /\ 2 # 1
      OBVIOUS
    <2> QED BY <1>1, <2>1 DEF Remeasured
  <1>3. balance_factor(g, 1) \in {1, -1}
    BY <1>2 DEF balance_factor, height, NULL
  <1>4. ~ (balance_factor(g, 1) > 1) /\ ~ (balance_factor(g, 1) < -1)
    BY <1>3
  <1>5. balance(g, 1).heap = g
    BY <1>4, Zenon DEF balance
  <1> QED BY <1>5, SettleOne DEF g

\* The fronts of the two ways there are.
LEMMA FrontsOf == Front(<<1>>) = <<>> /\ Front(<<1, 2>>) = <<1>>
  <1> DEFINE u == <<1, 2>>
             v == <<1>>
  <1>1. v \in Seq(Nat) /\ Len(v) = 1 /\ v[1] = 1 /\ v # <<>>
    OBVIOUS
  <1>2. u \in Seq(Nat) /\ Len(u) = 2 /\ u[1] = 1 /\ u # <<>>
    OBVIOUS
  <1> HIDE DEF u, v
  <1>3. Front(v) \in Seq(Nat) /\ Len(Front(v)) = 0
    BY <1>1, FrontIs
  <1>4. Front(u) \in Seq(Nat) /\ Len(Front(u)) = 1 /\ Front(u)[1] = 1
    <2>1. /\ Front(u) \in Seq(Nat) /\ Len(Front(u)) = Len(u) - 1
          /\ \A j \in 1 .. Len(u) - 1 : Front(u)[j] = u[j]
      BY <1>2, FrontIs
    <2>2. Len(u) - 1 = 1 /\ 1 \in 1 .. 1
      BY <1>2
    <2> QED BY <1>2, <2>1, <2>2
  <1>5. Front(v) = <<>>
    BY <1>3
  <1>6. \A k \in 1 .. Len(Front(u)) : Front(u)[k] = v[k]
    BY <1>1, <1>4
  <1>7. Front(u) = v
    BY <1>1, <1>4, <1>6, SeqEqual
  <1> QED BY <1>5, <1>7 DEF u, v

\* The branches of insert.
LEMMA InsertCases ==
  ASSUME NEW h, NEW r, NEW i, NEW d
  PROVE  /\ path(h, r, i) = <<>> =>
               /\ insert(h, r, i, d).heap = Append(h, fresh(i, d))
               /\ insert(h, r, i, d).root = Len(h) + 1
         /\ path(h, r, i) # <<>> => insert(h, r, i, d).root = r
         /\ path(h, r, i) # <<>> /\ h[Last(path(h, r, i))].id = i =>
               insert(h, r, i, d).heap = settle(h, Front(path(h, r, i)))
         /\ path(h, r, i) # <<>> /\ h[Last(path(h, r, i))].id # i =>
               insert(h, r, i, d).heap =
                  settle(link(Append(h, fresh(i, d)), Last(path(h, r, i)), i, Len(h) + 1),
                         path(h, r, i))
  <1> DEFINE s == path(h, r, i)
             x == insert(h, r, i, d)
             y == settle(h, Front(s))
             z == settle(link(Append(h, fresh(i, d)), Last(s), i, Len(h) + 1), s)
             h1 == Append(h, fresh(i, d))
             m == Len(h) + 1
  <1>1. CASE s = <<>>
    <2>1. x = [heap |-> h1, root |-> m]
      BY <1>1 DEF insert
    <2> HIDE DEF x, h1, m
    <2>2. x.heap = h1 /\ x.root = m
      BY <2>1
    <2> QED BY <1>1, <2>2 DEF x, h1, m
  <1>2. CASE s # <<>> /\ h[Last(s)].id = i
    <2>1. x = [heap |-> y, root |-> r]
      BY <1>2 DEF insert
    <2> HIDE DEF x, y
    <2>2. x.heap = y /\ x.root = r
      BY <2>1
    <2> QED BY <1>2, <2>2 DEF x, y
  <1>3. CASE s # <<>> /\ h[Last(s)].id # i
    <2>1. x = [heap |-> z, root |-> r]
      BY <1>3 DEF insert
    <2> HIDE DEF x, z
    <2>2. x.heap = z /\ x.root = r
      BY <2>1
    <2> QED BY <1>3, <2>2 DEF x, z
  <1> QED BY <1>1, <1>2, <1>3

\* It stays so when more is inserted.
LEMMA SmallKeeps ==
  ASSUME NEW I, NEW D, NEW g \in [I -> D \cup {Nothing}], NEW h, NEW r,
         Kempt(I, D, h, r, g), Small(h, r), NEW i \in I, i \in Nat, NEW d \in D
  PROVE  Small(insert(h, r, i, d).heap, insert(h, r, i, d).root)
  <1> DEFINE s == path(h, r, i)
             x == insert(h, r, i, d)
  <1>0. Keeps(x, I, D, h, g, i, d)
    BY InsertKeeps
  <1>1. /\ s = <<>> => x.heap = Append(h, fresh(i, d)) /\ x.root = Len(h) + 1
        /\ s # <<>> => x.root = r
        /\ s # <<>> /\ h[Last(s)].id = i => x.heap = settle(h, Front(s))
        /\ s # <<>> /\ h[Last(s)].id # i =>
              x.heap = settle(link(Append(h, fresh(i, d)), Last(s), i, Len(h) + 1), s)
    BY InsertCases
  <1> SUFFICES Small(x.heap, x.root)
    OBVIOUS
  <1> HIDE DEF x, s
  <1>2. CASE h = <<>> /\ r = 0
    <2>1. s = <<>>
      BY <1>2, EmptyPath DEF s
    <2> DEFINE e == fresh(i, d)
    <2>2. Append(<<>>, e) = <<e>> /\ Len(<<e>>) = 1 /\ <<e>>[1] = e /\ Len(<<>>) = 0
      <3> HIDE DEF e
      <3> QED OBVIOUS
    <2>3. x.heap = <<e>> /\ x.root = 1
      BY <1>1, <1>2, <2>1, <2>2
    <2>4. e.child1 = 0 /\ e.child2 = 0
      BY DEF fresh, NULL
    <2> HIDE DEF e
    <2>5. Len(x.heap) = 1 /\ x.heap[1] = e
      BY <2>2, <2>3
    <2> QED BY <2>3, <2>4, <2>5 DEF Small
  <1>3. CASE \E n, L, B, U : /\ Good(h, n, D, L, B, U, r, g)
                             /\ \A q \in 1 .. n : h[q].id \in I
    <2>1. PICK n, L, B, U : Good(h, n, D, L, B, U, r, g)
      BY <1>3
    <2>2. Heap(h, n, D) /\ Tree(h, n, L, B, U) /\ r \in L /\ U[r] = 0
      BY <2>1 DEF Good
    <2>3. /\ n \in Nat /\ Len(h) = n /\ n >= 1 /\ r = 1
      <3>1. n \in Nat /\ Len(h) = n /\ L \subseteq 1 .. n
        BY <2>2, HeapLen DEF Heap, Tree
      <3>2. n >= 1
        BY <2>2, <3>1
      <3> QED BY <3>1, <3>2 DEF Small
    <2>4. s # <<>>
      BY <2>2, PathSearches DEF s
    <2>5. x.root = 1
      BY <1>1, <2>3, <2>4
    <2>6. /\ Len(x.heap) \in {n, n + 1}
          /\ \A q \in 1 .. n : x.heap[q].id = h[q].id
          /\ Len(x.heap) > n => x.heap[Len(x.heap)].id = i
      BY <1>0, <2>3 DEF Keeps
    <2>7. CASE n >= 3
      <3>1. Len(x.heap) \in Nat /\ Len(x.heap) >= 3
        BY <2>3, <2>6, <2>7
      <3>2. 1 \in 1 .. n /\ 2 \in 1 .. n /\ 3 \in 1 .. n
        BY <2>3, <2>7
      <3>3. h[1].id # h[2].id /\ h[1].id # h[3].id /\ h[2].id # h[3].id
        BY <2>3, <2>7 DEF Small
      <3> QED BY <2>5, <2>6, <3>1, <3>2, <3>3 DEF Small
    <2>8. CASE n = 1
      <3>1. s = <<1>>
        BY <2>2, <2>3, <2>8, PathOfOne DEF s
      <3>2. Last(<<1>>) = 1
        BY DEF Last
      <3>3. h[1].child1 = 0 /\ h[1].child2 = 0 /\ h[1].id \in Nat
        BY <2>2, <2>3, <2>8 DEF Small, Heap, Record
      <3>4. CASE h[1].id = i
        <4>1. x.heap = h
          BY <1>1, <2>4, <3>1, <3>2, <3>4, FrontsOf, SettleNone
        <4> QED BY <2>3, <2>5, <4>1
      <3>5. CASE h[1].id # i
        <4> DEFINE k == link(Append(h, fresh(i, d)), 1, i, 2)
        <4>1. 1 + 1 = 2 /\ Len(h) + 1 = 2 /\ 1 \in 1 .. 1
          BY <2>3, <2>8
        <4>2. x.heap = settle(k, <<1>>)
          BY <1>1, <2>4, <3>1, <3>2, <3>5, <4>1
        <4>3. Linked(link(Append(h, fresh(i, d)), 1, i, 1 + 1), h, 1, D, 1, i, d)
          BY <2>2, <2>8, <3>5, <4>1, LinkIs
        <4>4. Linked(k, h, 1, D, 1, i, d)
          BY <4>1, <4>3
        <4> HIDE DEF k
        <4>5. /\ Heap(k, 2, D) /\ k[2] = fresh(i, d) /\ k[1].id = h[1].id
              /\ i < h[1].id => k[1].child1 = 2 /\ k[1].child2 = 0
              /\ i > h[1].id => k[1].child2 = 2 /\ k[1].child1 = 0
          BY <3>3, <4>1, <4>4 DEF Linked
        <4>6. i < h[1].id \/ i > h[1].id
          BY <3>3, <3>5
        <4>7. /\ k[2].height = 0 /\ k[2].child1 = 0 /\ k[2].child2 = 0 /\ k[2].id = i
          BY <4>5 DEF fresh, NULL
        <4>8. x.heap = update_height(k, 1)
          BY <4>2, <4>5, <4>6, <4>7, TwoStay
        <4>9. Remeasured(x.heap, k, 2, D, 1)
          <5>1. 1 \in 1 .. 2 /\ k[1].child1 \in 0 .. 2 /\ k[1].child2 \in 0 .. 2
            BY <4>5, <4>6
          <5> QED BY <4>5, <4>8, <5>1, UpdateHeight
        <4>10. /\ x.heap[1].id = h[1].id /\ x.heap[1].child1 = k[1].child1
               /\ x.heap[1].child2 = k[1].child2 /\ x.heap[2] = k[2]
          <5>1. 1 \in 1 .. 2 /\ 2 \in 1 .. 2 /\ 2 # 1
            OBVIOUS
          <5> QED BY <4>5, <4>9, <5>1 DEF Remeasured
        <4>11. Len(x.heap) = 2
          BY <4>9, HeapLen, Zenon DEF Remeasured
        <4> QED BY <2>5, <3>5, <4>5, <4>7, <4>10, <4>11 DEF Small
      <3> QED BY <3>4, <3>5
    <2>9. CASE n = 2
      <3>1. /\ h[2].child1 = 0 /\ h[2].child2 = 0 /\ h[2].height = 0
            /\ h[2].id < h[1].id => h[1].child1 = 2 /\ h[1].child2 = 0
            /\ h[2].id > h[1].id => h[1].child1 = 0 /\ h[1].child2 = 2
            /\ h[1].id # h[2].id /\ h[1].id \in Nat /\ h[2].id \in Nat
        BY <2>2, <2>3, <2>9 DEF Small, Heap, Record
      <3>2. ASSUME NEW q \in 1 .. 2, h[q].id = i
            PROVE  /\ Last(s) = q /\ s \in {<<1>>, <<1, 2>>}
        BY <2>2, <2>9, <3>2, SmallFinds DEF s
      <3>3. CASE i \in {h[1].id, h[2].id}
        <4>1. PICK q \in 1 .. 2 : h[q].id = i
          BY <3>3
        <4>2. x.heap = settle(h, Front(s)) /\ s \in {<<1>>, <<1, 2>>}
          BY <1>1, <2>4, <3>2, <4>1
        <4>3. CASE s = <<1>>
          <5>1. x.heap = h
            BY <4>2, <4>3, FrontsOf, SettleNone
          <5> QED BY <2>3, <2>5, <5>1
        <4>4. CASE s = <<1, 2>>
          <5>1. x.heap = settle(h, <<1>>)
            BY <4>2, <4>4, FrontsOf
          <5>2. h[2].id < h[1].id \/ h[2].id > h[1].id
            BY <3>1
          <5>3. x.heap = update_height(h, 1)
            BY <2>2, <2>9, <3>1, <5>1, <5>2, TwoStay
          <5>4. Remeasured(x.heap, h, 2, D, 1)
            <6>1. 1 \in 1 .. 2 /\ h[1].child1 \in 0 .. 2 /\ h[1].child2 \in 0 .. 2
              BY <3>1, <5>2
            <6> QED BY <2>2, <2>9, <5>3, <6>1, UpdateHeight
          <5>5. /\ x.heap[1].id = h[1].id /\ x.heap[1].child1 = h[1].child1
                /\ x.heap[1].child2 = h[1].child2 /\ x.heap[2] = h[2]
            <6>1. 1 \in 1 .. 2 /\ 2 \in 1 .. 2 /\ 2 # 1
              OBVIOUS
            <6> QED BY <5>4, <6>1 DEF Remeasured
          <5>6. Len(x.heap) = 2
            BY <5>4, HeapLen, Zenon DEF Remeasured
          <5> QED BY <2>5, <3>1, <5>5, <5>6 DEF Small
        <4> QED BY <4>2, <4>3, <4>4
      <3>4. CASE i \notin {h[1].id, h[2].id}
        <4>1. 1 \in 1 .. n /\ 2 \in 1 .. n
          BY <2>9
        <4>2. x.heap[1].id = h[1].id /\ x.heap[2].id = h[2].id
          BY <2>6, <4>1
        <4>3. Len(x.heap) = 3
          <5>1. SUFFICES Len(x.heap) # 2
            BY <2>6, <2>9
          <5>2. h[Last(s)].id # i
            <6>1. Last(s) \in 1 .. 2
              <7>1. s \in Seq(L)
                BY <2>2, PathSearches DEF Search, Chain, s
              <7>2. Last(s) \in L
                BY <2>4, <7>1, FrontIs
              <7> QED BY <2>2, <2>9, <7>2 DEF Tree
            <6>2. Last(s) = 1 \/ Last(s) = 2
              BY <6>1
            <6> QED BY <3>4, <6>2
          <5>3. HasNew(x.heap, h, n, D, r, g, s[Len(s)], i, d)
            <6> DEFINE y == settle(link(Append(h, fresh(i, d)), s[Len(s)], i, n + 1), s)
            <6>1. Search(h, L, B, U, r, i, s)
              BY <2>2, PathSearches DEF s
            <6>2. s \in Seq(L)
              BY <6>1 DEF Search, Chain
            <6>3. Last(s) = s[Len(s)]
              BY <2>4, <6>2, FrontIs
            <6>4. \A q \in 1 .. n : h[q].id \in I
              <7>1. PICK n2, L2, B2, U2 : /\ Good(h, n2, D, L2, B2, U2, r, g)
                                          /\ \A q \in 1 .. n2 : h[q].id \in I
                BY <1>3
              <7>2. Len(h) = n2
                BY <7>1, HeapLen DEF Good
              <7> QED BY <2>3, <7>1, <7>2
            <6>5. HasNew(y, h, n, D, r, g, s[Len(s)], i, d)
              BY <2>1, <2>4, <5>2, <6>1, <6>3, <6>4, InsertNew
            <6>6. x.heap = y
              BY <1>1, <2>3, <2>4, <5>2, <6>3
            <6> HIDE DEF y
            <6> QED BY <6>5, <6>6
          <5>4. Len(x.heap) = n + 1
            BY <5>3, HeapLen DEF HasNew, Good
          <5> QED BY <2>9, <5>4
        <4>4. x.heap[3].id = i
          BY <2>6, <2>9, <4>3
        <4> QED BY <2>5, <3>1, <3>4, <4>2, <4>3, <4>4 DEF Small
      <3> QED BY <3>3, <3>4
    <2> QED BY <2>3, <2>7, <2>8, <2>9
  <1> QED BY <1>2, <1>3 DEF Kempt

-----------------------------------------------------------------------------
(* The search tree: an insertion without a rotation                        *)

\* x is h with a node n + 1 for i, linked below l where h had no pointer.
Grown(x, h, n, l, i, d) ==
    /\ \A q \in 1 .. n : x[q].id = h[q].id /\ x[q].data = h[q].data
    /\ x[n + 1].id = i /\ x[n + 1].data = d
    /\ x[n + 1].child1 = 0 /\ x[n + 1].child2 = 0
    /\ \A q \in 1 .. n :
          /\ x[q].child1 = h[q].child1 \/ (h[q].child1 = 0 /\ x[q].child1 = n + 1)
          /\ x[q].child2 = h[q].child2 \/ (h[q].child2 = 0 /\ x[q].child2 = n + 1)
    /\ i < h[l].id => x[l].child1 = n + 1
    /\ i > h[l].id => x[l].child2 = n + 1

\* Unless a pointer to a node changed, that is what an insertion makes.
LEMMA NewGrows ==
  ASSUME NEW x, NEW h, NEW n, NEW D, NEW r, NEW g, NEW l \in 1 .. n, NEW i \in Nat,
         NEW d, Heap(h, n, D), HasNew(x, h, n, D, r, g, l, i, d), h[l].id # i,
         ~ Turned(x, h, n, 0)
  PROVE  Grown(x, h, n, l, i, d)
  <1>1. PICK k : /\ Linked(k, h, n, D, l, i, d)
                 /\ SamePointers(x, k, n + 1) \/ Turned(x, k, n + 1, n + 1)
    BY DEF HasNew
  <1>2. /\ \A q \in 1 .. n : q # l => k[q] = h[q]
        /\ i < h[l].id => k[l].child1 = n + 1 /\ k[l].child2 = h[l].child2
        /\ i > h[l].id => k[l].child2 = n + 1 /\ k[l].child1 = h[l].child1
        /\ k[n + 1].child1 = 0 /\ k[n + 1].child2 = 0
    BY <1>1 DEF Linked, fresh, NULL
  <1>3. /\ n \in Nat /\ h[l].id \in Nat
        /\ \A q \in 1 .. n : h[q].child1 \in 0 .. n /\ h[q].child2 \in 0 .. n
    BY DEF Heap, Record
  <1>4. i < h[l].id \/ i > h[l].id
    BY <1>3
  <1>5. \A q \in 1 .. n + 1 : q = n + 1 \/ q \in 1 .. n
    BY <1>3
  <1>6. \A q \in 1 .. n : /\ h[q].child1 # 0 => x[q].child1 = h[q].child1
                          /\ h[q].child2 # 0 => x[q].child2 = h[q].child2
    BY DEF Turned
  <1>7. ~ Turned(x, k, n + 1, n + 1)
    <2> SUFFICES ASSUME NEW q \in 1 .. n + 1
                 PROVE  /\ k[q].child1 \notin {0, n + 1} => x[q].child1 = k[q].child1
                        /\ k[q].child2 \notin {0, n + 1} => x[q].child2 = k[q].child2
      BY DEF Turned
    <2>1. CASE q = n + 1
      BY <1>2, <2>1
    <2>2. CASE q # n + 1 /\ q # l
      BY <1>2, <1>5, <1>6, <2>2
    <2>3. CASE q # n + 1 /\ q = l
      BY <1>2, <1>4, <1>6, <2>3
    <2> QED BY <2>1, <2>2, <2>3
  <1>8. \A q \in 1 .. n + 1 : x[q].child1 = k[q].child1 /\ x[q].child2 = k[q].child2
    BY <1>1, <1>7 DEF SamePointers
  <1>9. \A q \in 1 .. n : q \in 1 .. n + 1
    BY <1>3
  <1>10. n + 1 \in 1 .. n + 1
    BY <1>3
  <1>11. h[l].child1 # n + 1 /\ h[l].child2 # n + 1
    BY <1>3
  <1>12. ASSUME NEW q \in 1 .. n
         PROVE  /\ x[q].child1 = h[q].child1 \/ (h[q].child1 = 0 /\ x[q].child1 = n + 1)
                /\ x[q].child2 = h[q].child2 \/ (h[q].child2 = 0 /\ x[q].child2 = n + 1)
    <2>1. CASE q # l
      BY <1>2, <1>8, <1>9, <2>1
    <2>2. CASE q = l
      BY <1>2, <1>4, <1>6, <1>8, <1>9, <1>11, <2>2
    <2> QED BY <2>1, <2>2
  <1>13. /\ i < h[l].id => x[l].child1 = n + 1
         /\ i > h[l].id => x[l].child2 = n + 1
    BY <1>2, <1>8, <1>9
  <1>14. /\ \A q \in 1 .. n : x[q].id = h[q].id /\ x[q].data = h[q].data
         /\ x[n + 1].id = i /\ x[n + 1].data = d
    BY DEF HasNew
  <1> QED BY <1>2, <1>8, <1>10, <1>12, <1>13, <1>14 DEF Grown

\* A search follows the pointers it followed, or the one to the new node.
LEMMA NextGrown ==
  ASSUME NEW x, NEW h, NEW n, NEW l, NEW i, NEW d, Grown(x, h, n, l, i, d), NEW j
  PROVE  /\ \A q \in 1 .. n :
               \/ next(x, q, j) = next(h, q, j)
               \/ next(h, q, j) = 0 /\ next(x, q, j) = n + 1 /\ h[q].id # j
         /\ next(x, n + 1, j) = 0
  <1>1. ASSUME NEW q \in 1 .. n
        PROVE  \/ next(x, q, j) = next(h, q, j)
               \/ next(h, q, j) = 0 /\ next(x, q, j) = n + 1 /\ h[q].id # j
    <2>1. /\ x[q].id = h[q].id
          /\ x[q].child1 = h[q].child1 \/ (h[q].child1 = 0 /\ x[q].child1 = n + 1)
          /\ x[q].child2 = h[q].child2 \/ (h[q].child2 = 0 /\ x[q].child2 = n + 1)
      BY DEF Grown
    <2> QED BY <2>1 DEF next
  <1>2. next(x, n + 1, j) = 0
    <2>1. x[n + 1].child1 = 0 /\ x[n + 1].child2 = 0
      BY DEF Grown
    <2> QED BY <2>1 DEF next, NULL
  <1> QED BY <1>1, <1>2

\* The way t is s, or goes on from there to the node n + 1.
Along(t, s, h, n, j) ==
    \/ t = s
    \/ /\ s # <<>> /\ t = Append(s, n + 1)
       /\ next(h, Last(s), j) = 0 /\ h[Last(s)].id # j

\* A search in the grown tree goes along with one in the old tree.
LEMMA AlongStep ==
  ASSUME NEW x, NEW h, NEW n \in Nat, NEW l, NEW i, NEW d, Grown(x, h, n, l, i, d),
         NEW r, r \in 1 .. n, NEW j, NEW s \in Seq(1 .. n), NEW t, Along(t, s, h, n, j)
  PROVE  Along(onward(x, r, j, t), onward(h, r, j, s), h, n, j)
  <1>1. CASE s = <<>>
    <2>1. t = <<>>
      BY <1>1 DEF Along
    <2>2. onward(x, r, j, t) = onward(h, r, j, s)
      BY <1>1, <2>1 DEF onward
    <2> QED BY <2>2 DEF Along
  <1>2. CASE s # <<>>
    <2> DEFINE q == Last(s)
               a == next(h, q, j)
               b == next(x, q, j)
    <2>1. q \in 1 .. n
      <3> DEFINE S == 1 .. n
      <3>1. s \in Seq(S)
        OBVIOUS
      <3> HIDE DEF S
      <3>2. q \in S
        BY <1>2, <3>1, FrontIs
      <3> QED BY <3>2 DEF S
    <2>2. b = a \/ (a = 0 /\ b = n + 1 /\ h[q].id # j)
      <3>1. \A y \in 1 .. n :
               \/ next(x, y, j) = next(h, y, j)
               \/ next(h, y, j) = 0 /\ next(x, y, j) = n + 1 /\ h[y].id # j
        BY NextGrown
      <3> HIDE DEF q
      <3> QED BY <2>1, <3>1
    <2>3. onward(h, r, j, s) = IF a \in {0, -1} THEN s ELSE Append(s, a)
      BY <1>2 DEF onward, NULL, Wild
    <2>4. CASE t = s
      <3>1. onward(x, r, j, t) = IF b \in {0, -1} THEN s ELSE Append(s, b)
        BY <1>2, <2>4 DEF onward, NULL, Wild
      <3> HIDE DEF b
      <3>2. CASE b = a
        BY <2>3, <3>1, <3>2 DEF Along
      <3>3. CASE a = 0 /\ b = n + 1 /\ h[q].id # j
        <4>1. b \notin {0, -1}
          BY <3>3
        <4>2. onward(h, r, j, s) = s /\ onward(x, r, j, t) = Append(s, n + 1)
          BY <2>3, <3>1, <3>3, <4>1
        <4> QED BY <1>2, <3>3, <4>2 DEF Along
      <3> QED BY <2>2, <3>2, <3>3
    <2>5. CASE t # s
      <3>1. t = Append(s, n + 1) /\ a = 0
        BY <2>5 DEF Along
      <3>2. onward(h, r, j, s) = s
        BY <2>3, <3>1
      <3>3. t # <<>> /\ Last(t) = n + 1
        <4>1. Len(s) \in Nat /\ Len(t) = Len(s) + 1 /\ t[Len(s) + 1] = n + 1
          BY <3>1
        <4>2. t # <<>>
          <5>1. Len(t) # 0
            BY <4>1
          <5> QED BY <5>1
        <4> QED BY <4>1, <4>2 DEF Last
      <3>4. onward(x, r, j, t) = t
        <4>1. next(x, Last(t), j) = 0
          BY <3>3, NextGrown
        <4> QED BY <3>3, <4>1 DEF onward, NULL
      <3> QED BY <3>2, <3>4 DEF Along
    <2> QED BY <2>4, <2>5
  <1> QED BY <1>1, <1>2

\* A sequence of elements of a set is one of a larger set.
LEMMA WiderSeq ==
  ASSUME NEW S, NEW T, S \subseteq T, NEW s \in Seq(S)
  PROVE  s \in Seq(T)
  <1> DEFINE N == Len(s)
  <1>1. s \in [1 .. N -> S] /\ N \in Nat
    BY LenProperties
  <1> HIDE DEF N
  <1>2. s \in [1 .. N -> T] /\ N \in Nat
    BY <1>1
  <1> QED BY <1>2, SeqDef, Zenon

\* So the way to an id goes on to the new node at most.
LEMMA AlongPath ==
  ASSUME NEW x, NEW h, NEW n, NEW D, NEW l, NEW i, NEW d, Grown(x, h, n, l, i, d),
         NEW r, NEW g, NEW L, NEW B, NEW U, Good(h, n, D, L, B, U, r, g),
         NEW g2, NEW L2, NEW B2, NEW U2, Good(x, n + 1, D, L2, B2, U2, r, g2), NEW j
  PROVE  Along(path(x, r, j), path(h, r, j), h, n, j)
  <1>1. /\ Heap(h, n, D) /\ Tree(h, n, L, B, U) /\ r \in L /\ U[r] = 0
        /\ Heap(x, n + 1, D) /\ Tree(x, n + 1, L2, B2, U2) /\ r \in L2 /\ U2[r] = 0
    BY DEF Good
  <1>2. /\ n \in Nat /\ L \subseteq 1 .. n /\ r \in 1 .. n
        /\ Len(h) = n /\ Len(x) = n + 1
    BY <1>1, HeapLen DEF Heap, Tree
  <1>13. Walks(h, n, L, r, j) /\ Walks(x, n + 1, L2, r, j)
    BY <1>1, PathSearches
  <1>3. PICK f \in [0 .. n -> Seq(L)] : Descends(f, h, r, j)
    BY <1>13 DEF Walks
  <1>4. PICK e : Descends(e, x, r, j)
    BY <1>13, Zenon DEF Walks
  <1>5. /\ f[0] = <<>> /\ \A k \in 1 .. n : f[k] = onward(h, r, j, f[k - 1])
        /\ e[0] = <<>> /\ \A k \in 1 .. n + 1 : e[k] = onward(x, r, j, e[k - 1])
    BY <1>2, <1>3, <1>4 DEF Descends
  <1>6. path(h, r, j) = f[n] /\ path(x, r, j) = e[n + 1]
    <2>1. Len(h) \in Nat /\ Len(x) \in Nat
      BY <1>2
    <2>2. path(h, r, j) = f[Len(h)]
      BY <1>3, <2>1, PathIs
    <2>3. path(x, r, j) = e[Len(x)]
      BY <1>4, <2>1, PathIs
    <2> QED BY <1>2, <2>2, <2>3
  <1>7. \A k \in 0 .. n : f[k] \in Seq(1 .. n)
    <2> SUFFICES ASSUME NEW k \in 0 .. n PROVE f[k] \in Seq(1 .. n)
      OBVIOUS
    <2>1. f[k] \in Seq(L)
      BY <1>3
    <2>2. L \subseteq 1 .. n
      BY <1>2
    <2> QED BY <2>1, <2>2, WiderSeq
  <1> DEFINE T == {k \in 0 .. n : Along(e[k], f[k], h, n, j)}
  <1>8. \A k \in 0 .. n : k \in T
    <2>1. 0 \in T
      <3>1. Along(e[0], f[0], h, n, j)
        BY <1>5 DEF Along
      <3> QED BY <1>2, <3>1
    <2>2. ASSUME NEW k \in 0 .. n - 1, k \in T
          PROVE  k + 1 \in T
      <3>1. /\ k + 1 \in 1 .. n /\ k + 1 \in 1 .. n + 1 /\ k + 1 \in 0 .. n
            /\ (k + 1) - 1 = k /\ k \in 0 .. n
        BY <1>2
      <3>2. Along(onward(x, r, j, e[k]), onward(h, r, j, f[k]), h, n, j)
        BY <1>2, <1>7, <2>2, <3>1, AlongStep
      <3>3. f[k + 1] = onward(h, r, j, f[k]) /\ e[k + 1] = onward(x, r, j, e[k])
        BY <1>5, <3>1
      <3> QED BY <3>1, <3>2, <3>3
    <2> HIDE DEF T
    <2> QED BY <1>2, <2>1, <2>2, UpTo
  <1>9. n \in 0 .. n /\ n + 1 \in 1 .. n + 1 /\ (n + 1) - 1 = n
    BY <1>2
  <1>10. Along(onward(x, r, j, e[n]), onward(h, r, j, f[n]), h, n, j)
    BY <1>2, <1>7, <1>8, <1>9, AlongStep
  <1>11. e[n + 1] = onward(x, r, j, e[n])
    BY <1>5, <1>9
  <1>12. onward(h, r, j, f[n]) = f[n]
    BY <1>6, <1>13 DEF Walks
  <1> QED BY <1>6, <1>10, <1>11, <1>12

\* What a search finds is what it found, and the new node.
LEMMA GrownFinds ==
  ASSUME NEW x, NEW h, NEW n, NEW D, NEW i \in Nat, NEW d \in D, Nothing \notin D,
         NEW r, NEW g, NEW L, NEW B, NEW U, Good(h, n, D, L, B, U, r, g),
         NEW g2, NEW L2, NEW B2, NEW U2, Good(x, n + 1, D, L2, B2, U2, r, g2),
         NEW l, l = Last(path(h, r, i)), h[l].id # i, Grown(x, h, n, l, i, d), NEW j
  PROVE  bst_search(x, r, j) # Nothing <=> bst_search(h, r, j) # Nothing \/ j = i
  <1> DEFINE s == path(h, r, j)
             t == path(x, r, j)
  <1>1. /\ Heap(h, n, D) /\ Tree(h, n, L, B, U) /\ r \in L /\ U[r] = 0
        /\ Heap(x, n + 1, D) /\ Tree(x, n + 1, L2, B2, U2) /\ r \in L2 /\ U2[r] = 0
    BY DEF Good
  <1>2. /\ Search(h, L, B, U, r, j, s) /\ s # <<>> /\ t # <<>>
        /\ Walks(x, n + 1, L2, r, j)
    BY <1>1, PathSearches
  <1>3. onward(x, r, j, t) = t
    BY <1>2 DEF Walks
  <1>4. Along(t, s, h, n, j)
    BY AlongPath
  <1>5. bst_search(x, r, j) = IF x[Last(t)].id = j THEN x[Last(t)].data ELSE Nothing
    BY <1>2 DEF bst_search
  <1>6. bst_search(h, r, j) = IF h[Last(s)].id = j THEN h[Last(s)].data ELSE Nothing
    BY <1>2 DEF bst_search
  <1>7. j = i => Last(s) = l
    OBVIOUS
  <1> HIDE DEF s, t
  <1>8. s \in Seq(L) /\ L \subseteq 1 .. n /\ n \in Nat
    BY <1>1, <1>2 DEF Search, Chain, Tree, Heap
  <1>9. Last(s) \in 1 .. n
    BY <1>2, <1>8, FrontIs
  <1>10. /\ \A q \in 1 .. n : x[q].id = h[q].id /\ x[q].data = h[q].data
         /\ x[n + 1].id = i /\ x[n + 1].data = d
         /\ i < h[l].id => x[l].child1 = n + 1
         /\ i > h[l].id => x[l].child2 = n + 1
    BY DEF Grown
  <1>11. CASE t = s
    <2>1. j # i
      <3> SUFFICES ASSUME j = i PROVE FALSE
        OBVIOUS
      <3>1. Last(s) = l /\ l \in 1 .. n
        BY <1>7, <1>9
      <3>2. h[l].id \in Nat
        BY <1>1, <3>1 DEF Heap, Record
      <3>3. next(x, l, j) = n + 1
        <4>1. x[l].id = h[l].id
          BY <1>10, <3>1
        <4>2. i < h[l].id \/ i > h[l].id
          BY <3>2
        <4>3. CASE i < h[l].id
          BY <1>10, <4>1, <4>3 DEF next
        <4>4. CASE i > h[l].id
          <5>1. ~ (i < h[l].id)
            BY <3>2, <4>4
          <5> QED BY <1>10, <4>1, <4>4, <5>1 DEF next
        <4> QED BY <4>2, <4>3, <4>4
      <3>4. onward(x, r, j, t) = Append(s, n + 1)
        <4>1. n + 1 \notin {0, -1}
          BY <1>8
        <4> QED BY <1>2, <1>11, <3>1, <3>3, <4>1 DEF onward, NULL, Wild
      <3>5. Len(Append(s, n + 1)) = Len(s) + 1 /\ Len(s) \in Nat
        BY <1>8
      <3>6. Append(s, n + 1) = s
        BY <1>3, <1>11, <3>4
      <3>7. Len(s) = Len(s) + 1
        BY <3>5, <3>6
      <3> QED BY <3>5, <3>7
    <2>2. x[Last(s)].id = h[Last(s)].id /\ x[Last(s)].data = h[Last(s)].data
      BY <1>9, <1>10
    <2> QED BY <1>5, <1>6, <1>11, <2>1, <2>2
  <1>12. CASE t # s
    <2>1. t = Append(s, n + 1) /\ h[Last(s)].id # j
      BY <1>4, <1>12 DEF Along
    <2>2. Last(t) = n + 1
      <3>1. Len(s) \in Nat /\ Len(t) = Len(s) + 1 /\ t[Len(s) + 1] = n + 1
        BY <1>8, <2>1
      <3> QED BY <3>1 DEF Last
    <2>3. bst_search(h, r, j) = Nothing
      BY <1>6, <2>1
    <2>4. bst_search(x, r, j) = IF i = j THEN d ELSE Nothing
      BY <1>5, <1>10, <2>2
    <2> QED BY <2>3, <2>4
  <1> QED BY <1>11, <1>12

\* x is what an insertion makes of h that stores something and turns no pointer.
Stores(x, I, D, h, r, g, i, d) ==
    /\ Kempt(I, D, h, r, g) /\ g \in [I -> D \cup {Nothing}] /\ Nothing \notin D
    /\ i \in I /\ i \in Nat /\ d \in D
    /\ x = insert(h, r, i, d)
    /\ Len(x.heap) > Len(h) /\ ~ Turned(x.heap, h, Len(h), 0)

\* Its id is found then, and those that were found.
LEMMA InsertFinds ==
  ASSUME NEW x, NEW I, NEW D, NEW h, NEW r, NEW g, NEW i, NEW d,
         Stores(x, I, D, h, r, g, i, d), NEW j
  PROVE  bst_search(x.heap, x.root, j) # Nothing
            <=> bst_search(h, r, j) # Nothing \/ j = i
  <1> DEFINE s == path(h, r, i)
             m == Len(h) + 1
  <1>1. /\ s = <<>> => x.heap = Append(h, fresh(i, d)) /\ x.root = m
        /\ s # <<>> => x.root = r
        /\ s # <<>> /\ h[Last(s)].id = i => x.heap = settle(h, Front(s))
        /\ s # <<>> /\ h[Last(s)].id # i =>
              x.heap = settle(link(Append(h, fresh(i, d)), Last(s), i, m), s)
    <2>1. x = insert(h, r, i, d)
      BY DEF Stores
    <2> QED BY <2>1, InsertCases
  <1>2. /\ Len(x.heap) > Len(h) /\ ~ Turned(x.heap, h, Len(h), 0)
        /\ Kempt(I, D, h, r, g) /\ g \in [I -> D \cup {Nothing}] /\ Nothing \notin D
        /\ i \in I /\ i \in Nat /\ d \in D
    BY DEF Stores
  <1>3. CASE h = <<>> /\ r = 0
    <2> DEFINE y == Append(<<>>, fresh(i, d))
               one == <<1>>
    <2>1. s = <<>> /\ path(h, r, j) = <<>>
      BY <1>3, EmptyPath
    <2>2. bst_search(h, r, j) = Nothing
      BY <2>1 DEF bst_search
    <2>3. IsFirst(y, I, D, g, i, d)
      BY <1>2, FirstNode
    <2>4. x.heap = y /\ x.root = 1
      <3>1. m = 1
        BY <1>3
      <3> QED BY <1>1, <1>3, <2>1, <3>1
    <2> HIDE DEF y
    <2>5. Len(y) = 1 /\ y[1] = fresh(i, d) /\ y # <<>>
      BY <2>3 DEF IsFirst
    <2>6. Heap(y, 1, D)
      <3>1. PICK n, L, B, U : Good(y, n, D, L, B, U, 1, [g EXCEPT ![i] = d])
        BY <2>3, <2>5, Zenon DEF IsFirst, Kempt
      <3>2. Heap(y, n, D)
        BY <3>1 DEF Good
      <3>3. n = 1
        BY <2>5, <3>2, HeapLen
      <3> QED BY <3>2, <3>3
    <2>7. path(y, 1, j) = one
      BY <2>6, PathOfOne
    <2>8. one # <<>> /\ Last(one) = 1
      BY DEF Last
    <2> HIDE DEF one
    <2>9. bst_search(y, 1, j) = IF y[1].id = j THEN y[1].data ELSE Nothing
      BY <2>7, <2>8 DEF bst_search
    <2> QED BY <1>2, <2>2, <2>4, <2>5, <2>9 DEF fresh
  <1>4. CASE \E n, L, B, U : /\ Good(h, n, D, L, B, U, r, g)
                             /\ \A q \in 1 .. n : h[q].id \in I
    <2>1. PICK n, L, B, U : /\ Good(h, n, D, L, B, U, r, g)
                            /\ \A q \in 1 .. n : h[q].id \in I
      BY <1>4
    <2>2. Heap(h, n, D) /\ Tree(h, n, L, B, U) /\ r \in L /\ U[r] = 0
      BY <2>1 DEF Good
    <2>3. n \in Nat /\ Len(h) = n /\ m = n + 1
      BY <2>2, HeapLen DEF Heap
    <2>4. Search(h, L, B, U, r, i, s) /\ s # <<>>
      BY <2>2, PathSearches
    <2> HIDE DEF s
    <2>5. s \in Seq(L) /\ L \subseteq 1 .. n
      BY <2>2, <2>4 DEF Search, Chain, Tree
    <2>6. Last(s) = s[Len(s)] /\ Last(s) \in 1 .. n
      BY <2>4, <2>5, FrontIs
    <2>7. h[Last(s)].id # i
      <3> SUFFICES ASSUME h[Last(s)].id = i PROVE FALSE
        OBVIOUS
      <3> DEFINE y == settle(h, Front(s))
      <3>1. \E M, V : Good(y, n, D, M, B, V, r, g)
        BY <2>1, <2>4, InsertFound
      <3>2. x.heap = y
        BY <1>1, <2>4
      <3> HIDE DEF y
      <3>3. Len(y) = n
        BY <3>1, HeapLen DEF Good
      <3> QED BY <1>2, <2>3, <3>2, <3>3
    <2> DEFINE y == settle(link(Append(h, fresh(i, d)), s[Len(s)], i, n + 1), s)
    <2>8. HasNew(y, h, n, D, r, g, s[Len(s)], i, d)
      BY <1>2, <2>1, <2>4, <2>6, <2>7, InsertNew
    <2>9. x.heap = y /\ x.root = r
      BY <1>1, <2>3, <2>4, <2>6, <2>7
    <2> HIDE DEF y, m
    <2> DEFINE l == Last(s)
    <2>10. HasNew(y, h, n, D, r, g, l, i, d) /\ l \in 1 .. n /\ h[l].id # i
      BY <2>6, <2>7, <2>8
    <2>11. l = Last(path(h, r, i))
      BY DEF s
    <2> HIDE DEF l
    <2>12. Grown(y, h, n, l, i, d)
      BY <1>2, <2>2, <2>3, <2>9, <2>10, NewGrows
    <2>13. PICK L2, B2, U2 : Good(y, n + 1, D, L2, B2, U2, r, [g EXCEPT ![i] = d])
      BY <2>10 DEF HasNew
    <2>14. bst_search(y, r, j) # Nothing <=> bst_search(h, r, j) # Nothing \/ j = i
      BY <1>2, <2>1, <2>10, <2>11, <2>12, <2>13, GrownFinds
    <2> QED BY <2>9, <2>14
  <1> QED BY <1>2, <1>3, <1>4 DEF Kempt

(* An insertion that needs no rotation loses nothing, and its id is found:  *)
(* InsertionKeeps of the run, for every number of insertions and however    *)
(* much of the tree earlier rotations took away.  Whatever balance does on  *)
(* the way back, a rotation at an ancestor turns a pointer it had before.   *)
THEOREM BstInsertionKeeps == InsertSpec => InsertionKeeps
  <1> DEFINE Step == Len(heap') > Len(heap) /\ ~ Rotates =>
                        Known(heap', root') = Known(heap, root) \cup {heap'[Len(heap')].id}
  <1>1. InsertInv /\ [Insert]_bstVars => [Step]_bstVars
    <2> SUFFICES ASSUME InsertInv, NEW i \in Ids, NEW d \in Data, bst_insert(i, d),
                        Len(heap') > Len(heap), ~ Rotates
                 PROVE  Known(heap', root')
                           = Known(heap, root) \cup {heap'[Len(heap')].id}
      BY DEF Insert
    <2> DEFINE x == insert(heap, root, i, d)
    <2>1. heap' = x.heap /\ root' = x.root
      BY DEF bst_insert
    <2>2. /\ Kempt(Ids, Data, heap, root, given)
          /\ given \in [Ids -> Data \cup {Nothing}] /\ Len(heap) \in Nat
      BY DEF InsertInv
    <2>3. i \in Nat /\ Nothing \notin Data
      BY BstAssumption
    <2>4. Keeps(x, Ids, Data, heap, given, i, d)
      BY <2>2, <2>3, InsertKeeps
    <2>5. heap'[Len(heap')].id = i
      BY <2>1, <2>4, Zenon DEF Keeps
    <2>6. ~ Turned(heap', heap, Len(heap), 0)
      <3> SUFFICES ASSUME NEW q \in Nodes
                   PROVE  /\ heap[q].child1 # 0 => heap'[q].child1 = heap[q].child1
                          /\ heap[q].child2 # 0 => heap'[q].child2 = heap[q].child2
        BY DEF Turned, Nodes
      <3>1. \A c \in {"child1", "child2"} : heap[q][c] # 0 => heap'[q][c] = heap[q][c]
        BY Zenon DEF Rotates, NULL
      <3>2. "child1" \in {"child1", "child2"} /\ "child2" \in {"child1", "child2"}
        OBVIOUS
      <3> QED BY <3>1, <3>2
    <2> HIDE DEF x
    <2>7. ASSUME NEW j \in Ids
          PROVE  bst_search(heap', root', j) # Nothing
                    <=> bst_search(heap, root, j) # Nothing \/ j = i
      <3>1. Stores(x, Ids, Data, heap, root, given, i, d)
        <4>1. Len(x.heap) > Len(heap) /\ ~ Turned(x.heap, heap, Len(heap), 0)
          BY <2>1, <2>6
        <4> QED BY <2>2, <2>3, <4>1 DEF Stores, x
      <3>2. bst_search(x.heap, x.root, j) # Nothing
               <=> bst_search(heap, root, j) # Nothing \/ j = i
        BY <3>1, InsertFinds
      <3> QED BY <2>1, <3>2
    <2> QED BY <2>5, <2>7 DEF Known
  <1> QED BY <1>1, InsertInvHolds, PTL DEF InsertSpec, InsertionKeeps

-----------------------------------------------------------------------------
(* The device tables: two trees of one kind                                *)

\* The second tree is worked on by the same operators.
LEMMA SameMeasure ==
  ASSUME NEW h, NEW p
  PROVE  /\ Block!update_height(h, p) = update_height(h, p)
         /\ Block!balance_factor(h, p) = balance_factor(h, p)
  BY DEF Block!update_height, update_height, Block!balance_factor, balance_factor,
         Block!height, height, Block!higher, higher, Block!NULL, NULL

\* The rotations.
LEMMA SameRotate ==
  ASSUME NEW h, NEW p
  PROVE  /\ Block!rotate_left(h, p) = rotate_left(h, p)
         /\ Block!rotate_right(h, p) = rotate_right(h, p)
  BY SameMeasure DEF Block!rotate_left, rotate_left, Block!rotate_right, rotate_right

\* The balance.
LEMMA SameBalance ==
  ASSUME NEW h, NEW p
  PROVE  Block!balance(h, p) = balance(h, p)
  BY SameMeasure, SameRotate DEF Block!balance, balance

\* The ends of a sequence.
LEMMA SameEnds ==
  ASSUME NEW s PROVE Block!Last(s) = Last(s) /\ Block!Front(s) = Front(s)
  BY DEF Block!Last, Last, Block!Front, Front

\* The way of a search.
LEMMA SamePath ==
  ASSUME NEW h, NEW r, NEW i
  PROVE  Block!path(h, r, i) = path(h, r, i)
  <1> DEFINE S == 0 .. Len(h)
             body1(g, k) == IF k = 0 THEN <<>> ELSE Block!onward(h, r, i, g[k - 1])
             body2(g, k) == IF k = 0 THEN <<>> ELSE onward(h, r, i, g[k - 1])
  <1>1. \A s : Block!onward(h, r, i, s) = onward(h, r, i, s)
    BY SameEnds DEF Block!onward, onward, Block!next, next, Block!NULL, NULL, Block!Wild, Wild
  <1>2. \A g, k : body1(g, k) = body2(g, k)
    BY <1>1
  <1>3. /\ Block!path(h, r, i) = (CHOOSE g : g = [k \in S |-> body1(g, k)])[Len(h)]
        /\ path(h, r, i) = (CHOOSE g : g = [k \in S |-> body2(g, k)])[Len(h)]
    BY DEF Block!path, path
  <1> HIDE DEF S, body1, body2
  <1>4. \A g : [k \in S |-> body1(g, k)] = [k \in S |-> body2(g, k)]
    BY <1>2
  <1>5. (CHOOSE g : g = [k \in S |-> body1(g, k)]) = CHOOSE g : g = [k \in S |-> body2(g, k)]
    BY <1>4
  <1> QED BY <1>3, <1>5

\* The way back.
LEMMA SameSettle ==
  ASSUME NEW h, NEW up
  PROVE  Block!settle(h, up) = settle(h, up)
  <1> DEFINE S == 0 .. Len(up)
             to(k) == up[Len(up) + 1 - k]
             body1(g, k) == IF k = 0 THEN h
                            ELSE Block!balance(Block!update_height(g[k - 1], to(k)), to(k)).heap
             body2(g, k) == IF k = 0 THEN h
                            ELSE balance(update_height(g[k - 1], to(k)), to(k)).heap
  <1>1. /\ Block!settle(h, up) = (CHOOSE g : g = [k \in S |-> body1(g, k)])[Len(up)]
        /\ settle(h, up) = (CHOOSE g : g = [k \in S |-> body2(g, k)])[Len(up)]
    BY DEF Block!settle, settle
  <1> HIDE DEF to
  <1>2. \A g, k : body1(g, k) = body2(g, k)
    BY SameMeasure, SameBalance
  <1> HIDE DEF S, body1, body2
  <1>3. \A g : [k \in S |-> body1(g, k)] = [k \in S |-> body2(g, k)]
    BY <1>2
  <1>4. (CHOOSE g : g = [k \in S |-> body1(g, k)]) = CHOOSE g : g = [k \in S |-> body2(g, k)]
    BY <1>3
  <1> QED BY <1>1, <1>4

\* Insertion.
LEMMA SameInsert ==
  ASSUME NEW h, NEW r, NEW i, NEW d
  PROVE  Block!insert(h, r, i, d) = insert(h, r, i, d)
  <1>1. /\ \A s : Block!Last(s) = Last(s) /\ Block!Front(s) = Front(s)
        /\ Block!path(h, r, i) = path(h, r, i)
        /\ \A g, s : Block!settle(g, s) = settle(g, s)
    BY SameEnds, SamePath, SameSettle
  <1>2. Block!fresh(i, d) = fresh(i, d)
    BY DEF Block!fresh, fresh, Block!NULL, NULL
  <1>3. \A g, q, n : Block!link(g, q, i, n) = link(g, q, i, n)
    BY DEF Block!link, link
  <1> QED BY <1>1, <1>2, <1>3 DEF Block!insert, insert

\* Search.
LEMMA SameSearch ==
  ASSUME NEW h, NEW r, NEW i
  PROVE  Block!bst_search(h, r, i) = bst_search(h, r, i)
  BY SameEnds, SamePath DEF Block!bst_search, bst_search

-----------------------------------------------------------------------------
(* The device tables: one table                                            *)

\* What the nodes of a tree say of what was registered.
Told(h, g) ==
    /\ \A q \in 1 .. Len(h) : h[q].id \in Ids /\ g[h[q].id] # Nothing
    /\ \A id \in Ids : g[id] # Nothing => \E q \in 1 .. Len(h) : h[q].id = id

\* A table of drivers of D between the calls.
TableInv(D, h, r, g) ==
    /\ Kempt(Ids, D, h, r, g) /\ Small(h, r) /\ Told(h, g)
    /\ g \in [Ids -> D \cup {Nothing}]

\* A table with nothing registered.
LEMMA EmptyTable ==
  ASSUME NEW D
  PROVE  TableInv(D, <<>>, 0, [i \in Ids |-> Nothing])
  <1>1. Len(<<>>) = 0 /\ \A q \in 1 .. Len(<<>>) : FALSE
    OBVIOUS
  <1>2. \A id \in Ids : [i \in Ids |-> Nothing][id] = Nothing
    OBVIOUS
  <1> DEFINE g == [i \in Ids |-> Nothing]
  <1>3. g \in [Ids -> D \cup {Nothing}] /\ \A id \in Ids : g[id] = Nothing
    OBVIOUS
  <1> HIDE DEF g
  <1>4. Told(<<>>, g)
    BY <1>1, <1>3 DEF Told
  <1>5. Small(<<>>, 0)
    BY <1>1 DEF Small
  <1>6. Kempt(Ids, D, <<>>, 0, g)
    BY DEF Kempt
  <1>7. TableInv(D, <<>>, 0, g)
    BY <1>3, <1>4, <1>5, <1>6 DEF TableInv
  <1> QED BY <1>7 DEF g

\* The nodes of a tree can be counted.
LEMMA KemptLen ==
  ASSUME NEW I, NEW D, NEW h, NEW r, NEW g, Kempt(I, D, h, r, g)
  PROVE  Len(h) \in Nat /\ (Len(h) >= 1 => Heap(h, Len(h), D))
  <1>1. CASE h = <<>> /\ r = 0
    <2>1. Len(h) = 0
      BY <1>1
    <2> QED BY <2>1
  <1>2. CASE \E n, L, C1, U : /\ Good(h, n, D, L, C1, U, r, g)
                              /\ \A q \in 1 .. n : h[q].id \in I
    BY <1>2, HeapLen DEF Good, Heap
  <1> QED BY <1>1, <1>2 DEF Kempt

\* After an insertion.
Later(x, g, h, i, d) == IF Len(x.heap) > Len(h) THEN [g EXCEPT ![i] = d] ELSE g

\* A registration leaves a table as it should be.
LEMMA TableKeeps ==
  ASSUME NEW D, Nothing \notin D, NEW h, NEW r, NEW g, TableInv(D, h, r, g),
         NEW i \in Ids, NEW d \in D
  PROVE  LET x == insert(h, r, i, d)
         IN  TableInv(D, x.heap, x.root, Later(x, g, h, i, d))
  <1> DEFINE x == insert(h, r, i, d)
             g1 == Later(x, g, h, i, d)
  <1>1. /\ Kempt(Ids, D, h, r, g) /\ Small(h, r) /\ Told(h, g)
        /\ g \in [Ids -> D \cup {Nothing}] /\ i \in Nat
    BY BstAssumption DEF TableInv
  <1>2. Small(x.heap, x.root)
    BY <1>1, SmallKeeps
  <1>3. Keeps(x, Ids, D, h, g, i, d)
    BY <1>1, InsertKeeps
  <1> HIDE DEF x
  <1>4. /\ Kempt(Ids, D, x.heap, x.root, g1)
        /\ Len(x.heap) \in {Len(h), Len(h) + 1}
        /\ \A q \in 1 .. Len(h) : x.heap[q].id = h[q].id
        /\ Len(x.heap) > Len(h) => x.heap[Len(x.heap)].id = i
    BY <1>3, Zenon DEF Keeps, Later
  <1>5. g1 \in [Ids -> D \cup {Nothing}]
    BY <1>1 DEF Later
  <1>6. Len(h) \in Nat
    BY <1>1, KemptLen
  <1>7. CASE Len(x.heap) = Len(h)
    <2>1. g1 = g
      BY <1>6, <1>7 DEF Later
    <2>2. Told(x.heap, g1)
      BY <1>1, <1>4, <1>7, <2>1 DEF Told
    <2> QED BY <1>2, <1>4, <1>5, <2>2 DEF TableInv, x
  <1>8. CASE Len(x.heap) = Len(h) + 1
    <2>1. g1 = [g EXCEPT ![i] = d] /\ d # Nothing
      BY <1>6, <1>8 DEF Later
    <2> HIDE DEF g1
    <2>2. g1[i] = d /\ \A id \in Ids : id # i => g1[id] = g[id]
      BY <1>1, <2>1
    <2>3. /\ x.heap[Len(h) + 1].id = i /\ Len(h) + 1 \in 1 .. Len(h) + 1
          /\ \A q \in 1 .. Len(h) + 1 : q = Len(h) + 1 \/ q \in 1 .. Len(h)
          /\ \A q \in 1 .. Len(h) : q \in 1 .. Len(h) + 1
      BY <1>4, <1>6, <1>8
    <2>4. \A q \in 1 .. Len(h) + 1 : x.heap[q].id \in Ids /\ g1[x.heap[q].id] # Nothing
      BY <1>1, <1>4, <2>1, <2>2, <2>3 DEF Told
    <2>5. ASSUME NEW id \in Ids, g1[id] # Nothing
          PROVE  \E q \in 1 .. Len(h) + 1 : x.heap[q].id = id
      <3>1. CASE id = i
        BY <2>3, <3>1
      <3>2. CASE id # i
        <4>1. PICK q \in 1 .. Len(h) : h[q].id = id
          BY <1>1, <2>2, <2>5, <3>2 DEF Told
        <4> QED BY <1>4, <2>3, <4>1
      <3> QED BY <3>1, <3>2
    <2>6. Told(x.heap, g1)
      BY <1>8, <2>4, <2>5 DEF Told
    <2> QED BY <1>2, <1>4, <1>5, <2>6 DEF TableInv, x, g1
  <1> QED BY <1>4, <1>7, <1>8

Registered(g) == {id \in DOMAIN g : g[id] # Nothing}

\* Three nodes are for three ids that are registered.
LEMMA ThreeRegistered ==
  ASSUME NEW D, NEW h, NEW r, NEW g, TableInv(D, h, r, g), Len(h) >= 3
  PROVE  ~ (Cardinality(Registered(g)) <= 2)
  <1> DEFINE R == Registered(g)
             a == h[1].id
             b == h[2].id
             c == h[3].id
             f == [q \in 1 .. Len(h) |-> h[q].id]
  <1>1. /\ Kempt(Ids, D, h, r, g) /\ Small(h, r) /\ Told(h, g) /\ DOMAIN g = Ids
    BY DEF TableInv
  <1>2. Len(h) \in Nat
    BY <1>1, KemptLen
  <1>3. 1 \in 1 .. Len(h) /\ 2 \in 1 .. Len(h) /\ 3 \in 1 .. Len(h)
    BY <1>2
  <1>4. a \in R /\ b \in R /\ c \in R /\ a # b /\ a # c /\ b # c
    <2>1. a # b /\ a # c /\ b # c
      BY <1>1, <1>2 DEF Small
    <2> QED BY <1>1, <1>3, <2>1 DEF Told, Registered
  <1>5. IsFiniteSet(R)
    <2>1. IsFiniteSet(1 .. Len(h))
      BY <1>2, FS_Interval
    <2>2. f \in [1 .. Len(h) -> R]
      BY <1>1 DEF Told, Registered
    <2>3. \A id \in R : \E q \in 1 .. Len(h) : f[q] = id
      <3> SUFFICES ASSUME NEW id \in R PROVE \E q \in 1 .. Len(h) : f[q] = id
        OBVIOUS
      <3>1. PICK q \in 1 .. Len(h) : h[q].id = id
        BY <1>1 DEF Told, Registered
      <3> QED BY <3>1
    <2> HIDE DEF f, R
    <2>4. f \in Surjection(1 .. Len(h), R)
      BY <2>2, <2>3 DEF Surjection
    <2> QED BY <2>1, <2>4, FS_Surjection
  <1> HIDE DEF R, a, b, c
  <1>6. Cardinality({a, b, c}) = 3
    <2>1. IsFiniteSet({}) /\ Cardinality({}) = 0
      BY FS_EmptySet
    <2>2. IsFiniteSet({} \cup {a}) /\ Cardinality({} \cup {a}) = 1
      BY <2>1, FS_AddElement
    <2>3. {} \cup {a} = {a} /\ b \notin {a}
      BY <1>4
    <2>4. IsFiniteSet({a} \cup {b}) /\ Cardinality({a} \cup {b}) = 2
      BY <2>2, <2>3, FS_AddElement
    <2>5. c \notin {a} \cup {b} /\ ({a} \cup {b}) \cup {c} = {a, b, c}
      BY <1>4
    <2>6. Cardinality(({a} \cup {b}) \cup {c}) = 3
      BY <2>4, <2>5, FS_AddElement
    <2> QED BY <2>5, <2>6
  <1>7. {a, b, c} \subseteq R
    BY <1>4
  <1>8. Cardinality({a, b, c}) <= Cardinality(R) /\ Cardinality(R) \in Nat
    BY <1>5, <1>7, FS_Subset, FS_CardinalityType
  <1>9. ~ (Cardinality(R) <= 2)
    BY <1>6, <1>8
  <1> QED BY <1>9 DEF R

\* A call finds the driver of its major or none, and with two drivers it does
\* find it.
LEMMA TableReaches ==
  ASSUME NEW D, Nothing \notin D, NEW h, NEW r, NEW g, TableInv(D, h, r, g),
         NEW m \in Ids
  PROVE  /\ bst_search(h, r, m) \in {Nothing, g[m]}
         /\ Cardinality(Registered(g)) <= 2 => bst_search(h, r, m) = g[m]
  <1>1. /\ Kempt(Ids, D, h, r, g) /\ Small(h, r) /\ Told(h, g)
    BY DEF TableInv
  <1>2. bst_search(h, r, m) = Nothing \/ bst_search(h, r, m) = g[m]
    BY <1>1, SearchFinds
  <1>3. ASSUME Cardinality(Registered(g)) <= 2, g[m] # Nothing
        PROVE  bst_search(h, r, m) = g[m]
    <2>1. Len(h) \in Nat /\ ~ (Len(h) >= 3)
      BY <1>1, <1>3, KemptLen, ThreeRegistered
    <2>2. PICK q \in 1 .. Len(h) : h[q].id = m
      BY <1>1, <1>3 DEF Told
    <2>3. Len(h) \in {1, 2} /\ Len(h) >= 1
      <3> DEFINE n == Len(h)
      <3>1. n \in Nat /\ ~ (n >= 3) /\ q \in 1 .. n
        BY <2>1, <2>2
      <3> HIDE DEF n
      <3>2. n \in {1, 2} /\ n >= 1
        BY <3>1
      <3> QED BY <3>2 DEF n
    <2>4. Heap(h, Len(h), D)
      BY <1>1, <2>3, KemptLen
    <2>5. Last(path(h, r, m)) = q /\ path(h, r, m) # <<>>
      <3>1. /\ Last(path(h, r, h[q].id)) = q /\ path(h, r, h[q].id) # <<>>
            /\ path(h, r, h[q].id) \in {<<1>>, <<1, 2>>}
        BY <1>1, <2>3, <2>4, SmallFinds, Zenon
      <3> QED BY <2>2, <3>1
    <2>6. bst_search(h, r, m) = h[q].data
      BY <2>2, <2>5 DEF bst_search
    <2>7. h[q].data \in D
      BY <2>4 DEF Heap, Record
    <2> QED BY <1>2, <2>6, <2>7
  <1> QED BY <1>2, <1>3

-----------------------------------------------------------------------------
(* The device tables: their calls                                          *)

\* Both tables are as they should be, and the last call was.
DevicesInv ==
    /\ TableInv(Data, heap, root, given)
    /\ TableInv(BlockDrivers, bheap, broot, bgiven)
    /\ CallsReachTheirDevice

\* creat_cdev keeps the invariant of its table.
LEMMA CharInsert ==
  ASSUME TableInv(Data, heap, root, given), NEW i \in Ids, NEW d \in Data,
         bst_insert(i, d)
  PROVE  TableInv(Data, heap, root, given)'
  <1> DEFINE x == insert(heap, root, i, d)
  <1>1. /\ heap' = x.heap /\ root' = x.root
        /\ given' = Later(x, given, heap, i, d)
    BY DEF bst_insert, Later
  <1>2. Nothing \notin Data
    BY BstAssumption
  <1>3. TableInv(Data, x.heap, x.root, Later(x, given, heap, i, d))
    BY <1>2, TableKeeps
  <1> HIDE DEF x
  <1>4. TableInv(Data, heap', root', given')
    BY <1>1, <1>3
  <1> QED BY <1>4 DEF TableInv, Told

\* creat_bdev keeps the invariant of its table.
LEMMA BlockInsert ==
  ASSUME TableInv(BlockDrivers, bheap, broot, bgiven), NEW i \in Ids,
         NEW d \in BlockDrivers, Block!bst_insert(i, d)
  PROVE  TableInv(BlockDrivers, bheap, broot, bgiven)'
  <1> DEFINE x == insert(bheap, broot, i, d)
  <1>1. /\ bheap' = x.heap /\ broot' = x.root
        /\ bgiven' = Later(x, bgiven, bheap, i, d)
    BY SameInsert DEF Block!bst_insert, Later
  <1>2. Nothing \notin BlockDrivers
    BY DevicesAssumption
  <1>3. TableInv(BlockDrivers, x.heap, x.root, Later(x, bgiven, bheap, i, d))
    BY <1>2, TableKeeps
  <1> HIDE DEF x
  <1>4. TableInv(BlockDrivers, bheap', broot', bgiven')
    BY <1>1, <1>3
  <1> QED BY <1>4 DEF TableInv, Told

\* The handler that a search leads to is the right one.
LEMMA HandlerReached ==
  ASSUME NEW D, Nothing \notin D, NEW h, NEW r, NEW g, TableInv(D, h, r, g),
         NEW m \in Ids, NEW op
  PROVE  /\ handler(op, bst_search(h, r, m)) \in {"none", handler(op, g[m])}
         /\ Cardinality(Registered(g)) <= 2 =>
               handler(op, bst_search(h, r, m)) = handler(op, g[m])
  <1>1. /\ bst_search(h, r, m) \in {Nothing, g[m]}
        /\ Cardinality(Registered(g)) <= 2 => bst_search(h, r, m) = g[m]
    BY TableReaches
  <1>2. handler(op, Nothing) = "none"
    BY DEF handler
  <1> QED BY <1>1, <1>2

\* There is no call whose device could be missed.
LEMMA NoCallReaches ==
  ASSUME lastCall' = NoCall
  PROVE  CallsReachTheirDevice'
  <1>1. NoCall.table = "none"
    BY DEF NoCall
  <1>2. lastCall'.table # "char" /\ lastCall'.table # "block"
    BY <1>1
  <1> QED BY <1>2 DEF CallsReachTheirDevice, Reaches

\* A call of a character device finds its driver.
LEMMA CharCallReaches ==
  ASSUME DevicesInv, NEW op, NEW m \in Ids, NEW minor, char_call(op, m, minor)
  PROVE  CallsReachTheirDevice'
  <1> DEFINE driver == handler(op, bst_search(heap, root, m))
  <1>1. PICK code \in Replies :
           lastCall' = [table |-> "char", op |-> op, major |-> m, driver |-> driver,
                        code |-> code]
    BY DEF char_call, answer, dispatch
  <1>2. UNCHANGED <<given, bgiven>>
    BY DEF char_call, blkVars
  <1>3. /\ driver \in {"none", handler(op, given[m])}
        /\ Cardinality(Registered(given)) <= 2 => driver = handler(op, given[m])
    BY BstAssumption, HandlerReached DEF DevicesInv
  <1> HIDE DEF driver
  <1>4. /\ lastCall'.table = "char" /\ lastCall'.op = op /\ lastCall'.major = m
        /\ lastCall'.driver = driver
    BY <1>1
  <1>5. Reaches("char", given)'
    BY <1>2, <1>3, <1>4 DEF Reaches, handler, Registered
  <1>6. Reaches("block", bgiven)'
    BY <1>4 DEF Reaches
  <1> QED BY <1>5, <1>6 DEF CallsReachTheirDevice

\* A call of a block device finds its driver.
LEMMA BlockCallReaches ==
  ASSUME DevicesInv, NEW op, NEW m \in Ids, block_call(op, m)
  PROVE  CallsReachTheirDevice'
  <1> DEFINE driver == handler(op, bst_search(bheap, broot, m))
  <1>1. PICK code \in Replies :
           lastCall' = [table |-> "block", op |-> op, major |-> m, driver |-> driver,
                        code |-> code]
    BY SameSearch DEF block_call, answer, bdispatch
  <1>2. UNCHANGED <<given, bgiven>>
    BY DEF block_call, blkVars
  <1>3. /\ driver \in {"none", handler(op, bgiven[m])}
        /\ Cardinality(Registered(bgiven)) <= 2 => driver = handler(op, bgiven[m])
    BY DevicesAssumption, HandlerReached DEF DevicesInv
  <1> HIDE DEF driver
  <1>4. /\ lastCall'.table = "block" /\ lastCall'.op = op /\ lastCall'.major = m
        /\ lastCall'.driver = driver
    BY <1>1
  <1>5. Reaches("block", bgiven)'
    BY <1>2, <1>3, <1>4 DEF Reaches, handler, Registered
  <1>6. Reaches("char", given)'
    BY <1>4 DEF Reaches
  <1> QED BY <1>5, <1>6 DEF CallsReachTheirDevice

\* In the beginning both tables are empty.
LEMMA DevicesBegin == DevicesInit => DevicesInv
  <1> SUFFICES ASSUME DevicesInit PROVE DevicesInv
    OBVIOUS
  <1>1. /\ heap = <<>> /\ root = 0 /\ given = [i \in Ids |-> Nothing]
        /\ bheap = <<>> /\ broot = 0 /\ bgiven = [i \in Ids |-> Nothing]
        /\ lastCall = NoCall
    BY DEF DevicesInit, DevInit, BstInit, Block!BstInit, NULL, Block!NULL
  <1>2. CallsReachTheirDevice
    BY <1>1 DEF CallsReachTheirDevice, Reaches, NoCall
  <1> QED BY <1>1, <1>2, EmptyTable DEF DevicesInv

\* Every registration and every call keeps the invariant.
LEMMA DevicesStep == DevicesInv /\ [DevicesNext]_devicesVars => DevicesInv'
  <1> SUFFICES ASSUME DevicesInv, [DevicesNext]_devicesVars PROVE DevicesInv'
    OBVIOUS
  <1> DEFINE Chars == TableInv(Data, heap, root, given)
             Blocks == TableInv(BlockDrivers, bheap, broot, bgiven)
  <1>0. Chars /\ Blocks
    BY DEF DevicesInv
  <1>1. UNCHANGED <<heap, root, given>> => Chars'
    BY <1>0 DEF TableInv, Told
  <1>2. UNCHANGED blkVars => Blocks'
    BY <1>0 DEF TableInv, Told, blkVars
  <1> HIDE DEF Chars, Blocks
  <1>3. SUFFICES Chars' /\ Blocks' /\ CallsReachTheirDevice'
    BY DEF DevicesInv, Chars, Blocks
  <1>4. CASE UNCHANGED devicesVars
    <2>1. CallsReachTheirDevice'
      BY <1>4 DEF devicesVars, devVars, blkVars, DevicesInv, CallsReachTheirDevice, Reaches
    <2> QED BY <1>1, <1>2, <1>4, <2>1 DEF devicesVars, devVars
  <1>5. CASE register_devmem
    <2>1. bst_insert(MAJOR_MEM, Devmem) /\ lastCall' = NoCall /\ UNCHANGED blkVars
      BY <1>5 DEF register_devmem, creat_cdev
    <2>2. Chars'
      BY <1>0, <2>1, DevicesAssumption, CharInsert DEF Chars
    <2> QED BY <1>2, <2>1, <2>2, NoCallReaches
  <1>6. ASSUME NEW m \in Ids, NEW d \in Data, register_char(m, d)
        PROVE  Chars' /\ Blocks' /\ CallsReachTheirDevice'
    <2>1. bst_insert(m, d) /\ lastCall' = NoCall /\ UNCHANGED blkVars
      BY <1>6 DEF register_char, creat_cdev
    <2>2. Chars'
      BY <1>0, <2>1, CharInsert DEF Chars
    <2> QED BY <1>2, <2>1, <2>2, NoCallReaches
  <1>7. ASSUME NEW m \in Ids, NEW d \in BlockDrivers, creat_bdev(m, d)
        PROVE  Chars' /\ Blocks' /\ CallsReachTheirDevice'
    <2>1. Block!bst_insert(m, d) /\ lastCall' = NoCall /\ UNCHANGED <<heap, root, given>>
      BY <1>7 DEF creat_bdev
    <2>2. Blocks'
      BY <1>0, <2>1, BlockInsert DEF Blocks
    <2> QED BY <1>1, <2>1, <2>2, NoCallReaches
  <1>8. ASSUME NEW op, NEW m \in Ids, NEW minor, char_call(op, m, minor)
        PROVE  Chars' /\ Blocks' /\ CallsReachTheirDevice'
    <2>1. CallsReachTheirDevice'
      BY <1>8, CharCallReaches
    <2> QED BY <1>1, <1>2, <1>8, <2>1 DEF char_call, blkVars
  <1>9. ASSUME NEW op, NEW m \in Ids, block_call(op, m)
        PROVE  Chars' /\ Blocks' /\ CallsReachTheirDevice'
    <2>1. CallsReachTheirDevice'
      BY <1>9, BlockCallReaches
    <2> QED BY <1>1, <1>2, <1>9, <2>1 DEF block_call, blkVars
  <1> QED
    BY <1>4, <1>5, <1>6, <1>7, <1>8, <1>9
    DEF DevicesNext, cread, cwrite, cioctl, bread, bwrite, bioctl

(* cread, cwrite, cioctl and their block counterparts reach the handler of *)
(* the driver that creat_cdev or creat_bdev stored for the major, and      *)
(* -ENODEV tells that there is none, while two drivers at most are in the  *)
(* table: CallsReachTheirDevice of the run, for all majors, drivers    *)
(* and numbers of registrations.                                           *)
THEOREM DevicesCallsReach == DevicesSpec => []CallsReachTheirDevice
  <1>1. DevicesInv => CallsReachTheirDevice
    BY DEF DevicesInv
  <1> QED BY <1>1, DevicesBegin, DevicesStep, PTL DEF DevicesSpec

-----------------------------------------------------------------------------
(* The device tables: the memory device is used as MemSpec says            *)

\* The memory device is registered only once its pointers are set.
MemReady ==
    /\ MemInv
    /\ (\E id \in Ids : given[id] = Devmem) => mem_ptr # 0

\* A call that reaches a handler of the memory device found it registered.
LEMMA MemCall ==
  ASSUME DevicesInv, MemReady, NEW op, NEW m \in Ids, dispatch(op, m) = "devmem"
  PROVE  mem_ptr # 0
  <1>1. /\ dispatch(op, m) = handler(op, bst_search(heap, root, m))
        /\ given \in [Ids -> Data \cup {Nothing}]
    BY DEF dispatch, DevicesInv, TableInv
  <1>2. bst_search(heap, root, m) \in {Nothing, given[m]}
    BY BstAssumption, TableReaches DEF DevicesInv
  <1>3. /\ bst_search(heap, root, m) # Nothing
        /\ bst_search(heap, root, m).name = "devmem"
    BY <1>1 DEF handler
  <1>4. given[m] \in Data /\ given[m].name = "devmem"
    BY <1>1, <1>2, <1>3
  <1>5. given[m] = Devmem
    BY <1>4, DevicesAssumption
  <1> QED BY <1>5 DEF MemReady

\* Every step is one of MemSpec or leaves the memory device alone.
LEMMA MemUsed ==
  ASSUME DevicesInv, MemReady, [DevicesNext]_devicesVars
  PROVE  [MemNext]_memVars /\ MemReady'
  <1>1. ASSUME [MemNext]_memVars,
               (\E id \in Ids : given'[id] = Devmem) => mem_ptr' # 0
        PROVE  [MemNext]_memVars /\ MemReady'
    BY <1>1, MemStep DEF MemReady
  <1>2. CASE UNCHANGED <<given, memVars>>
    BY <1>1, <1>2 DEF MemReady, memVars
  <1>3. CASE register_devmem
    <2>1. mem_ptr = 0 /\ devmem_init
      BY <1>3 DEF register_devmem
    <2>2. mem_ptr' # 0
      BY <2>1, DevmemAssumption DEF devmem_init
    <2> QED BY <1>1, <2>1, <2>2 DEF MemNext
  <1>4. ASSUME NEW m \in Ids, NEW d \in Data, register_char(m, d)
        PROVE  [MemNext]_memVars /\ MemReady'
    <2>1. d # Devmem /\ UNCHANGED memVars /\ bst_insert(m, d)
      BY <1>4 DEF register_char, creat_cdev
    <2>2. given' = given \/ given' = [given EXCEPT ![m] = d]
      BY <2>1 DEF bst_insert
    <2>3. ASSUME NEW id \in Ids, given'[id] = Devmem PROVE given[id] = Devmem
      <3>1. given \in [Ids -> Data \cup {Nothing}]
        BY DEF DevicesInv, TableInv
      <3> QED BY <2>1, <2>2, <2>3, <3>1
    <2> QED BY <1>1, <2>1, <2>3 DEF MemReady, memVars
  <1>5. ASSUME NEW op \in Ops, NEW m \in Ids, NEW minor \in Minors,
               char_call(op, m, minor)
        PROVE  [MemNext]_memVars /\ MemReady'
    <2>1. PICK code \in Replies : called(dispatch(op, m), op, minor, code)
      BY <1>5 DEF char_call
    <2>2. UNCHANGED given
      BY <1>5 DEF char_call
    <2>3. CASE UNCHANGED memVars
      BY <1>2, <2>2, <2>3
    <2>4. CASE /\ dispatch(op, m) = "devmem"
               /\ devmem_read(minor, code) \/ devmem_write(minor, code)
      <3>1. mem_ptr # 0
        BY <2>4, MemCall
      <3>2. code \in MemReplies
        BY <2>4 DEF devmem_read, devmem_write, MemReplies
      <3>3. MemNext
        BY <2>4, <3>1, <3>2 DEF MemNext
      <3>4. mem_ptr' # 0
        <4>1. mem_ptr \in MEM_DEV_LO .. MEM_DEV_HI - 1
          BY <3>1 DEF MemReady, MemInv, Window
        <4>2. mem_ptr' \in {mem_ptr, mem_ptr + 1, MEM_DEV_LO}
          BY <2>4 DEF devmem_read, devmem_write, memVars
        <4> QED BY <4>1, <4>2, DevmemAssumption
      <3> QED BY <1>1, <3>3, <3>4
    <2>5. \/ UNCHANGED memVars
          \/ /\ dispatch(op, m) = "devmem"
             /\ devmem_read(minor, code) \/ devmem_write(minor, code)
      BY <2>1 DEF called
    <2> QED BY <2>3, <2>4, <2>5
  <1>6. ASSUME NEW m \in Ids, NEW d \in BlockDrivers, creat_bdev(m, d)
        PROVE  [MemNext]_memVars /\ MemReady'
    BY <1>2, <1>6 DEF creat_bdev
  <1>7. ASSUME NEW op \in Ops, NEW m \in Ids, block_call(op, m)
        PROVE  [MemNext]_memVars /\ MemReady'
    BY <1>2, <1>7 DEF block_call
  <1>8. CASE UNCHANGED devicesVars
    BY <1>2, <1>8 DEF devicesVars, devVars
  <1> QED
    BY <1>3, <1>4, <1>5, <1>6, <1>7, <1>8
    DEF DevicesNext, cread, cwrite, cioctl, bread, bwrite, bioctl, Ops

(* Whatever is registered and called, in whatever order, the pointers of   *)
(* the memory device are set to the beginning before its first call, once, *)
(* and by nobody after that: devmem_init is only called by char_init.      *)
LEMMA DevmemIsUsedRight == DevicesSpec => MemSpec
  <1>1. DevicesInit => MemInit /\ MemReady
    <2> SUFFICES ASSUME DevicesInit PROVE MemInit /\ MemReady
      OBVIOUS
    <2>1. MemInit /\ given = [id \in Ids |-> Nothing]
      BY DEF DevicesInit, DevInit, BstInit
    <2>2. Devmem # Nothing
      BY DevicesAssumption, BstAssumption
    <2> QED BY <2>1, <2>2, MemInvInit DEF MemReady
  <1>2. DevicesInv /\ MemReady /\ [DevicesNext]_devicesVars =>
           [MemNext]_memVars /\ MemReady'
    BY MemUsed
  <1> QED
    BY <1>1, <1>2, DevicesBegin, DevicesStep, PTL DEF DevicesSpec, MemSpec

(* Whatever drivers there are, and whoever calls them, reads of MEM and of *)
(* PORT get every address of the window and every port, the last one too   *)
(* although port_ptr is negative for half of them, before the first comes  *)
(* again, for every window and every width of the pointer.                 *)
THEOREM DevmemReadsSweep == DevicesSpec => ReadsSweep
  BY DevmemIsUsedRight, MemSweeps
=============================================================================
