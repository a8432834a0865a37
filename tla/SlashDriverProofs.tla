-------------------------- MODULE SlashDriverProofs --------------------------
(***************************************************************************)
(* Proofs about the kernel module: device nodes match the boards           *)
(* (NodesMatch), and no queue is left behind but by an ADD that cannot     *)
(* undo itself (QueuesTracked), for any number of boards, functions,       *)
(* files, transfers, queues and buffers.                                   *)
(*                                                                         *)
(* The steps of the QDMA files and of the transfers are here, those of the *)
(* functions in SlashPciProofs.                                            *)
(***************************************************************************)
EXTENDS SlashPciProofs, WellFoundedInduction

------------------------------------------------------------------------------
(* Queue pairs *)

\* Every non-empty set of naturals has a least element.
LEMMA LeastOf ==
    ASSUME NEW T, T \subseteq Nat, T # {}
    PROVE  \E x \in T : \A y \in T : x <= y
<1>1. IsWellFoundedOn(OpToRel(<, Nat), Nat)
  BY NatLessThanWellFounded, Zenon
<1>2. PICK x \in T : \A y \in T : ~ (<<y, x>> \in OpToRel(<, Nat))
  BY <1>1, WFMin, Zenon
<1>3. \A y \in T : ~ (y < x)
  BY <1>2, Zenon DEF OpToRel
<1> QED
  BY <1>3

\* xa_alloc gives a free id.
LEMMA LowestFacts ==
    ASSUME NEW i, FreeIds(i) # {}
    PROVE  LowestFree(i) \in Qids /\ qdev[i].qpairs[LowestFree(i)] = 0
<1>1. FreeIds(i) \subseteq Nat
  BY QdmaAssumption DEF FreeIds, Qids
<1>2. LowestFree(i) \in FreeIds(i)
  BY <1>1, LeastOf, Zenon DEF LowestFree
<1> QED
  BY <1>2, Zenon DEF FreeIds

\* Asked directions are directions of queues.
LEMMA MaskFacts ==
    ASSUME TypeInv, NEW mask \in work.masks
    PROVE  mask \in SUBSET QueueTypes /\ mask # {}
BY DriverAssumption, Zenon DEF TypeInv, IsWorkload

\* slash_qdma_ioctl_qpair_add.
LEMMA AddEffect ==
    ASSUME TypeInv, NEW i \in DOMAIN qdev, NEW mask \in work.masks, QpairAdd(i, mask)
    PROVE  LET q == LowestFree(i)
               new == [dev |-> i, ref |-> 1, dirs |-> mask,
                       qhndl |-> [t \in QueueTypes |-> IF t \in mask THEN q ELSE Invalid]]
           IN /\ q \in Qids /\ qdev[i].qpairs[q] = 0
              /\ new \in Entries /\ entries' = Append(entries, new)
              /\ QueuesTo(i, qdev[i].handle, [qdev[i].qpairs EXCEPT ![q] = Len(entries) + 1],
                          [h \in Qids \X QueueTypes |->
                              IF h \in {q} \X mask THEN "enabled" ELSE qdev[i].queues[h]])
<1> DEFINE q == LowestFree(i)
           new == [dev |-> i, ref |-> 1, dirs |-> mask,
                   qhndl |-> [t \in QueueTypes |-> IF t \in mask THEN q ELSE Invalid]]
<1>1. q \in Qids /\ qdev[i].qpairs[q] = 0
  BY LowestFacts, Zenon DEF QpairAdd
<1>2. new \in Entries
  BY <1>1, MaskFacts, QdmaAssumption, SMTT(30) DEF TypeInv, Entries, Qids, Invalid
<1>3. qdev[i] \in Qdevs /\ DOMAIN qdev[i].queues = Qids \X QueueTypes
  <2>1. qdev[i] \in Qdevs
    BY DEF TypeInv
  <2> QED
    BY <2>1, Zenon DEF Qdevs, QueueMaps
<1>4. entries' = Append(entries, new)
  BY Zenon DEF QpairAdd
<1>5. qdev' = [qdev EXCEPT ![i].qpairs[q] = Len(entries) + 1,
                           ![i].queues = [h \in DOMAIN @ |-> IF h \in {q} \X mask THEN "enabled" ELSE @[h]]]
  BY Zenon DEF QpairAdd
<1> HIDE DEF q
<1>6. QueuesTo(i, qdev[i].handle, [qdev[i].qpairs EXCEPT ![q] = Len(entries) + 1],
                          [h \in Qids \X QueueTypes |->
                              IF h \in {q} \X mask THEN "enabled" ELSE qdev[i].queues[h]])
  BY <1>3, <1>5, Zenon DEF QueuesTo, Changed, WithQueues, Qdevs
<1> QED
  BY <1>1, <1>2, <1>4, <1>6, Zenon DEF q

\* The queues of an entry are queues.
LEMMA QueuesOfFacts ==
    ASSUME TypeInv, NEW e \in DOMAIN entries
    PROVE  /\ QueuesOf(e) \subseteq Qids \X QueueTypes
           /\ \A h \in QueuesOf(e) : \E t \in entries[e].dirs : h = <<entries[e].qhndl[t], t>>
           /\ \A t \in entries[e].dirs :
                 entries[e].qhndl[t] \in Qids => <<entries[e].qhndl[t], t>> \in QueuesOf(e)
<1>1. entries[e] \in Entries
  BY DEF TypeInv
<1>2. entries[e].dirs \subseteq QueueTypes /\ entries[e].qhndl \in [QueueTypes -> 0..MaxQpairs]
  BY <1>1, Zenon DEF Entries
<1>3. \A t \in Active(e) : t \in QueueTypes /\ entries[e].qhndl[t] \in Qids
  BY <1>2, QdmaAssumption, SMTT(30) DEF Active, Qids, Invalid
<1>4. \A t \in entries[e].dirs : entries[e].qhndl[t] \in Qids => t \in Active(e)
  BY QdmaAssumption DEF Active, Qids, Invalid
<1> QED
  BY <1>3, <1>4, SMTT(30) DEF QueuesOf, Active

\* The queues of an instance are set as asked.
LEMMA SetQueues ==
    ASSUME TypeInv, NEW i \in DOMAIN qdev, NEW queues, qdev' = [qdev EXCEPT ![i].queues = queues]
    PROVE  QueuesTo(i, qdev[i].handle, qdev[i].qpairs, queues)
<1>1. qdev[i] \in Qdevs
  BY DEF TypeInv
<1> QED
  BY <1>1, Zenon DEF QueuesTo, Changed, WithQueues, Qdevs

\* slash_qdma_ioctl_qpair_add that fails changes no queue but the ones it cannot remove.
LEMMA AddFailsEffect ==
    ASSUME TypeInv, NEW i \in DOMAIN qdev, NEW mask, QpairAddFails(i, mask)
    PROVE  \E queues \in QueueMaps :
              /\ QueuesTo(i, qdev[i].handle, qdev[i].qpairs, queues)
              /\ \A h \in Qids \X QueueTypes : queues[h] = qdev[i].queues[h] \/ queues[h] \notin Added
<1> DEFINE q == LowestFree(i)
           new(left) == [h \in DOMAIN qdev[i].queues |->
                            IF h \in {q} \X left THEN "orphan" ELSE qdev[i].queues[h]]
<1>1. PICK left : qdev' = [qdev EXCEPT ![i].queues = new(left)]
  BY Zenon DEF QpairAddFails
<1>2. qdev[i].queues \in [Qids \X QueueTypes -> QueueStates]
  BY DevFacts, Zenon DEF QueueMaps
<1>3. /\ new(left) \in QueueMaps
      /\ \A h \in Qids \X QueueTypes : new(left)[h] = qdev[i].queues[h] \/ new(left)[h] \notin Added
  BY <1>2, Zenon DEF QueueMaps, QueueStates, Added
<1>4. PICK queues \in QueueMaps : queues = new(left)
  BY <1>3, Zenon
<1> HIDE DEF new
<1>5. QueuesTo(i, qdev[i].handle, qdev[i].qpairs, queues)
  BY <1>1, <1>4, SetQueues, Zenon
<1> QED
  BY <1>1, <1>3, <1>4, <1>5, Zenon

\* slash_qdma_ioctl_qpair_op_apply changes only queues of the entry.
LEMMA AppliedFacts ==
    ASSUME TypeInv, NEW i \in DOMAIN qdev, NEW e \in DOMAIN entries, NEW from, NEW to \in QueueStates,
           NEW fault, NEW queues \in Applied(i, e, from, to, fault)
    PROVE  /\ queues \in QueueMaps
           /\ \A h \in (Qids \X QueueTypes) \ QueuesOf(e) : queues[h] = qdev[i].queues[h]
<1>1. qdev[i].queues \in [Qids \X QueueTypes -> QueueStates]
  BY DevFacts, Zenon DEF QueueMaps
<1>2. PICK d \in SUBSET Active(e) :
         queues = [h \in DOMAIN qdev[i].queues |->
                      IF \E t \in d : h = <<entries[e].qhndl[t], t>> THEN to ELSE qdev[i].queues[h]]
  BY Zenon DEF Applied
<1>3. queues \in QueueMaps
  BY <1>1, <1>2, Zenon DEF QueueMaps
<1>4. ASSUME NEW h \in (Qids \X QueueTypes) \ QueuesOf(e) PROVE queues[h] = qdev[i].queues[h]
  BY <1>1, <1>2, Zenon DEF QueuesOf
<1> QED
  BY <1>3, <1>4, Zenon

\* START and STOP.
LEMMA StartStopEffect ==
    ASSUME TypeInv, PairsInv, NEW i \in DOMAIN qdev, NEW q \in Qids,
           QpairStart(i, q) \/ QpairStop(i, q)
    PROVE  /\ qdev[i].qpairs[q] # 0
           /\ \E queues \in QueueMaps :
                /\ QueuesTo(i, qdev[i].handle, qdev[i].qpairs, queues)
                /\ \A h \in (Qids \X QueueTypes) \ QueuesOf(qdev[i].qpairs[q]) :
                      queues[h] = qdev[i].queues[h]
<1>1. PICK e \in DOMAIN entries : e = qdev[i].qpairs[q] /\ qdev[i].qpairs[q] # 0
  BY Zenon DEF PairsInv, QpairStart, QpairStop
<1>2. \E from, fault : \E to \in QueueStates : \E queues \in Applied(i, e, from, to, fault) :
         qdev' = [qdev EXCEPT ![i].queues = queues]
  <2>1. CASE QpairStart(i, q)
    BY <1>1, <2>1, Zenon DEF QpairStart, QueueStates
  <2>2. CASE QpairStop(i, q)
    BY <1>1, <2>2, Zenon DEF QpairStop, QueueStates
  <2> QED
    BY <2>1, <2>2, Zenon
<1>3. PICK queues : /\ \E from, fault : \E to \in QueueStates : queues \in Applied(i, e, from, to, fault)
                   /\ qdev' = [qdev EXCEPT ![i].queues = queues]
  BY <1>2, Zenon
<1>4. /\ queues \in QueueMaps
      /\ \A h \in (Qids \X QueueTypes) \ QueuesOf(e) : queues[h] = qdev[i].queues[h]
  BY <1>3, AppliedFacts, SMTT(30)
<1>5. QueuesTo(i, qdev[i].handle, qdev[i].qpairs, queues)
  BY <1>3, SetQueues, Zenon
<1> QED
  BY <1>1, <1>4, <1>5, Zenon

\* DEL: the queues of the entry are removed as far as they go, and the entry leaves the xarray only
\* when all of them are.
LEMMA DelEffect ==
    ASSUME TypeInv, PairsInv, NEW i \in DOMAIN qdev, NEW q \in Qids, QpairDel(i, q)
    PROVE  LET e == qdev[i].qpairs[q]
           IN /\ e # 0 /\ e \in DOMAIN entries
              /\ \E queues \in QueueMaps :
                    /\ \A h \in (Qids \X QueueTypes) \ QueuesOf(e) : queues[h] = qdev[i].queues[h]
                    /\ \/ /\ \A h \in QueuesOf(e) : queues[h] = "disabled"
                          /\ QueuesTo(i, qdev[i].handle, [qdev[i].qpairs EXCEPT ![q] = 0], queues)
                          /\ entries' = PutEntries(entries, <<e>>)
                       \/ /\ QueuesTo(i, qdev[i].handle, qdev[i].qpairs, queues)
                          /\ entries' = entries
<1>1. PICK e \in DOMAIN entries : e = qdev[i].qpairs[q] /\ qdev[i].qpairs[q] # 0
  <2>1. qdev[i].qpairs[q] # 0
    BY Zenon DEF QpairDel
  <2> QED
    BY <2>1, Zenon DEF PairsInv
<1> DEFINE visited == QueuesOf(e)
           queues(left) == [h \in DOMAIN qdev[i].queues |->
                               IF h \in visited THEN left[h].state ELSE qdev[i].queues[h]]
<1>2. PICK left \in [visited -> Removals] :
         LET after == [qdev EXCEPT ![i].queues = queues(left)]
         IN /\ \A h \in visited : left[h] \in RemoveSafe(qdev[i].queues[h])
            /\ IF \A h \in visited : ~left[h].err
               THEN /\ qdev' = [after EXCEPT ![i].qpairs[q] = 0]
                    /\ entries' = PutEntries(entries, <<e>>)
               ELSE qdev' = after /\ UNCHANGED entries
  BY <1>1, Zenon DEF QpairDel
<1>8. \A h \in visited : left[h].state \in QueueStates /\ (~left[h].err => left[h].state = "disabled")
  <2> SUFFICES ASSUME NEW h \in visited
               PROVE  left[h].state \in QueueStates /\ (~left[h].err => left[h].state = "disabled")
    BY Zenon
  <2>1. left[h] \in Removals /\ left[h] \in RemoveSafe(qdev[i].queues[h])
    BY <1>2, Zenon
  <2>2. left[h].state \in QueueStates
    BY <2>1, Zenon DEF Removals, QueueStates
  <2>3. ~left[h].err => left[h].state = "disabled"
    <3>1. \A s : [state |-> s, err |-> TRUE].err = TRUE
      OBVIOUS
    <3>2. left[h] = [state |-> "disabled", err |-> FALSE] \/ \E s : left[h] = [state |-> s, err |-> TRUE]
      BY <2>1, SMTT(30) DEF RemoveSafe
    <3>3. [state |-> "disabled", err |-> FALSE].state = "disabled"
      OBVIOUS
    <3> QED
      BY <3>1, <3>2, <3>3, SMTT(30)
  <2> QED
    BY <2>2, <2>3, Zenon
<1>3. qdev[i] \in Qdevs /\ qdev[i].queues \in [Qids \X QueueTypes -> QueueStates]
  BY DevFacts, Zenon DEF QueueMaps
<1>4. /\ queues(left) \in QueueMaps
      /\ \A h \in (Qids \X QueueTypes) \ visited : queues(left)[h] = qdev[i].queues[h]
      /\ \A h \in visited : queues(left)[h] = left[h].state
  <2>1. visited \subseteq Qids \X QueueTypes
    BY QueuesOfFacts, Zenon
  <2> HIDE DEF visited
  <2> QED
    BY <1>3, <1>8, <2>1, Zenon DEF QueueMaps
<1>5. PICK new \in QueueMaps : new = queues(left)
  BY <1>4, Zenon
<1> HIDE DEF queues, visited
<1>6. CASE \A h \in visited : ~left[h].err
  <2>1. qdev' = [[qdev EXCEPT ![i].queues = new] EXCEPT ![i].qpairs[q] = 0]
    BY <1>2, <1>5, <1>6, Zenon
  <2>2. QueuesTo(i, qdev[i].handle, [qdev[i].qpairs EXCEPT ![q] = 0], new)
    BY <1>3, <2>1, Zenon DEF QueuesTo, Changed, WithQueues, Qdevs
  <2>3. entries' = PutEntries(entries, <<e>>)
    BY <1>2, <1>6, Zenon
  <2> QED
    BY <1>1, <1>4, <1>5, <1>6, <1>8, <2>2, <2>3, Zenon DEF visited
<1>7. CASE ~ \A h \in visited : ~left[h].err
  <2>1. qdev' = [qdev EXCEPT ![i].queues = new] /\ entries' = entries
    BY <1>2, <1>5, <1>7, Zenon
  <2>2. QueuesTo(i, qdev[i].handle, qdev[i].qpairs, new)
    BY <2>1, SetQueues, Zenon
  <2> QED
    BY <1>1, <1>4, <1>5, <2>1, <2>2, Zenon DEF visited
<1> QED
  BY <1>6, <1>7, Zenon

------------------------------------------------------------------------------
(* Counting, entries, buffers and transfers *)

\* New reference counts change nothing else of the entries.
LEMMA EntriesRecounted ==
    ASSUME TypeInv, NEW n \in [DOMAIN entries -> Int],
           entries' = [e \in DOMAIN entries |-> [entries[e] EXCEPT !.ref = n[e]]]
    PROVE  /\ entries' \in Seq(Entries) /\ SameEntries
           /\ \A e \in DOMAIN entries : entries'[e].ref = n[e]
<1>1. ASSUME NEW e \in DOMAIN entries
      PROVE  /\ entries'[e] \in Entries /\ entries'[e].dev = entries[e].dev
             /\ entries'[e].dirs = entries[e].dirs /\ entries'[e].qhndl = entries[e].qhndl
             /\ entries'[e].ref = n[e]
  <2>1. entries[e] \in Entries /\ n[e] \in Int
    BY DEF TypeInv
  <2> QED
    BY <2>1, Zenon DEF Entries
<1>2. entries' = [e \in DOMAIN entries |-> entries'[e]]
  BY Zenon
<1>3. entries \in Seq(Entries)
  BY Zenon DEF TypeInv
<1>4. entries' \in Seq(Entries) /\ DOMAIN entries' = DOMAIN entries
  <2>1. \A e \in DOMAIN entries : entries'[e] \in Entries
    BY <1>1, Zenon
  <2> QED
    BY <1>2, <1>3, <2>1, SeqRedone
<1> QED
  BY <1>1, <1>4, Zenon DEF SameEntries

\* How often an entry is in a sequence of entries.
Times(es, e) == Cardinality({k \in DOMAIN es : es[k] = e})

\* It is a number.
LEMMA TimesFacts ==
    ASSUME NEW es \in Seq(Nat), NEW e
    PROVE  Times(es, e) \in Nat
BY IndexFinite, PartOf, Zenon DEF Times

\* slash_qdma_qpair_put of a sequence of entries, and the references a new fd takes.
LEMMA PutGetEntries ==
    ASSUME TypeInv, NEW es \in Seq(Nat)
    PROVE  /\ entries' = PutEntries(entries, es) =>
                 /\ entries' \in Seq(Entries) /\ SameEntries
                 /\ \A e \in DOMAIN entries : entries'[e].ref = entries[e].ref - Times(es, e)
           /\ entries' = [e \in DOMAIN entries |->
                 [entries[e] EXCEPT !.ref = @ + Cardinality({k \in DOMAIN es : es[k] = e})]] =>
                 /\ entries' \in Seq(Entries) /\ SameEntries
                 /\ \A e \in DOMAIN entries : entries'[e].ref = entries[e].ref + Times(es, e)
<1>1. \A e \in DOMAIN entries : entries[e].ref \in Int /\ Times(es, e) \in Nat
  <2>1. \A e \in DOMAIN entries : entries[e] \in Entries
    BY DEF TypeInv
  <2> QED
    BY <2>1, TimesFacts, Zenon DEF Entries
<1>2. ASSUME entries' = PutEntries(entries, es)
      PROVE  /\ entries' \in Seq(Entries) /\ SameEntries
             /\ \A e \in DOMAIN entries : entries'[e].ref = entries[e].ref - Times(es, e)
  <2> DEFINE n == [e \in DOMAIN entries |-> entries[e].ref - Times(es, e)]
  <2>1. n \in [DOMAIN entries -> Int]
    BY <1>1
  <2>2. entries' = [e \in DOMAIN entries |-> [entries[e] EXCEPT !.ref = n[e]]]
    BY <1>2, Zenon DEF PutEntries, Times
  <2>3. \A e \in DOMAIN entries : n[e] = entries[e].ref - Times(es, e)
    BY Zenon
  <2> HIDE DEF n
  <2> QED
    BY <2>1, <2>2, <2>3, EntriesRecounted, Zenon
<1>3. ASSUME entries' = [e \in DOMAIN entries |->
                 [entries[e] EXCEPT !.ref = @ + Cardinality({k \in DOMAIN es : es[k] = e})]]
      PROVE  /\ entries' \in Seq(Entries) /\ SameEntries
             /\ \A e \in DOMAIN entries : entries'[e].ref = entries[e].ref + Times(es, e)
  <2> DEFINE n == [e \in DOMAIN entries |-> entries[e].ref + Times(es, e)]
  <2>1. n \in [DOMAIN entries -> Int]
    BY <1>1
  <2>2. entries' = [e \in DOMAIN entries |-> [entries[e] EXCEPT !.ref = n[e]]]
    BY <1>3, Zenon DEF Times
  <2>3. \A e \in DOMAIN entries : n[e] = entries[e].ref + Times(es, e)
    BY Zenon
  <2> HIDE DEF n
  <2> QED
    BY <2>1, <2>2, <2>3, EntriesRecounted, Zenon
<1> QED
  BY <1>2, <1>3, Zenon

WithHolders(b, ref, fd, vmas) == [b EXCEPT !.ref = ref, !.fd = fd, !.vmas = vmas]

\* The holders of a buffer.
LEMMA WithHoldersFacts ==
    ASSUME NEW b \in Buffers, NEW ref \in Int, NEW fd \in BOOLEAN, NEW vmas \in Nat
    PROVE  LET n == WithHolders(b, ref, fd, vmas)
           IN n \in Buffers /\ n.dev = b.dev /\ n.ref = ref /\ n.fd = fd /\ n.vmas = vmas
BY Zenon DEF WithHolders, Buffers

\* Steps of one buffer.
LEMMA BufEffect ==
    ASSUME TypeInv, NEW b \in DOMAIN bufs
    PROVE  LET c == bufs[b]
           IN /\ BufMmap(b) \/ BufVmOpen(b) =>
                    bufs' = Changed(bufs, b, WithHolders(c, c.ref + 1, c.fd, c.vmas + 1))
              /\ BufClose(b) =>
                    c.fd /\ bufs' = Changed(bufs, b, WithHolders(c, c.ref - 1, FALSE, c.vmas))
              /\ BufVmClose(b) =>
                    c.vmas > 0 /\ bufs' = Changed(bufs, b, WithHolders(c, c.ref - 1, c.fd, c.vmas - 1))
              /\ bufs' = [bufs EXCEPT ![b].ref = @ + 1] =>
                    bufs' = Changed(bufs, b, WithHolders(c, c.ref + 1, c.fd, c.vmas))
<1>1. bufs[b] \in Buffers
  BY DEF TypeInv
<1>2. BufMmap(b) \/ BufVmOpen(b) =>
         bufs' = Changed(bufs, b, WithHolders(bufs[b], bufs[b].ref + 1, bufs[b].fd, bufs[b].vmas + 1))
  BY <1>1, Zenon DEF BufMmap, BufVmOpen, Changed, WithHolders, Buffers
<1>3. BufClose(b) =>
         bufs[b].fd /\ bufs' = Changed(bufs, b, WithHolders(bufs[b], bufs[b].ref - 1, FALSE, bufs[b].vmas))
  BY <1>1, Zenon DEF BufClose, BufDrop, Changed, WithHolders, Buffers
<1>4. BufVmClose(b) =>
         /\ bufs[b].vmas > 0
         /\ bufs' = Changed(bufs, b, WithHolders(bufs[b], bufs[b].ref - 1, bufs[b].fd, bufs[b].vmas - 1))
  BY <1>1, Zenon DEF BufVmClose, BufDrop, Changed, WithHolders, Buffers
<1>5. bufs' = [bufs EXCEPT ![b].ref = @ + 1] =>
         bufs' = Changed(bufs, b, WithHolders(bufs[b], bufs[b].ref + 1, bufs[b].fd, bufs[b].vmas))
  BY <1>1, Zenon DEF Changed, WithHolders, Buffers
<1> QED
  BY <1>2, <1>3, <1>4, <1>5, Zenon

\* A step of one buffer leaves the others alone.
LEMMA BufChanged ==
    ASSUME TypeInv, NEW b \in DOMAIN bufs, NEW ref \in Int, NEW fd \in BOOLEAN, NEW vmas \in Nat,
           bufs' = Changed(bufs, b, WithHolders(bufs[b], ref, fd, vmas))
    PROVE  /\ bufs' \in Seq(Buffers) /\ SameBuffers
           /\ \A c \in DOMAIN bufs \ {b} : bufs'[c] = bufs[c]
           /\ bufs'[b].ref = ref /\ bufs'[b].fd = fd /\ bufs'[b].vmas = vmas
<1>1. bufs \in Seq(Buffers) /\ bufs[b] \in Buffers
  BY DEF TypeInv
<1>2. PICK n \in Buffers : /\ n = WithHolders(bufs[b], ref, fd, vmas) /\ n.dev = bufs[b].dev
                           /\ n.ref = ref /\ n.fd = fd /\ n.vmas = vmas
  BY <1>1, WithHoldersFacts
<1>3. /\ bufs' \in Seq(Buffers) /\ DOMAIN bufs' = DOMAIN bufs
      /\ \A c \in DOMAIN bufs : bufs'[c] = IF c = b THEN n ELSE bufs[c]
  <2>1. bufs' = Changed(bufs, b, n)
    BY <1>2, Zenon
  <2> QED
    BY <1>1, <2>1, SeqChanged
<1> QED
  BY <1>2, <1>3, Zenon DEF SameBuffers

\* The buffers of a device that PutBufs frees.
Freed(n, i) == {b \in DOMAIN bufs : n[b] > 0 /\ bufs[b].ref = n[b] /\ bufs[b].dev = i}

\* slash_qdma_buf_put of several buffers: only reference counts change.
LEMMA PutBufsEffect ==
    ASSUME TypeInv, NEW n \in [DOMAIN bufs -> Nat], PutBufs(n)
    PROVE  /\ bufs' \in Seq(Buffers) /\ SameBuffers
           /\ \A b \in DOMAIN bufs : /\ bufs'[b].ref = bufs[b].ref - n[b]
                                     /\ bufs'[b].fd = bufs[b].fd /\ bufs'[b].vmas = bufs[b].vmas
           /\ qdev' \in Seq(Qdevs) /\ SameNodes(qdev, qdev') /\ SameQueues
           /\ \A i \in DOMAIN qdev : /\ qdev'[i].opens = qdev[i].opens
                                     /\ qdev'[i].ref = qdev[i].ref - Cardinality(Freed(n, i))
<1>1. ASSUME NEW b \in DOMAIN bufs
      PROVE  /\ bufs'[b] \in Buffers /\ bufs'[b].dev = bufs[b].dev /\ bufs'[b].ref = bufs[b].ref - n[b]
             /\ bufs'[b].fd = bufs[b].fd /\ bufs'[b].vmas = bufs[b].vmas
  <2>1. bufs[b] \in Buffers
    BY DEF TypeInv
  <2>2. PICK ref \in Int : ref = bufs[b].ref - n[b]
    BY <2>1 DEF Buffers
  <2>3. bufs'[b] = WithHolders(bufs[b], ref, bufs[b].fd, bufs[b].vmas)
    BY <2>1, <2>2, Zenon DEF PutBufs, WithHolders, Buffers
  <2>4. bufs[b].fd \in BOOLEAN /\ bufs[b].vmas \in Nat
    BY <2>1, Zenon DEF Buffers
  <2>5. LET m == WithHolders(bufs[b], ref, bufs[b].fd, bufs[b].vmas)
        IN  /\ m \in Buffers /\ m.dev = bufs[b].dev /\ m.ref = ref
            /\ m.fd = bufs[b].fd /\ m.vmas = bufs[b].vmas
    BY <2>1, <2>2, <2>4, Zenon DEF WithHolders, Buffers
  <2> QED
    BY <2>2, <2>3, <2>5, Zenon
<1>2. bufs' \in Seq(Buffers) /\ DOMAIN bufs' = DOMAIN bufs
  <2>1. bufs' = [b \in DOMAIN bufs |-> bufs'[b]] /\ bufs \in Seq(Buffers)
    BY Zenon DEF PutBufs, TypeInv
  <2>2. \A b \in DOMAIN bufs : bufs'[b] \in Buffers
    BY <1>1, Zenon
  <2> QED
    BY <2>1, <2>2, SeqRedone, Zenon
<1>3. ASSUME NEW i \in DOMAIN qdev
      PROVE  /\ qdev'[i] \in Qdevs /\ qdev'[i].board = qdev[i].board /\ qdev'[i].slot = qdev[i].slot
             /\ qdev'[i].cdev = qdev[i].cdev /\ qdev'[i].bound = qdev[i].bound
             /\ qdev'[i].handle = qdev[i].handle /\ qdev'[i].qpairs = qdev[i].qpairs
             /\ qdev'[i].queues = qdev[i].queues /\ qdev'[i].opens = qdev[i].opens
             /\ qdev'[i].ref = qdev[i].ref - Cardinality(Freed(n, i))
  <2>1. qdev[i] \in Qdevs /\ qdev[i].ref \in Int /\ qdev[i].opens \in Nat /\ qdev[i].bound \in BOOLEAN
    BY DevFacts, Zenon
  <2>2. Cardinality(Freed(n, i)) \in Nat
    BY IndexFinite, PartOf, Zenon DEF TypeInv, Freed
  <2>3. PICK ref \in Int : ref = qdev[i].ref - Cardinality(Freed(n, i))
    BY <2>1, <2>2
  <2>4. qdev'[i] = WithRefs(qdev[i], ref, qdev[i].opens, qdev[i].bound)
    <3>1. {b \in {c \in DOMAIN bufs : n[c] > 0 /\ bufs[c].ref = n[c]} : bufs[b].dev = i} = Freed(n, i)
      BY Zenon DEF Freed
    <3>2. qdev'[i] = [qdev[i] EXCEPT !.ref = qdev[i].ref - Cardinality(Freed(n, i))]
      BY <3>1, Zenon DEF PutBufs
    <3> QED
      BY <2>1, <2>3, <3>2, Zenon DEF WithRefs, Qdevs
  <2>5. /\ qdev'[i] \in Qdevs /\ qdev'[i].board = qdev[i].board /\ qdev'[i].slot = qdev[i].slot
        /\ qdev'[i].cdev = qdev[i].cdev /\ qdev'[i].bound = qdev[i].bound
        /\ qdev'[i].handle = qdev[i].handle /\ qdev'[i].qpairs = qdev[i].qpairs
        /\ qdev'[i].queues = qdev[i].queues /\ qdev'[i].opens = qdev[i].opens
        /\ qdev'[i].ref = ref
    <3>1. PICK d \in Qdevs : d = qdev[i]
      BY <2>1, Zenon
    <3>2. PICK opens \in Nat, bound \in BOOLEAN : opens = d.opens /\ bound = d.bound
      BY <2>1, <3>1, Zenon
    <3>3. PICK e : e = WithRefs(d, ref, opens, bound)
      BY Zenon
    <3>4. qdev'[i] = e
      BY <2>4, <3>1, <3>2, <3>3, Zenon
    <3>5. /\ e \in Qdevs /\ e.board = d.board /\ e.slot = d.slot
          /\ e.handle = d.handle /\ e.cdev = d.cdev /\ e.qpairs = d.qpairs /\ e.queues = d.queues
          /\ e.ref = ref /\ e.opens = opens /\ e.bound = bound
      BY <3>3, WithRefsFacts
    <3> QED
      BY <3>1, <3>2, <3>4, <3>5, Zenon
  <2> QED
    BY <2>3, <2>5, Zenon
<1>4. qdev' \in Seq(Qdevs) /\ DOMAIN qdev' = DOMAIN qdev
  <2>1. qdev' = [i \in DOMAIN qdev |-> qdev'[i]] /\ qdev \in Seq(Qdevs)
    BY Zenon DEF PutBufs, TypeInv
  <2>2. \A i \in DOMAIN qdev : qdev'[i] \in Qdevs
    BY <1>3, Zenon
  <2> QED
    BY <2>1, <2>2, SeqRedone, Zenon
<1> QED
  BY <1>1, <1>2, <1>3, <1>4, Zenon DEF SameBuffers, SameNodes, SameQueues

\* A step of one transfer.
LEMMA XferChanged ==
    ASSUME TypeInv, NEW x \in Xfers, NEW pc \in Pcs, NEW prep \in Preps, NEW outstanding \in Int,
           xfers' = Changed(xfers, x, WithSubs(xfers[x], pc, prep, outstanding))
    PROVE  /\ xfers' \in [Xfers -> Transfers] /\ \A y \in Xfers \ {x} : xfers'[y] = xfers[y]
           /\ xfers'[x].fd = xfers[x].fd /\ xfers'[x].count = xfers[x].count
           /\ xfers'[x].pc = pc /\ xfers'[x].prep = prep
<1>1. xfers[x] \in Transfers
  BY Zenon DEF TypeInv
<1>2. PICK y \in Transfers : /\ y = WithSubs(xfers[x], pc, prep, outstanding)
                             /\ y.fd = xfers[x].fd /\ y.count = xfers[x].count /\ y.pc = pc /\ y.prep = prep
  BY <1>1, WithSubsFacts
<1>3. xfers' = Changed(xfers, x, y)
  BY <1>2, Zenon
<1> QED
  BY <1>2, <1>3, SMTT(30) DEF Changed, TypeInv

SubStates == {"ready", "flight", "ended", "gone"}

WithState(c, st) == [c EXCEPT !.st = st]

SubTo(s, k, st) == [s EXCEPT ![k] = WithState(s[k], st)]

\* A sub-transfer in a sequence of them changes its state.
LEMMA SubsEnd ==
    ASSUME NEW s \in Preps, NEW k, NEW st \in SubStates
    PROVE  LET t == SubTo(s, k, st)
           IN /\ t \in Preps /\ DOMAIN t = DOMAIN s /\ Len(t) = Len(s)
              /\ \A j \in DOMAIN s : t[j].buf = s[j].buf
<1> DEFINE t == SubTo(s, k, st)
<1>1. ASSUME NEW j \in DOMAIN s PROVE t[j] \in Subs /\ t[j].buf = s[j].buf
  <2>1. PICK c \in Subs : c = s[j]
    BY DEF Preps
  <2>2. t[j] = WithState(c, st) \/ t[j] = c
    BY <2>1, Zenon DEF SubTo
  <2>3. WithState(c, st) \in Subs /\ WithState(c, st).buf = c.buf
    BY Zenon DEF WithState, Subs, SubStates
  <2> HIDE DEF t
  <2> QED
    BY <2>1, <2>2, <2>3, Zenon
<1>2. t = [j \in DOMAIN s |-> t[j]] /\ s \in Seq(Subs)
  BY Zenon DEF Preps, SubTo
<1> HIDE DEF t
<1>3. t \in Seq(Subs) /\ DOMAIN t = DOMAIN s /\ Len(t) = Len(s)
  BY <1>1, <1>2, SeqRedone, Zenon
<1> QED
  BY <1>1, <1>3, Zenon DEF t, Preps

\* The fields of a transfer.
LEMMA XferFacts ==
    ASSUME TypeInv, NEW x \in Xfers
    PROVE  /\ xfers[x] \in Transfers /\ xfers[x].pc \in Pcs /\ xfers[x].prep \in Preps
           /\ xfers[x].outstanding \in Int /\ xfers[x].count \in 0..FdMaxQpairs
           /\ xfers[x].fd \in Fds \cup {NoFd}
<1>1. xfers[x] \in Transfers
  BY Zenon DEF TypeInv
<1> QED
  BY <1>1, Zenon DEF Transfers

SubmitsTo(x, k, st, pc, outstanding) ==
    xfers' = Changed(xfers, x, WithSubs(xfers[x], pc, SubTo(xfers[x].prep, k, st), outstanding))

\* A new state of one sub-transfer keeps what a transfer was prepared with.
LEMMA SubmitsFacts ==
    ASSUME TypeInv, NEW x \in Xfers, NEW k, NEW st \in SubStates, NEW pc \in Pcs,
           NEW outstanding \in Int, SubmitsTo(x, k, st, pc, outstanding),
           pc = xfers[x].pc \/ (pc \in {"submit", "wait"} /\ xfers[x].pc \in {"submit", "wait"})
    PROVE  xfers' \in [Xfers -> Transfers] /\ \A y \in Xfers : SameSubs(xfers[y], xfers'[y])
<1>1. xfers[x].prep \in Preps
  BY XferFacts, Zenon
<1>2. PICK old \in Preps : old = xfers[x].prep
  BY <1>1, Zenon
<1>3. PICK prep : prep = SubTo(old, k, st)
  BY Zenon
<1>4. /\ prep \in Preps /\ DOMAIN prep = DOMAIN old /\ Len(prep) = Len(old)
      /\ \A j \in DOMAIN old : prep[j].buf = old[j].buf
  BY <1>3, SubsEnd, Zenon
<1>5. xfers' = Changed(xfers, x, WithSubs(xfers[x], pc, prep, outstanding))
  BY <1>2, <1>3, Zenon DEF SubmitsTo
<1>6. /\ xfers' \in [Xfers -> Transfers] /\ \A y \in Xfers \ {x} : xfers'[y] = xfers[y]
      /\ xfers'[x].fd = xfers[x].fd /\ xfers'[x].count = xfers[x].count
      /\ xfers'[x].pc = pc /\ xfers'[x].prep = prep
  BY <1>4, <1>5, XferChanged, Zenon
<1> QED
  BY <1>2, <1>4, <1>6, Zenon DEF SameSubs

\* Submissions and completions keep what a transfer was prepared with.
LEMMA MoveEffect ==
    ASSUME TypeInv, NEW x \in Xfers, SubmitXfer(x) \/ \E k : CompleteXfer(x, k)
    PROVE  xfers' \in [Xfers -> Transfers] /\ \A y \in Xfers : SameSubs(xfers[y], xfers'[y])
<1>1. xfers[x] \in Transfers /\ xfers[x].outstanding \in Int /\ xfers[x].pc \in Pcs
  BY XferFacts, Zenon
<1>2. CASE SubmitXfer(x)
  <2>1. NotQueued(x) \in Int
    BY <1>1 DEF NotQueued
  <2>2. PICK k, pc : /\ \/ xfers' = [xfers EXCEPT ![x].prep[k].st = "flight", ![x].pc = pc]
                        \/ xfers' = [xfers EXCEPT ![x].prep[k].st = "gone", ![x].pc = pc]
                        \/ xfers' = [xfers EXCEPT ![x].prep[k].st = "ended", ![x].pc = pc,
                                                  ![x].outstanding = NotQueued(x)]
                     /\ pc \in {"submit", "wait"} /\ xfers[x].pc = "submit"
    BY <1>2, Zenon DEF SubmitXfer
  <2>3. \/ SubmitsTo(x, k, "flight", pc, xfers[x].outstanding)
        \/ SubmitsTo(x, k, "gone", pc, xfers[x].outstanding)
        \/ SubmitsTo(x, k, "ended", pc, NotQueued(x))
    BY <1>1, <2>2, Zenon DEF SubmitsTo, Changed, WithSubs, SubTo, WithState, Transfers
  <2>4. pc \in Pcs /\ "flight" \in SubStates /\ "gone" \in SubStates /\ "ended" \in SubStates
    BY <2>2, Zenon DEF Pcs, SubStates
  <2>5. pc = xfers[x].pc \/ (pc \in {"submit", "wait"} /\ xfers[x].pc \in {"submit", "wait"})
    BY <2>2, Zenon
  <2> QED
    BY <1>1, <2>1, <2>3, <2>4, <2>5, SubmitsFacts, Zenon
<1>3. CASE \E k : CompleteXfer(x, k)
  <2>1. PICK k : CompleteXfer(x, k)
    BY <1>3, Zenon
  <2>2. PICK left \in Int : left = IF xfers[x].kind = "uring" THEN xfers[x].outstanding - 1
                                   ELSE xfers[x].outstanding
    BY <1>1
  <2>3. xfers' = [xfers EXCEPT ![x].prep[k].st = "ended", ![x].outstanding = left]
    BY <2>1, <2>2, Zenon DEF CompleteXfer
  <2>4. SubmitsTo(x, k, "ended", xfers[x].pc, left)
    BY <1>1, <2>3, Zenon DEF SubmitsTo, Changed, WithSubs, SubTo, WithState, Transfers
  <2>5. "ended" \in SubStates
    BY Zenon DEF SubStates
  <2> QED
    BY <1>1, <2>4, <2>5, SubmitsFacts, Zenon
<1> QED
  BY <1>2, <1>3, Zenon

------------------------------------------------------------------------------
(* The steps of files and transfers *)

\* A step of files leaves the bus and the nodes alone.
LEMMA FilesKeep ==
    ASSUME DriverInv, QdmaKept, SameNodes(qdev, qdev'), UNCHANGED <<slots, ctls, bus, pci, work>>
    PROVE  DriverInv'
<1>1. TypeInv'
  BY Zenon DEF DriverInv, TypeInv, QdmaKept, Functions
<1>2. PciInv'
  BY Zenon DEF DriverInv, PciInv, Functions
<1>3. LifeOf(qdev, QdmaPf)'
  BY DEF DriverInv, LifeOf, LifeIn, SameNodes, Functions
<1>4. LifeOf(ctls, ControlPf)'
  BY Zenon DEF DriverInv, LifeOf, LifeIn, Functions
<1>5. SlotsInv'
  BY DEF DriverInv, SlotsInv, Numbered, SameNodes
<1>6. HeldInv' /\ DeadInv'
  BY Zenon DEF DriverInv, HeldInv, DeadInv
<1> QED
  BY <1>1, <1>2, <1>3, <1>4, <1>5, <1>6, Zenon DEF DriverInv, QdmaKept

\* Opening and closing the control node, and a reference more or less.
LEMMA RefsKeep ==
    ASSUME DriverInv, NEW i \in DOMAIN qdev, NEW ref \in Int, NEW opens \in Nat,
           RefsTo(i, ref, opens, qdev[i].bound), UNCHANGED <<entries, qfds, bufs, xfers>>
    PROVE  QdmaKept /\ SameNodes(qdev, qdev')
<1>1. qdev[i].bound \in BOOLEAN
  BY DevFacts, Zenon DEF DriverInv
<1>2. /\ qdev' \in Seq(Qdevs) /\ SameQueues
      /\ \A j \in DOMAIN qdev :
            /\ qdev'[j].board = qdev[j].board /\ qdev'[j].slot = qdev[j].slot
            /\ qdev'[j].cdev = qdev[j].cdev
            /\ j # i => qdev'[j] = qdev[j]
      /\ qdev'[i].bound = qdev[i].bound
  BY <1>1, RefsToFacts DEF DriverInv
<1>3. SameNodes(qdev, qdev') /\ DOMAIN qdev' = DOMAIN qdev
  BY <1>2, Zenon DEF SameNodes, SameQueues
<1>4. PairsInv' /\ HandleInv' /\ QueuesTracked'
  BY <1>2, PairsSame, SameThings, Zenon DEF DriverInv
<1>5. FdsInv' /\ BufsInv' /\ XfersInv'
  BY <1>3, FdsSame, BufsSame, XfersSame, SameThings, Zenon DEF DriverInv
<1> QED
  BY <1>2, <1>3, <1>4, <1>5, Zenon DEF QdmaKept, DriverInv, TypeInv

\* Queues that change while the xarray does not: only known queues may become active.
LEMMA QueuesKeep ==
    ASSUME DriverInv, NEW i \in DOMAIN qdev, NEW queues \in QueueMaps,
           QueuesTo(i, qdev[i].handle, qdev[i].qpairs, queues),
           \A q \in Qids, t \in QueueTypes :
               queues[<<q, t>>] \in Added => qdev[i].queues[<<q, t>>] \in Added \/ Known(i, q, t),
           UNCHANGED <<entries, qfds, bufs>>, xfers' \in [Xfers -> Transfers],
           \A x \in Xfers : SameSubs(xfers[x], xfers'[x])
    PROVE  QdmaKept /\ SameNodes(qdev, qdev')
<1>1. qdev[i].handle \in BOOLEAN /\ qdev[i].qpairs \in QpairMaps
  BY DevFacts, Zenon DEF DriverInv
<1>2. /\ qdev' \in Seq(Qdevs) /\ SameNodes(qdev, qdev')
      /\ \A j \in DOMAIN qdev \ {i} : qdev'[j] = qdev[j]
      /\ qdev'[i].handle = qdev[i].handle /\ qdev'[i].qpairs = qdev[i].qpairs
      /\ qdev'[i].queues = queues
  BY <1>1, QueuesToFacts DEF DriverInv
<1>3. DOMAIN qdev' = DOMAIN qdev /\ \A j \in DOMAIN qdev : qdev'[j].qpairs = qdev[j].qpairs
  BY <1>2, Zenon DEF SameNodes
<1>4. PairsInv' /\ HandleInv'
  BY <1>3 DEF DriverInv, PairsInv, HandleInv
<1>5. QueuesTracked'
  <2> SUFFICES ASSUME NEW j \in DOMAIN qdev, qdev'[j].handle,
                      NEW q \in Qids, NEW t \in QueueTypes, qdev'[j].queues[<<q, t>>] \in Added
               PROVE  LET e == qdev[j].qpairs[q]
                      IN e # 0 /\ t \in entries[e].dirs /\ entries[e].qhndl[t] = q
    BY <1>3 DEF QueuesTracked
  <2>1. QueuesTracked
    BY Zenon DEF DriverInv
  <2>2. CASE j # i
    BY <1>2, <2>1, <2>2, SMTT(30) DEF QueuesTracked
  <2>3. CASE j = i
    BY <1>2, <2>1, <2>3, SMTT(30) DEF QueuesTracked, Known
  <2> QED
    BY <2>2, <2>3, Zenon
<1>6. FdsInv' /\ BufsInv' /\ XfersInv'
  BY <1>3, FdsSame, BufsSame, XfersSame, SameThings, Zenon DEF DriverInv
<1> QED
  BY <1>2, <1>4, <1>5, <1>6, Zenon DEF QdmaKept, DriverInv, TypeInv

\* The queues of an entry are those of its id.
LEMMA OwnQueues ==
    ASSUME DriverInv, NEW i \in DOMAIN qdev, NEW q \in Qids, NEW e, e = qdev[i].qpairs[q], e # 0,
           NEW r \in Qids, NEW t \in QueueTypes
    PROVE  <<r, t>> \in QueuesOf(e) => r = q /\ Known(i, q, t)
<1>1. e \in DOMAIN entries /\ \A u \in entries[e].dirs : entries[e].qhndl[u] = q
  BY DEF DriverInv, PairsInv, HandleInv
<1>2. \A h \in QueuesOf(e) : \E u \in entries[e].dirs : h = <<entries[e].qhndl[u], u>>
  BY <1>1, QueuesOfFacts, Zenon DEF DriverInv
<1> QED
  BY <1>1, <1>2, Zenon DEF Known

\* ADD that fails, START and STOP.
LEMMA QueuesAlike ==
    ASSUME DriverInv, NEW i \in DOMAIN qdev,
           (\E mask : QpairAddFails(i, mask)) \/ \E q \in Qids : QpairStart(i, q) \/ QpairStop(i, q)
    PROVE  QdmaKept /\ SameNodes(qdev, qdev')
<1>1. CASE \E mask : QpairAddFails(i, mask)
  <2>1. PICK mask : QpairAddFails(i, mask)
    BY <1>1, Zenon
  <2>2. PICK queues \in QueueMaps : /\ QueuesTo(i, qdev[i].handle, qdev[i].qpairs, queues)
                                    /\ \A h \in Qids \X QueueTypes :
                                         queues[h] = qdev[i].queues[h] \/ queues[h] \notin Added
    BY <2>1, AddFailsEffect, Zenon DEF DriverInv
  <2>3. UNCHANGED <<entries, qfds, bufs, xfers>>
    BY <2>1, Zenon DEF QpairAddFails
  <2>4. xfers' \in [Xfers -> Transfers] /\ \A x \in Xfers : SameSubs(xfers[x], xfers'[x])
    BY <2>3, SameThings, Zenon DEF DriverInv, TypeInv
  <2>5. \A r \in Qids, t \in QueueTypes :
           queues[<<r, t>>] \in Added => qdev[i].queues[<<r, t>>] \in Added \/ Known(i, r, t)
    BY <2>2, Zenon
  <2> QED
    BY <2>2, <2>3, <2>4, <2>5, QueuesKeep, Zenon
<1>2. CASE \E q \in Qids : QpairStart(i, q) \/ QpairStop(i, q)
  <2>1. PICK q \in Qids : QpairStart(i, q) \/ QpairStop(i, q)
    BY <1>2, Zenon
  <2>2. PICK e : e = qdev[i].qpairs[q]
    BY Zenon
  <2>3. e # 0 /\ PairsInv /\ TypeInv
    BY <2>1, <2>2, StartStopEffect, Zenon DEF DriverInv
  <2>4. PICK queues \in QueueMaps :
           /\ QueuesTo(i, qdev[i].handle, qdev[i].qpairs, queues)
           /\ \A h \in (Qids \X QueueTypes) \ QueuesOf(e) : queues[h] = qdev[i].queues[h]
    BY <2>1, <2>2, <2>3, StartStopEffect, SMTT(30)
  <2>5. \A r \in Qids, t \in QueueTypes :
           queues[<<r, t>>] \in Added => qdev[i].queues[<<r, t>>] \in Added \/ Known(i, r, t)
    <3> SUFFICES ASSUME NEW r \in Qids, NEW t \in QueueTypes, queues[<<r, t>>] \in Added
                 PROVE  qdev[i].queues[<<r, t>>] \in Added \/ Known(i, r, t)
      BY Zenon
    <3>1. CASE <<r, t>> \in QueuesOf(e)
      BY <2>2, <2>3, <3>1, OwnQueues, SMTT(30)
    <3>2. CASE <<r, t>> \notin QueuesOf(e)
      BY <2>4, <3>2, Zenon
    <3> QED
      BY <3>1, <3>2, Zenon
  <2>6. UNCHANGED <<entries, qfds, bufs>>
    BY <2>1, Zenon DEF QpairStart, QpairStop
  <2>7. xfers' \in [Xfers -> Transfers] /\ \A x \in Xfers : SameSubs(xfers[x], xfers'[x])
    <3>1. UNCHANGED xfers \/ \E stopped : Stopping(i, stopped)
      BY <2>1, Zenon DEF QpairStart, QpairStop
    <3> QED
      BY <2>3, <3>1, StoppingEffect, SameThings, Zenon DEF TypeInv
  <2> QED
    BY <2>4, <2>5, <2>6, <2>7, QueuesKeep, Zenon
<1> QED
  BY <1>1, <1>2, Zenon

\* DEL.
LEMMA DelKeeps ==
    ASSUME DriverInv, NEW i \in DOMAIN qdev, NEW q \in Qids, QpairDel(i, q)
    PROVE  QdmaKept /\ SameNodes(qdev, qdev')
<1>1. TypeInv /\ PairsInv /\ HandleInv
  BY Zenon DEF DriverInv
<1> DEFINE e == qdev[i].qpairs[q]
<1>3. PICK queues \in QueueMaps :
         /\ \A h \in (Qids \X QueueTypes) \ QueuesOf(e) : queues[h] = qdev[i].queues[h]
         /\ \/ /\ \A h \in QueuesOf(e) : queues[h] = "disabled"
               /\ QueuesTo(i, qdev[i].handle, [qdev[i].qpairs EXCEPT ![q] = 0], queues)
               /\ entries' = PutEntries(entries, <<e>>)
            \/ /\ QueuesTo(i, qdev[i].handle, qdev[i].qpairs, queues)
               /\ entries' = entries
  BY <1>1, DelEffect, Zenon
<1>2. e = qdev[i].qpairs[q] /\ e # 0 /\ e \in DOMAIN entries
  BY <1>1, DelEffect, Zenon
<1> HIDE DEF e
<1>4. UNCHANGED <<qfds, bufs>> /\ \E stopped : Stopping(i, stopped)
  BY Zenon DEF QpairDel
<1>5. xfers' \in [Xfers -> Transfers] /\ \A x \in Xfers : SameSubs(xfers[x], xfers'[x])
  BY <1>1, <1>4, StoppingEffect, Zenon
<1>6. \A r \in Qids, t \in QueueTypes : <<r, t>> \in QueuesOf(e) => r = q /\ Known(i, q, t)
  BY <1>2, OwnQueues
<1>7. CASE QueuesTo(i, qdev[i].handle, qdev[i].qpairs, queues) /\ entries' = entries
  <2>1. \A r \in Qids, t \in QueueTypes :
           queues[<<r, t>>] \in Added => qdev[i].queues[<<r, t>>] \in Added \/ Known(i, r, t)
    BY <1>3, <1>6, Zenon
  <2> QED
    BY <1>4, <1>5, <1>7, <2>1, QueuesKeep, Zenon
<1>8. CASE /\ \A h \in QueuesOf(e) : queues[h] = "disabled"
           /\ QueuesTo(i, qdev[i].handle, [qdev[i].qpairs EXCEPT ![q] = 0], queues)
           /\ entries' = PutEntries(entries, <<e>>)
  <2>1. entries' \in Seq(Entries) /\ SameEntries
    <3>1. <<e>> \in Seq(Nat)
      BY <1>1, <1>2 DEF TypeInv
    <3> QED
      BY <1>1, <1>8, <3>1, PutGetEntries, Zenon
  <2>2. qdev[i].handle \in BOOLEAN /\ qdev[i].qpairs \in [Qids -> Nat]
    BY <1>1, DevFacts, Zenon DEF QpairMaps
  <2>3. PICK qpairs : qpairs = [qdev[i].qpairs EXCEPT ![q] = 0]
    BY Zenon
  <2>4. qpairs \in QpairMaps /\ \A r \in Qids : qpairs[r] = IF r = q THEN 0 ELSE qdev[i].qpairs[r]
    BY <2>2, <2>3, Zenon DEF QpairMaps
  <2>5. QueuesTo(i, qdev[i].handle, qpairs, queues)
    BY <1>8, <2>3, Zenon
  <2>6. /\ qdev' \in Seq(Qdevs) /\ SameNodes(qdev, qdev')
        /\ \A j \in DOMAIN qdev \ {i} : qdev'[j] = qdev[j]
        /\ qdev'[i].handle = qdev[i].handle /\ qdev'[i].qpairs = qpairs
        /\ qdev'[i].queues = queues
    BY <1>1, <2>2, <2>4, <2>5, QueuesToFacts, SMTT(30)
  <2>7. /\ DOMAIN qdev' = DOMAIN qdev
        /\ \A j \in DOMAIN qdev, r \in Qids :
              qdev'[j].qpairs[r] = IF j = i /\ r = q THEN 0 ELSE qdev[j].qpairs[r]
    BY <2>4, <2>6, Zenon DEF SameNodes
  <2>8. PairsInv' /\ HandleInv'
    <3>1. PairsInv'
      BY <1>1, <2>1, <2>7, SMTT(30) DEF PairsInv, SameEntries
    <3>2. HandleInv'
      BY <1>1, <2>1, <2>7, SMTT(30) DEF PairsInv, HandleInv, SameEntries
    <3> QED
      BY <3>1, <3>2, Zenon
  <2>9. QueuesTracked'
    <3> SUFFICES ASSUME NEW j \in DOMAIN qdev, qdev'[j].handle,
                        NEW r \in Qids, NEW t \in QueueTypes, qdev'[j].queues[<<r, t>>] \in Added
                 PROVE  LET f == qdev'[j].qpairs[r]
                        IN f # 0 /\ t \in entries'[f].dirs /\ entries'[f].qhndl[t] = r
      BY <2>7 DEF QueuesTracked
    <3>1. QueuesTracked
      BY Zenon DEF DriverInv
    <3>2. /\ qdev[j].queues[<<r, t>>] \in Added /\ qdev[j].handle
          /\ j = i => <<r, t>> \notin QueuesOf(e)
      BY <1>3, <1>8, <2>6, ZenonT(40) DEF Added
    <3>3. Known(j, r, t)
      BY <3>1, <3>2, SMTT(30) DEF QueuesTracked, Known
    <3>4. ~(j = i /\ r = q)
      <4>1. ASSUME j = i, r = q PROVE FALSE
        <5>1. t \in entries[e].dirs /\ entries[e].qhndl[t] = q
          BY <1>2, <3>3, <4>1, Zenon DEF Known
        <5>2. <<q, t>> \in QueuesOf(e)
          BY <1>1, <1>2, <5>1, QueuesOfFacts, ZenonT(40)
        <5> QED
          BY <3>2, <4>1, <5>2, Zenon
      <4> QED
        BY <4>1, Zenon
    <3>5. qdev'[j].qpairs[r] = qdev[j].qpairs[r] /\ qdev[j].qpairs[r] \in DOMAIN entries
      BY <1>1, <2>7, <3>3, <3>4, SMTT(30) DEF Known, PairsInv
    <3> QED
      BY <2>1, <3>3, <3>5, ZenonT(40) DEF Known, SameEntries
  <2>10. FdsInv' /\ BufsInv' /\ XfersInv'
    BY <1>4, <1>5, <2>1, <2>7, FdsSame, BufsSame, XfersSame, SameThings, Zenon DEF DriverInv, SameEntries
  <2> QED
    BY <1>1, <1>4, <1>5, <2>1, <2>6, <2>8, <2>9, <2>10, Zenon DEF QdmaKept, TypeInv
<1> QED
  BY <1>3, <1>7, <1>8, Zenon

\* ADD.
LEMMA AddKeeps ==
    ASSUME DriverInv, NEW i \in DOMAIN qdev, NEW mask \in work.masks, QpairAdd(i, mask)
    PROVE  QdmaKept /\ SameNodes(qdev, qdev')
<1>1. TypeInv /\ PairsInv /\ HandleInv
  BY Zenon DEF DriverInv
<1>2. PICK q \in Qids, new \in Entries :
         /\ qdev[i].qpairs[q] = 0 /\ entries' = Append(entries, new)
         /\ new = [dev |-> i, ref |-> 1, dirs |-> mask,
                   qhndl |-> [t \in QueueTypes |-> IF t \in mask THEN q ELSE Invalid]]
         /\ QueuesTo(i, qdev[i].handle, [qdev[i].qpairs EXCEPT ![q] = Len(entries) + 1],
                     [h \in Qids \X QueueTypes |->
                         IF h \in {q} \X mask THEN "enabled" ELSE qdev[i].queues[h]])
  BY <1>1, AddEffect, Zenon
<1>3. mask \subseteq QueueTypes
  BY <1>1, MaskFacts, Zenon
<1>4. new.dev = i /\ new.dirs = mask /\ \A t \in mask : new.qhndl[t] = q
  BY <1>2, <1>3, Zenon
<1>5. PICK n \in Nat : n = Len(entries) + 1
  BY <1>1 DEF TypeInv
<1>6. /\ entries' \in Seq(Entries) /\ DOMAIN entries' = DOMAIN entries \cup {n} /\ n \notin DOMAIN entries
      /\ n # 0 /\ entries'[n] = new /\ \A e \in DOMAIN entries : entries'[e] = entries[e]
  <2>1. entries' \in Seq(Entries) /\ Longer(entries, new, entries')
    BY <1>1, <1>2, SeqAppended, Zenon DEF TypeInv
  <2>2. n # 0
    BY <1>1, <1>5, SMTT(30) DEF TypeInv
  <2> QED
    BY <1>5, <2>1, <2>2, Zenon DEF Longer
<1>7. qdev[i].handle \in BOOLEAN /\ qdev[i].qpairs \in [Qids -> Nat]
      /\ qdev[i].queues \in [Qids \X QueueTypes -> QueueStates]
  BY <1>1, DevFacts, Zenon DEF QpairMaps, QueueMaps
<1>8. PICK qpairs, queues :
         /\ qpairs = [qdev[i].qpairs EXCEPT ![q] = n]
         /\ queues = [h \in Qids \X QueueTypes |->
                         IF h \in {q} \X mask THEN "enabled" ELSE qdev[i].queues[h]]
  BY Zenon
<1>9. qpairs \in QpairMaps /\ \A r \in Qids : qpairs[r] = IF r = q THEN n ELSE qdev[i].qpairs[r]
  BY <1>7, <1>8, Zenon DEF QpairMaps
<1>10. /\ queues \in QueueMaps
       /\ \A r \in Qids, t \in QueueTypes :
             queues[<<r, t>>] \in Added =>
                 (r = q /\ t \in mask) \/ qdev[i].queues[<<r, t>>] \in Added
  BY <1>7, <1>8, Zenon DEF QueueMaps, QueueStates
<1>11. /\ qdev' \in Seq(Qdevs) /\ SameNodes(qdev, qdev')
       /\ \A j \in DOMAIN qdev \ {i} : qdev'[j] = qdev[j]
       /\ qdev'[i].handle = qdev[i].handle /\ qdev'[i].qpairs = qpairs
       /\ qdev'[i].queues = queues
  <2>1. QueuesTo(i, qdev[i].handle, qpairs, queues)
    BY <1>2, <1>5, <1>8, Zenon
  <2> QED
    BY <1>1, <1>7, <1>9, <1>10, <2>1, QueuesToFacts, SMTT(30)
<1>12. /\ DOMAIN qdev' = DOMAIN qdev
       /\ \A j \in DOMAIN qdev, r \in Qids :
             qdev'[j].qpairs[r] = IF j = i /\ r = q THEN n ELSE qdev[j].qpairs[r]
  BY <1>9, <1>11, Zenon DEF SameNodes
<1>13. PairsInv'
  BY <1>1, <1>4, <1>6, <1>12, SMTT(30) DEF PairsInv
<1>14. HandleInv'
  BY <1>1, <1>4, <1>6, <1>12, SMTT(30) DEF PairsInv, HandleInv
<1>15. QueuesTracked'
  <2> SUFFICES ASSUME NEW j \in DOMAIN qdev, qdev'[j].handle,
                      NEW r \in Qids, NEW t \in QueueTypes, qdev'[j].queues[<<r, t>>] \in Added
               PROVE  LET f == qdev'[j].qpairs[r]
                      IN f # 0 /\ t \in entries'[f].dirs /\ entries'[f].qhndl[t] = r
    BY <1>12 DEF QueuesTracked
  <2>1. CASE j = i /\ r = q /\ t \in mask
    BY <1>4, <1>6, <1>12, <2>1, SMTT(30)
  <2>2. CASE ~(j = i /\ r = q /\ t \in mask)
    <3>1. qdev[j].queues[<<r, t>>] \in Added /\ qdev[j].handle
      BY <1>10, <1>11, <2>2, Zenon
    <3>2. Known(j, r, t)
      BY <3>1, SMTT(30) DEF DriverInv, QueuesTracked, Known
    <3>3. qdev'[j].qpairs[r] = qdev[j].qpairs[r] /\ qdev[j].qpairs[r] \in DOMAIN entries
      BY <1>1, <1>2, <1>12, <3>2, SMTT(30) DEF Known, PairsInv
    <3> QED
      BY <1>6, <3>2, <3>3, Zenon DEF Known
  <2> QED
    BY <2>1, <2>2, Zenon
<1>16. UNCHANGED <<qfds, bufs, xfers>>
  BY Zenon DEF QpairAdd
<1>17. FdsInv' /\ BufsInv' /\ XfersInv'
  BY <1>6, <1>12, <1>16, FdsSame, BufsSame, XfersSame, SameThings, Zenon DEF DriverInv
<1> QED
  BY <1>1, <1>6, <1>11, <1>13, <1>14, <1>15, <1>16, <1>17, Zenon DEF QdmaKept, TypeInv

\* A reference of an instance more or less, with the bindings as they are.
LEMMA OneRef ==
    ASSUME TypeInv, NEW i \in DOMAIN qdev,
           qdev' = [qdev EXCEPT ![i].ref = @ + 1] \/ qdev' = PutDev(qdev, i)
    PROVE  qdev' \in Seq(Qdevs) /\ SameQueues /\ SameNodes(qdev, qdev')
<1>1. PICK d \in Qdevs : d = qdev[i]
  BY DEF TypeInv
<1>2. d.ref \in Int /\ d.opens \in Nat /\ d.bound \in BOOLEAN
  BY <1>1, Zenon DEF Qdevs
<1>3. PICK ref \in Int : RefsTo(i, ref, d.opens, d.bound)
  <2>1. d.ref + 1 \in Int /\ d.ref - 1 \in Int
    BY <1>2
  <2>2. RefsTo(i, d.ref + 1, d.opens, d.bound) \/ RefsTo(i, d.ref - 1, d.opens, d.bound)
    BY <1>1, RefsEffect, Zenon
  <2> QED
    BY <2>1, <2>2, Zenon
<1>4. /\ qdev' \in Seq(Qdevs) /\ SameQueues
      /\ \A j \in DOMAIN qdev :
            /\ qdev'[j].board = qdev[j].board /\ qdev'[j].slot = qdev[j].slot
            /\ qdev'[j].cdev = qdev[j].cdev
            /\ j # i => qdev'[j] = qdev[j]
      /\ qdev'[i].bound = d.bound
  BY <1>2, <1>3, RefsToFacts, SMTT(30)
<1> QED
  BY <1>1, <1>4, Zenon DEF SameNodes, SameQueues

\* GET_FD.
LEMMA GetFdKeeps ==
    ASSUME DriverInv, NEW i \in DOMAIN qdev, NEW f \in Fds,
           NEW qs \in UNION {[1..n -> Qids] : n \in 1..FdMaxQpairs}, GetFd(i, f, qs)
    PROVE  QdmaKept /\ SameNodes(qdev, qdev')
<1>1. TypeInv /\ PairsInv /\ HandleInv /\ QueuesTracked /\ FdsInv /\ BufsInv /\ XfersInv
  BY Zenon DEF DriverInv
<1>2. PICK m \in 1..FdMaxQpairs : qs \in [1..m -> Qids]
  BY Zenon
<1>3. PICK es : es = [k \in DOMAIN qs |-> qdev[i].qpairs[qs[k]]]
  BY Zenon
<1>4. \A q \in Qids : qdev[i].qpairs[q] \in Nat
  BY <1>1, DevFacts, Zenon DEF QpairMaps
<1>5. m \in Nat /\ es \in [1..m -> Nat]
  BY <1>2, <1>3, <1>4, SMTT(30) DEF FdMaxQpairs
<1>6. es \in Seq(Nat) /\ Len(es) = m /\ DOMAIN es = 1..m
  BY <1>5
<1>7. /\ entries' = [e \in DOMAIN entries |->
               [entries[e] EXCEPT !.ref = @ + Cardinality({k \in DOMAIN es : es[k] = e})]]
      /\ qfds' = [qfds EXCEPT ![f] = [open |-> TRUE, dev |-> i, ents |-> es]]
      /\ qdev' = [qdev EXCEPT ![i].ref = @ + 1]
      /\ UNCHANGED <<slots, bufs, xfers>>
      /\ \A k \in DOMAIN qs : qdev[i].qpairs[qs[k]] # 0
  BY <1>3, Zenon DEF GetFd
<1>8. entries' \in Seq(Entries) /\ SameEntries
  BY <1>1, <1>6, <1>7, PutGetEntries, Zenon
<1>9. qdev' \in Seq(Qdevs) /\ SameQueues /\ SameNodes(qdev, qdev')
  BY <1>1, <1>7, OneRef, Zenon
<1>10. \A k \in DOMAIN es : es[k] \in DOMAIN entries
  <2>1. \A k \in 1..m : qs[k] \in Qids /\ es[k] = qdev[i].qpairs[qs[k]] /\ es[k] # 0
    BY <1>2, <1>3, <1>7, Zenon
  <2> QED
    BY <1>1, <1>6, <2>1, SMTT(30) DEF PairsInv
<1>11. PICK file : file = [open |-> TRUE, dev |-> i, ents |-> es]
  BY Zenon
<1>12. file \in Files /\ file.open = TRUE /\ file.dev = i /\ file.ents = es
  BY <1>1, <1>6, <1>11, SMTT(30) DEF Files, TypeInv
<1>13. /\ qfds' \in [Fds -> Files]
       /\ \A g \in Fds : qfds'[g] = IF g = f THEN file ELSE qfds[g]
  BY <1>1, <1>7, <1>11, <1>12, Zenon DEF TypeInv
<1>14. m <= FdMaxQpairs
  BY <1>2 DEF FdMaxQpairs
<1>15. DOMAIN entries' = DOMAIN entries /\ DOMAIN qdev' = DOMAIN qdev
  BY <1>8, <1>9, Zenon DEF SameEntries, SameQueues
<1>16. FdsInv'
  BY <1>1, <1>6, <1>10, <1>12, <1>13, <1>14, <1>15, Zenon DEF FdsInv
<1>17. XfersInv'
  BY <1>1, <1>7, <1>12, <1>13, Zenon DEF XfersInv
<1>18. PairsInv' /\ HandleInv' /\ QueuesTracked'
  BY <1>1, <1>8, <1>9, PairsSame, Zenon
<1>19. BufsInv'
  BY <1>1, <1>7, <1>15, Zenon DEF BufsInv
<1> QED
  BY <1>1, <1>7, <1>8, <1>9, <1>13, <1>16, <1>17, <1>18, <1>19, Zenon DEF QdmaKept, TypeInv

\* The release of a queue pair fd.
LEMMA ReleaseFdKeeps ==
    ASSUME DriverInv, NEW f \in Fds, ReleaseFd(f)
    PROVE  QdmaKept /\ SameNodes(qdev, qdev')
<1>1. TypeInv /\ PairsInv /\ HandleInv /\ QueuesTracked /\ FdsInv /\ BufsInv /\ XfersInv
  BY Zenon DEF DriverInv
<1>2. /\ qfds[f].open /\ \A x \in Xfers : xfers[x].fd # f
      /\ entries' = PutEntries(entries, qfds[f].ents)
      /\ qdev' = PutDev(qdev, qfds[f].dev)
      /\ qfds' = [qfds EXCEPT ![f] = ClosedFd]
      /\ UNCHANGED <<slots, bufs, xfers>>
  BY Zenon DEF ReleaseFd
<1>3. qfds[f] \in Files
  BY <1>1, Zenon DEF TypeInv
<1>4. qfds[f].ents \in Seq(Nat)
  BY <1>3, Zenon DEF Files
<1>5. entries' \in Seq(Entries) /\ SameEntries
  BY <1>1, <1>2, <1>4, PutGetEntries, Zenon
<1>6. qfds[f].dev \in DOMAIN qdev
  BY <1>1, <1>2, Zenon DEF FdsInv
<1>7. qdev' \in Seq(Qdevs) /\ SameQueues /\ SameNodes(qdev, qdev')
  BY <1>1, <1>2, <1>6, OneRef, Zenon
<1>8. ClosedFd \in Files /\ ClosedFd.open = FALSE /\ ClosedFd.ents = << >> /\ DOMAIN ClosedFd.ents = {}
      /\ Len(ClosedFd.ents) = 0
  BY DEF ClosedFd, Files
<1>9. /\ qfds' \in [Fds -> Files]
      /\ \A g \in Fds : qfds'[g] = IF g = f THEN ClosedFd ELSE qfds[g]
  BY <1>1, <1>2, <1>8, Zenon DEF TypeInv
<1>10. DOMAIN entries' = DOMAIN entries /\ DOMAIN qdev' = DOMAIN qdev
  BY <1>5, <1>7, Zenon DEF SameEntries, SameQueues
<1>11. FdsInv'
  BY <1>1, <1>8, <1>9, <1>10, SMTT(30) DEF FdsInv, FdMaxQpairs
<1>12. XfersInv'
  BY <1>1, <1>2, <1>9, Zenon DEF XfersInv
<1>13. PairsInv' /\ HandleInv' /\ QueuesTracked'
  BY <1>1, <1>5, <1>7, PairsSame, Zenon
<1>14. BufsInv'
  BY <1>1, <1>2, <1>10, Zenon DEF BufsInv
<1> QED
  BY <1>1, <1>2, <1>5, <1>7, <1>9, <1>11, <1>12, <1>13, <1>14, Zenon DEF QdmaKept, TypeInv

\* BUF_CREATE.
LEMMA BufCreateKeeps ==
    ASSUME DriverInv, NEW i \in DOMAIN qdev, BufCreate(i)
    PROVE  QdmaKept /\ SameNodes(qdev, qdev')
<1>1. TypeInv /\ PairsInv /\ HandleInv /\ QueuesTracked /\ FdsInv /\ BufsInv /\ XfersInv
  BY Zenon DEF DriverInv
<1>2. PICK buf : buf = [dev |-> i, ref |-> 1, fd |-> TRUE, vmas |-> 0]
  BY Zenon
<1>3. buf \in Buffers /\ buf.dev = i
  BY <1>1, <1>2, SMTT(30) DEF Buffers, TypeInv
<1>4. /\ bufs' = Append(bufs, buf) /\ qdev' = [qdev EXCEPT ![i].ref = @ + 1]
      /\ UNCHANGED <<slots, entries, qfds, xfers>>
  BY <1>2, Zenon DEF BufCreate
<1>5. qdev' \in Seq(Qdevs) /\ SameQueues /\ SameNodes(qdev, qdev')
  BY <1>1, <1>4, OneRef, Zenon
<1>6. bufs' \in Seq(Buffers) /\ Longer(bufs, buf, bufs')
  BY <1>1, <1>3, <1>4, SeqAppended, Zenon DEF TypeInv
<1>7. DOMAIN qdev' = DOMAIN qdev /\ DOMAIN bufs \subseteq DOMAIN bufs'
  BY <1>5, <1>6, Zenon DEF SameQueues, Longer
<1>8. BufsInv'
  BY <1>1, <1>3, <1>6, <1>7, Zenon DEF BufsInv, Longer
<1>9. PairsInv' /\ HandleInv' /\ QueuesTracked'
  BY <1>1, <1>4, <1>5, PairsSame, SameThings, Zenon
<1>10. FdsInv' /\ XfersInv'
  BY <1>1, <1>4, <1>7, FdsSame, XfersSame, SameThings, Zenon
<1> QED
  BY <1>1, <1>4, <1>5, <1>6, <1>8, <1>9, <1>10, Zenon DEF QdmaKept, TypeInv

\* The fd and the mappings of a buffer.
LEMMA BufferKeeps ==
    ASSUME DriverInv, NEW b \in DOMAIN bufs,
           BufMmap(b) \/ BufVmOpen(b) \/ BufClose(b) \/ BufVmClose(b)
    PROVE  QdmaKept /\ SameNodes(qdev, qdev')
<1>1. TypeInv /\ PairsInv /\ HandleInv /\ QueuesTracked /\ FdsInv /\ BufsInv /\ XfersInv
  BY Zenon DEF DriverInv
<1>2. PICK c \in Buffers : c = bufs[b]
  BY <1>1 DEF TypeInv
<1>3. c.ref \in Int /\ c.fd \in BOOLEAN /\ c.vmas \in Nat
  BY <1>2, Zenon DEF Buffers
<1>4. PICK ref \in Int, fd \in BOOLEAN, vmas \in Nat :
         bufs' = Changed(bufs, b, WithHolders(bufs[b], ref, fd, vmas))
  <2>1. c.ref + 1 \in Int /\ c.ref - 1 \in Int /\ c.vmas + 1 \in Nat /\ (c.vmas > 0 => c.vmas - 1 \in Nat)
    BY <1>3
  <2>2. \/ bufs' = Changed(bufs, b, WithHolders(bufs[b], c.ref + 1, c.fd, c.vmas + 1))
        \/ bufs' = Changed(bufs, b, WithHolders(bufs[b], c.ref - 1, FALSE, c.vmas))
        \/ /\ c.vmas > 0
           /\ bufs' = Changed(bufs, b, WithHolders(bufs[b], c.ref - 1, c.fd, c.vmas - 1))
    BY <1>1, <1>2, BufEffect, Zenon
  <2> QED
    BY <1>3, <2>1, <2>2, Zenon
<1>5. bufs' \in Seq(Buffers) /\ SameBuffers
  BY <1>1, <1>4, BufChanged, Zenon
<1>6. qdev' \in Seq(Qdevs) /\ SameQueues /\ SameNodes(qdev, qdev')
  <2>1. qdev' = qdev \/ qdev' = PutDev(qdev, bufs[b].dev)
    BY Zenon DEF BufMmap, BufVmOpen, BufClose, BufVmClose, BufDrop
  <2>2. bufs[b].dev \in DOMAIN qdev
    BY <1>1, Zenon DEF BufsInv
  <2>3. qdev' = qdev => qdev' \in Seq(Qdevs) /\ SameQueues /\ SameNodes(qdev, qdev')
    BY <1>1, SameThings, Zenon DEF TypeInv
  <2> QED
    BY <1>1, <2>1, <2>2, <2>3, OneRef, Zenon
<1>7. UNCHANGED <<entries, qfds, xfers>>
  BY Zenon DEF BufMmap, BufVmOpen, BufClose, BufVmClose, BufDrop
<1>8. DOMAIN qdev' = DOMAIN qdev /\ DOMAIN bufs' = DOMAIN bufs
  BY <1>5, <1>6, Zenon DEF SameQueues, SameBuffers
<1>9. PairsInv' /\ HandleInv' /\ QueuesTracked'
  BY <1>1, <1>6, <1>7, PairsSame, SameThings, Zenon
<1>10. FdsInv' /\ XfersInv' /\ BufsInv'
  BY <1>1, <1>5, <1>7, <1>8, FdsSame, BufsSame, XfersSame, SameThings, Zenon
<1> QED
  BY <1>1, <1>5, <1>6, <1>7, <1>9, <1>10, Zenon DEF QdmaKept, TypeInv

\* A transfer starts.
LEMMA StartXferKeeps ==
    ASSUME DriverInv, NEW x \in Xfers, NEW f \in Fds, NEW kind \in {"ioctl", "uring"},
           NEW count \in 1..FdMaxQpairs, StartXfer(x, f, kind, count)
    PROVE  QdmaKept /\ SameNodes(qdev, qdev')
<1>1. TypeInv /\ PairsInv /\ HandleInv /\ QueuesTracked /\ FdsInv /\ BufsInv /\ XfersInv
  BY Zenon DEF DriverInv
<1>2. PICK n \in Int : n = IF kind = "uring" THEN count ELSE 0
  BY DEF FdMaxQpairs
<1>3. PICK y : y = [pc |-> "prep", kind |-> kind, fd |-> f, count |-> count, prep |-> << >>,
                    outstanding |-> n]
  BY Zenon
<1>4. y \in Transfers /\ y.pc = "prep" /\ y.prep = << >> /\ y.count = count /\ y.fd = f
  BY <1>3 DEF Transfers, Pcs, Preps, FdMaxQpairs
<1>5. /\ qfds[f].open /\ xfers' = [xfers EXCEPT ![x] = y]
      /\ UNCHANGED <<slots, qdev, entries, qfds, bufs>>
  BY <1>2, <1>3, Zenon DEF StartXfer
<1>6. /\ xfers' \in [Xfers -> Transfers]
      /\ \A z \in Xfers : xfers'[z] = IF z = x THEN y ELSE xfers[z]
  BY <1>1, <1>4, <1>5, Zenon DEF TypeInv
<1>7. XfersInv'
  <2> SUFFICES ASSUME NEW z \in Xfers
               PROVE  /\ \A k \in DOMAIN xfers'[z].prep : xfers'[z].prep[k].buf \in DOMAIN bufs'
                      /\ Len(xfers'[z].prep) <= xfers'[z].count
                      /\ xfers'[z].pc = "prep" => Len(xfers'[z].prep) < xfers'[z].count
                      /\ xfers'[z].pc # "idle" => xfers'[z].fd \in Fds /\ qfds'[xfers'[z].fd].open
    BY Zenon DEF XfersInv
  <2>1. CASE z = x
    BY <1>4, <1>5, <1>6, <2>1, SMTT(30) DEF FdMaxQpairs
  <2>2. CASE z # x
    BY <1>1, <1>5, <1>6, <2>2, Zenon DEF XfersInv
  <2> QED
    BY <2>1, <2>2, Zenon
<1>8. PairsInv' /\ HandleInv' /\ QueuesTracked' /\ FdsInv' /\ BufsInv' /\ SameNodes(qdev, qdev')
  BY <1>1, <1>5, PairsSame, FdsSame, BufsSame, SameThings, Zenon
<1> QED
  BY <1>1, <1>5, <1>6, <1>7, <1>8, Zenon DEF QdmaKept, TypeInv

\* A transfer moves on.
LEMMA MovesOnKeeps ==
    ASSUME DriverInv, NEW x \in Xfers, SubmitXfer(x) \/ \E k : CompleteXfer(x, k)
    PROVE  QdmaKept /\ SameNodes(qdev, qdev')
<1>1. TypeInv /\ PairsInv /\ HandleInv /\ QueuesTracked /\ FdsInv /\ BufsInv /\ XfersInv
  BY Zenon DEF DriverInv
<1>2. xfers' \in [Xfers -> Transfers] /\ \A y \in Xfers : SameSubs(xfers[y], xfers'[y])
  BY <1>1, MoveEffect, Zenon
<1>3. UNCHANGED <<qdev, entries, qfds, bufs>>
  BY Zenon DEF SubmitXfer, CompleteXfer
<1>4. PairsInv' /\ HandleInv' /\ QueuesTracked' /\ FdsInv' /\ BufsInv' /\ SameNodes(qdev, qdev')
  BY <1>1, <1>3, PairsSame, FdsSame, BufsSame, SameThings, Zenon
<1>5. XfersInv'
  BY <1>1, <1>2, <1>3, XfersSame, Zenon
<1> QED
  BY <1>1, <1>2, <1>3, <1>4, <1>5, Zenon DEF QdmaKept, TypeInv

\* The sub-transfers on each buffer.
LEMMA PreparedFacts ==
    ASSUME TypeInv, NEW x \in Xfers
    PROVE  PreparedOn(xfers[x].prep) \in [DOMAIN bufs -> Nat]
<1>1. PICK prep \in Preps : prep = xfers[x].prep
  BY XferFacts, Zenon
<1>2. ASSUME NEW b \in DOMAIN bufs
      PROVE  Cardinality({k \in DOMAIN prep : prep[k].buf = b}) \in Nat
  <2>1. IsFiniteSet(DOMAIN prep)
    <3>1. Len(prep) \in Nat /\ DOMAIN prep = 1..Len(prep)
      BY <1>1 DEF Preps
    <3> QED
      BY <3>1, FS_Interval, SMTT(30)
  <2> QED
    BY <2>1, PartOf, Zenon
<1> QED
  BY <1>1, <1>2, Zenon DEF PreparedOn

\* A transfer ends.
LEMMA XferEndKeeps ==
    ASSUME DriverInv, NEW x \in Xfers, PrepFails(x) \/ FinishXfer(x)
    PROVE  QdmaKept /\ SameNodes(qdev, qdev')
<1>1. TypeInv /\ PairsInv /\ HandleInv /\ QueuesTracked /\ FdsInv /\ BufsInv /\ XfersInv
  BY Zenon DEF DriverInv
<1>2. PICK n \in [DOMAIN bufs -> Nat] : n = PreparedOn(xfers[x].prep)
  BY <1>1, PreparedFacts, Zenon
<1>3. /\ PutBufs(n) /\ xfers' = [xfers EXCEPT ![x] = IdleXfer]
      /\ UNCHANGED <<slots, entries, qfds>>
  BY <1>2, Zenon DEF PrepFails, FinishXfer
<1>4. /\ bufs' \in Seq(Buffers) /\ SameBuffers
      /\ qdev' \in Seq(Qdevs) /\ SameNodes(qdev, qdev') /\ SameQueues
  BY <1>1, <1>3, PutBufsEffect, Zenon
<1>5. PICK y : y = IdleXfer
  BY Zenon
<1>6. y \in Transfers /\ y.pc = "idle" /\ y.prep = << >> /\ y.count = 0
  BY <1>5 DEF IdleXfer, Transfers, Pcs, Preps, FdMaxQpairs
<1>7. /\ xfers' \in [Xfers -> Transfers]
      /\ \A z \in Xfers : xfers'[z] = IF z = x THEN y ELSE xfers[z]
  BY <1>1, <1>3, <1>5, <1>6, Zenon DEF TypeInv
<1>8. DOMAIN qdev' = DOMAIN qdev /\ DOMAIN bufs' = DOMAIN bufs
  BY <1>4, Zenon DEF SameQueues, SameBuffers
<1>9. XfersInv'
  <2> SUFFICES ASSUME NEW z \in Xfers
               PROVE  /\ \A k \in DOMAIN xfers'[z].prep : xfers'[z].prep[k].buf \in DOMAIN bufs'
                      /\ Len(xfers'[z].prep) <= xfers'[z].count
                      /\ xfers'[z].pc = "prep" => Len(xfers'[z].prep) < xfers'[z].count
                      /\ xfers'[z].pc # "idle" => xfers'[z].fd \in Fds /\ qfds'[xfers'[z].fd].open
    BY Zenon DEF XfersInv
  <2>1. CASE z = x
    BY <1>6, <1>7, <2>1, SMTT(30)
  <2>2. CASE z # x
    BY <1>1, <1>3, <1>7, <1>8, <2>2, Zenon DEF XfersInv
  <2> QED
    BY <2>1, <2>2, Zenon
<1>10. PairsInv' /\ HandleInv' /\ QueuesTracked' /\ FdsInv' /\ BufsInv'
  BY <1>1, <1>3, <1>4, <1>8, PairsSame, FdsSame, BufsSame, SameThings, Zenon
<1> QED
  BY <1>1, <1>3, <1>4, <1>7, <1>9, <1>10, Zenon DEF QdmaKept, TypeInv

\* A sub-transfer is prepared.
LEMMA PrepXferKeeps ==
    ASSUME DriverInv, NEW x \in Xfers, NEW k \in Nat, NEW t \in QueueTypes, NEW b \in DOMAIN bufs,
           1 <= k /\ k <= Len(qfds[xfers[x].fd].ents), PrepXfer(x, k, t, b)
    PROVE  QdmaKept /\ SameNodes(qdev, qdev')
<1>1. TypeInv /\ PairsInv /\ HandleInv /\ QueuesTracked /\ FdsInv /\ BufsInv /\ XfersInv
  BY Zenon DEF DriverInv
<1>2. /\ xfers[x].pc = "prep" /\ bufs' = [bufs EXCEPT ![b].ref = @ + 1]
      /\ UNCHANGED <<slots, qdev, entries, qfds>>
  BY Zenon DEF PrepXfer
<1>3. PICK c \in Buffers : c = bufs[b]
  BY <1>1, SMTT(30) DEF TypeInv
<1>4. c.ref + 1 \in Int /\ c.fd \in BOOLEAN /\ c.vmas \in Nat
  BY <1>3 DEF Buffers
<1>5. bufs' \in Seq(Buffers) /\ SameBuffers
  <2>1. bufs' = Changed(bufs, b, WithHolders(bufs[b], c.ref + 1, c.fd, c.vmas))
    BY <1>1, <1>2, <1>3, BufEffect, Zenon
  <2> QED
    BY <1>1, <1>4, <2>1, BufChanged, Zenon
<1>6. PICK f \in Fds : f = xfers[x].fd
  BY <1>1, <1>2, Zenon DEF XfersInv
<1>7. PICK e \in DOMAIN entries : e = qfds[f].ents[k]
  <2>1. qfds[f].ents \in Seq(Nat)
    BY <1>1, Zenon DEF TypeInv, Files
  <2>2. k \in DOMAIN qfds[f].ents
    BY <1>6, <2>1, SMTT(30)
  <2> QED
    BY <1>1, <2>2, Zenon DEF FdsInv
<1>8. PICK sub : sub = [entry |-> e, type |-> t, buf |-> b, qhndl |-> entries[e].qhndl[t], st |-> "ready"]
  BY Zenon
<1>9. sub \in Subs /\ sub.buf = b
  <2>1. e \in Nat /\ b \in Nat /\ entries[e] \in Entries
    BY <1>1, SMTT(30) DEF TypeInv
  <2>2. entries[e].qhndl[t] \in 0..MaxQpairs
    BY <2>1, Zenon DEF Entries
  <2> QED
    BY <1>8, <2>1, <2>2, Zenon DEF Subs
<1>10. PICK old \in Preps : old = xfers[x].prep
  BY <1>1, XferFacts, Zenon
<1>11. PICK prep : prep = Append(old, sub)
  BY Zenon
<1>12. prep \in Preps /\ Longer(old, sub, prep)
  BY <1>9, <1>11, SeqAppended, Zenon DEF Preps
<1>13. PICK pc \in Pcs : pc = IF Len(prep) = xfers[x].count THEN "submit" ELSE "prep"
  BY Zenon DEF Pcs
<1>14. xfers' = Changed(xfers, x, WithSubs(xfers[x], pc, prep, xfers[x].outstanding))
  <2>1. xfers' = [xfers EXCEPT ![x].prep = prep,
                      ![x].pc = IF Len(prep) = xfers[x].count THEN "submit" ELSE xfers[x].pc]
    BY <1>6, <1>7, <1>8, <1>10, <1>11, Zenon DEF PrepXfer
  <2>2. xfers' = [xfers EXCEPT ![x].prep = prep, ![x].pc = pc]
    BY <1>2, <1>13, <2>1, Zenon
  <2>3. xfers[x] \in Transfers
    BY <1>1, Zenon DEF TypeInv
  <2> QED
    BY <2>2, <2>3, Zenon DEF Changed, WithSubs, Transfers
<1>15. /\ xfers' \in [Xfers -> Transfers] /\ \A y \in Xfers \ {x} : xfers'[y] = xfers[y]
       /\ xfers'[x].fd = xfers[x].fd /\ xfers'[x].count = xfers[x].count
       /\ xfers'[x].pc = pc /\ xfers'[x].prep = prep
  <2>1. xfers[x].outstanding \in Int
    BY <1>1, XferFacts, Zenon
  <2> QED
    BY <1>1, <1>12, <1>14, <2>1, XferChanged, ZenonT(40)
<1>16. XfersInv'
  <2> SUFFICES ASSUME NEW z \in Xfers
               PROVE  /\ \A j \in DOMAIN xfers'[z].prep : xfers'[z].prep[j].buf \in DOMAIN bufs
                      /\ Len(xfers'[z].prep) <= xfers'[z].count
                      /\ xfers'[z].pc = "prep" => Len(xfers'[z].prep) < xfers'[z].count
                      /\ xfers'[z].pc # "idle" => xfers'[z].fd \in Fds /\ qfds[xfers'[z].fd].open
    BY <1>2, <1>5, Zenon DEF XfersInv, SameBuffers
  <2>1. CASE z = x
    <3>1. \A j \in DOMAIN prep : prep[j].buf \in DOMAIN bufs
      BY <1>1, <1>9, <1>10, <1>12, Zenon DEF XfersInv, Longer
    <3>2. Len(old) \in Nat /\ Len(prep) = Len(old) + 1 /\ Len(old) < xfers[x].count /\ xfers[x].count \in Nat
      BY <1>1, <1>2, <1>10, <1>12, XferFacts, SMTT(30) DEF XfersInv, Longer, Preps, FdMaxQpairs
    <3>3. xfers[x].fd \in Fds /\ qfds[xfers[x].fd].open
      BY <1>1, <1>2, ZenonT(40) DEF XfersInv
    <3>4. Len(prep) <= xfers[x].count /\ (pc = "prep" => Len(prep) < xfers[x].count)
      BY <1>13, <3>2, SMTT(30)
    <3> QED
      BY <1>15, <2>1, <3>1, <3>3, <3>4, Zenon
  <2>2. CASE z # x
    BY <1>1, <1>15, <2>2, Zenon DEF XfersInv
  <2> QED
    BY <2>1, <2>2, Zenon
<1>17. PairsInv' /\ HandleInv' /\ QueuesTracked' /\ FdsInv' /\ BufsInv' /\ SameNodes(qdev, qdev')
  BY <1>1, <1>2, <1>5, PairsSame, FdsSame, BufsSame, SameThings, Zenon
<1> QED
  BY <1>1, <1>2, <1>5, <1>15, <1>16, <1>17, Zenon DEF QdmaKept, TypeInv

------------------------------------------------------------------------------
(* The actions of the specification *)

\* The control node of the QDMA function.
LEMMA QdmaFilesKeep ==
    ASSUME DriverInv, QdmaFiles
    PROVE  DriverInv'
<1>1. UNCHANGED <<ctls, bus, pci, work>> /\ TypeInv
  BY Zenon DEF QdmaFiles, KeepBus, DriverInv
<1>2. PICK i \in DOMAIN qdev :
         \/ OpenControl(i)
         \/ CloseControl(i)
         \/ \E mask \in work.masks : QpairAdd(i, mask) \/ QpairAddFails(i, mask)
         \/ \E q \in Qids : QpairStart(i, q) \/ QpairStop(i, q) \/ QpairDel(i, q)
         \/ \E f \in Fds, qs \in UNION {[1..n -> Qids] : n \in 1..FdMaxQpairs} : GetFd(i, f, qs)
         \/ BufCreate(i)
  BY Zenon DEF QdmaFiles
<1>3. slots' = slots
  BY <1>2, Zenon DEF OpenControl, CloseControl, QpairAdd, QpairAddFails, QpairStart, QpairStop, QpairDel,
              GetFd, BufCreate
<1>4. QdmaKept /\ SameNodes(qdev, qdev')
  <2>1. CASE OpenControl(i) \/ CloseControl(i)
    <3>1. qdev[i].ref \in Int /\ qdev[i].opens \in Nat /\ qdev[i].bound \in BOOLEAN
      BY <1>1, DevFacts, Zenon
    <3>2. PICK ref \in Int, opens \in Nat : RefsTo(i, ref, opens, qdev[i].bound)
      <4>1. CASE OpenControl(i)
        <5>1. qdev[i].ref + 1 \in Int /\ qdev[i].opens + 1 \in Nat
          BY <3>1
        <5>2. RefsTo(i, qdev[i].ref + 1, qdev[i].opens + 1, qdev[i].bound)
          BY <1>1, <4>1, RefsEffect, Zenon
        <5> QED
          BY <5>1, <5>2, Zenon
      <4>2. CASE CloseControl(i)
        <5>1. /\ qdev[i].opens > 0
              /\ RefsTo(i, qdev[i].ref - 1, qdev[i].opens - 1, qdev[i].bound)
          BY <1>1, <4>2, RefsEffect, Zenon
        <5>2. qdev[i].ref - 1 \in Int /\ qdev[i].opens - 1 \in Nat
          BY <3>1, <5>1
        <5> QED
          BY <5>1, <5>2, Zenon
      <4> QED
        BY <2>1, <4>1, <4>2, Zenon
    <3>3. UNCHANGED <<entries, qfds, bufs, xfers>>
      BY <2>1, Zenon DEF OpenControl, CloseControl
    <3> QED
      BY <3>2, <3>3, RefsKeep, Zenon
  <2>2. CASE \E mask \in work.masks : QpairAdd(i, mask) \/ QpairAddFails(i, mask)
    BY <2>2, AddKeeps, QueuesAlike, Zenon
  <2>3. CASE \E q \in Qids : QpairStart(i, q) \/ QpairStop(i, q) \/ QpairDel(i, q)
    BY <2>3, DelKeeps, QueuesAlike, Zenon
  <2>4. CASE \E f \in Fds, qs \in UNION {[1..n -> Qids] : n \in 1..FdMaxQpairs} : GetFd(i, f, qs)
    <3>1. PICK f \in Fds, qs \in UNION {[1..n -> Qids] : n \in 1..FdMaxQpairs} : GetFd(i, f, qs)
      BY <2>4, Zenon
    <3> QED
      BY <3>1, GetFdKeeps, Zenon
  <2>5. CASE BufCreate(i)
    BY <2>5, BufCreateKeeps, Zenon
  <2> QED
    BY <1>2, <2>1, <2>2, <2>3, <2>4, <2>5, Zenon
<1> QED
  BY <1>1, <1>3, <1>4, FilesKeep, Zenon

\* The other files of the QDMA function, and its transfers.
LEMMA TransfersKeep ==
    ASSUME DriverInv, BufferFiles \/ Start \/ \E x \in Xfers : xfers[x].pc # "idle" /\ Moves(x)
    PROVE  DriverInv'
<1>1. CASE BufferFiles
  <2>1. UNCHANGED <<ctls, bus, pci, work>>
    BY <1>1, Zenon DEF BufferFiles, KeepBus
  <2>2. \/ \E f \in Fds : ReleaseFd(f)
        \/ \E b \in DOMAIN bufs : BufMmap(b) \/ BufVmOpen(b) \/ BufClose(b) \/ BufVmClose(b)
    BY <1>1, Zenon DEF BufferFiles
  <2>3. slots' = slots
    BY <2>2, Zenon DEF ReleaseFd, BufMmap, BufVmOpen, BufClose, BufVmClose, BufDrop
  <2>4. QdmaKept /\ SameNodes(qdev, qdev')
    BY <2>2, ReleaseFdKeeps, BufferKeeps, Zenon
  <2> QED
    BY <2>1, <2>3, <2>4, FilesKeep, Zenon
<1>2. CASE Start
  <2>1. UNCHANGED <<ctls, bus, pci, work>>
    BY <1>2, Zenon DEF Start, KeepBus
  <2>2. PICK x \in Xfers, f \in Fds, kind \in {"ioctl", "uring"}, count \in 1..FdMaxQpairs :
           StartXfer(x, f, kind, count)
    BY <1>2, Zenon DEF Start
  <2>3. slots' = slots
    BY <2>2, Zenon DEF StartXfer
  <2>4. QdmaKept /\ SameNodes(qdev, qdev')
    BY <2>2, StartXferKeeps, Zenon
  <2> QED
    BY <2>1, <2>3, <2>4, FilesKeep, Zenon
<1>3. ASSUME NEW x \in Xfers, Moves(x)
      PROVE  DriverInv'
  <2>1. UNCHANGED <<ctls, bus, pci, work>>
    BY <1>3, Zenon DEF Moves, KeepBus
  <2>2. \/ \E k \in 1..FdMaxQpairs, t \in work.directions, b \in DOMAIN bufs :
              k <= Len(qfds[xfers[x].fd].ents) /\ PrepXfer(x, k, t, b)
        \/ PrepFails(x) \/ FinishXfer(x)
        \/ SubmitXfer(x) \/ \E k : CompleteXfer(x, k)
    BY <1>3, Zenon DEF Moves
  <2>3. slots' = slots
    BY <2>2, ZenonT(40) DEF PrepXfer, PrepFails, FinishXfer, SubmitXfer, CompleteXfer
  <2>4. QdmaKept /\ SameNodes(qdev, qdev')
    <3>1. CASE \E k \in 1..FdMaxQpairs, t \in work.directions, b \in DOMAIN bufs :
                  k <= Len(qfds[xfers[x].fd].ents) /\ PrepXfer(x, k, t, b)
      <4>1. PICK k \in 1..FdMaxQpairs, t \in work.directions, b \in DOMAIN bufs :
               k <= Len(qfds[xfers[x].fd].ents) /\ PrepXfer(x, k, t, b)
        BY <3>1, Zenon
      <4>2. t \in QueueTypes
        <5>1. work.directions \subseteq {"h2c", "c2h"}
          BY DriverAssumption, Zenon DEF DriverInv, TypeInv, IsWorkload
        <5> QED
          BY <5>1, SMTT(30) DEF QueueTypes, TypeOrder
      <4>3. k \in Nat /\ 1 <= k
        BY DEF FdMaxQpairs
      <4> QED
        BY <4>1, <4>2, <4>3, PrepXferKeeps, Zenon
    <3>2. CASE PrepFails(x) \/ FinishXfer(x)
      BY <3>2, XferEndKeeps, Zenon
    <3>3. CASE SubmitXfer(x) \/ \E k : CompleteXfer(x, k)
      BY <3>3, MovesOnKeeps, Zenon
    <3> QED
      BY <2>2, <3>1, <3>2, <3>3, Zenon
  <2> QED
    BY <2>1, <2>3, <2>4, FilesKeep, Zenon
<1> QED
  BY <1>1, <1>2, <1>3, Zenon

\* Nothing is loaded, open or under way at first.
LEMMA InitHolds ==
    ASSUME Init
    PROVE  DriverInv
<1>1. /\ work \in Workloads /\ slots = << >> /\ qdev = << >> /\ entries = << >> /\ bufs = << >>
      /\ ctls = << >> /\ qfds = [f \in Fds |-> ClosedFd] /\ xfers = [x \in Xfers |-> IdleXfer]
      /\ bus = [f \in Functions |-> "present"]
      /\ pci = [op |-> "idle", todo |-> {}, f |-> NoFunction, step |-> 0, left |-> work.ops]
  BY Zenon DEF Init, QdmaInit, CtlInit, IdlePci
<1>2. work.ops \in Nat
  BY <1>1, DriverAssumption, ZenonT(40) DEF IsWorkload
<1>3. /\ pci \in PciTypes /\ pci.f = NoFunction /\ pci.op = "idle" /\ pci.step = 0
  BY <1>1, <1>2, SMTT(30) DEF PciTypes, PciOps
<1>4. bus \in [Functions -> {"absent", "present", "bound"}] /\ \A f \in Functions : bus[f] # "bound"
  BY <1>1, Zenon
<1>5. /\ slots \in Seq(Slots) /\ qdev \in Seq(Qdevs) /\ entries \in Seq(Entries)
      /\ bufs \in Seq(Buffers) /\ ctls \in Seq(Ctls)
      /\ DOMAIN slots = {} /\ DOMAIN qdev = {} /\ DOMAIN entries = {} /\ DOMAIN bufs = {}
      /\ DOMAIN ctls = {} /\ Len(slots) = 0
  BY <1>1, SMTT(30)
<1>6. ClosedFd \in Files /\ ~ClosedFd.open /\ ClosedFd.ents = << >>
  BY DEF ClosedFd, Files
<1>7. /\ IdleXfer \in Transfers /\ IdleXfer.pc = "idle" /\ IdleXfer.prep = << >>
      /\ IdleXfer.count = 0
  <2>1. << >> \in Preps
    BY DEF Preps
  <2>2. 0 \in 0..FdMaxQpairs
    BY DEF FdMaxQpairs
  <2> QED
    BY <2>1, <2>2, SMTT(30) DEF IdleXfer, Transfers, Pcs
<1>8. qfds \in [Fds -> Files] /\ xfers \in [Xfers -> Transfers]
  BY <1>1, <1>6, <1>7, Zenon
<1>9. TypeInv
  BY <1>1, <1>3, <1>4, <1>5, <1>8, Zenon DEF TypeInv, PciTypes
<1>10. PciInv
  BY <1>3, Zenon DEF PciInv
<1>11. LifeOf(qdev, QdmaPf) /\ LifeOf(ctls, ControlPf)
  BY <1>4, <1>5, Zenon DEF LifeOf, LifeIn
<1>12. SlotsInv
  BY <1>5, BoardAssumption, SMTT(30) DEF SlotsInv, Numbered
<1>13. PairsInv /\ BufsInv /\ HandleInv /\ QueuesTracked /\ HeldInv /\ DeadInv
  BY <1>5, Zenon DEF PairsInv, BufsInv, HandleInv, QueuesTracked, HeldInv, DeadInv
<1>14. FdsInv
  BY <1>1, <1>6, SMTT(30) DEF FdsInv, FdMaxQpairs
<1>15. XfersInv
  BY <1>1, <1>7, SMTT(30) DEF XfersInv
<1> QED
  BY <1>9, <1>10, <1>11, <1>12, <1>13, <1>14, <1>15, Zenon DEF DriverInv

\* Every step keeps the inductive invariant.
LEMMA NextHolds ==
    ASSUME DriverInv, [Next]_driverVars
    PROVE  DriverInv'
<1>1. CASE Next
  BY <1>1, BeginKeeps, PciStepKeeps, QdmaFilesKeep, TransfersKeep, CtlFilesKeep, Zenon DEF Next, Step
<1>2. CASE UNCHANGED driverVars
  <2>1. UNCHANGED <<slots, ctls, bus, pci, work>> /\ UNCHANGED qdmaVars
    BY <1>2, Zenon DEF driverVars, qdmaVars
  <2>2. QdmaKept
    BY <2>1, QdmaStill, Zenon
  <2>3. SameNodes(qdev, qdev')
    BY <2>1, Zenon DEF qdmaVars, SameNodes
  <2> QED
    BY <2>1, <2>2, <2>3, FilesKeep, Zenon
<1> QED
  BY <1>1, <1>2, Zenon

\* The nodes are numbered by their boards, and the two of a board have two minors.
LEMMA NodesMatched ==
    ASSUME DriverInv
    PROVE  NodesMatch
<1>1. TypeInv /\ SlotsInv /\ LifeOf(qdev, QdmaPf) /\ LifeOf(ctls, ControlPf)
  BY Zenon DEF DriverInv
<1>2. ASSUME NEW m \in Nodes
      PROVE  /\ m.pf \in {QdmaPf, ControlPf}
             /\ m = [board |-> m.board, pf |-> m.pf, number |-> m.number]
             /\ \E k \in DOMAIN slots : slots[k].board = m.board /\ m.number = k - 1
  <2>1. CASE \E i \in DOMAIN qdev :
                qdev[i].cdev /\ m = [board |-> qdev[i].board, pf |-> QdmaPf, number |-> qdev[i].slot]
    <3>1. PICK i \in DOMAIN qdev :
             qdev[i].cdev /\ m = [board |-> qdev[i].board, pf |-> QdmaPf, number |-> qdev[i].slot]
      BY <2>1, Zenon
    <3>2. PICK k \in DOMAIN slots : slots[k].board = qdev[i].board /\ qdev[i].slot = k - 1
      BY <1>1, <3>1, Zenon DEF SlotsInv, Numbered
    <3> QED
      BY <3>1, <3>2, Zenon
  <2>2. CASE \E i \in DOMAIN ctls :
                ctls[i].cdev /\ m = [board |-> ctls[i].board, pf |-> ControlPf, number |-> ctls[i].slot]
    <3>1. PICK i \in DOMAIN ctls :
             ctls[i].cdev /\ m = [board |-> ctls[i].board, pf |-> ControlPf, number |-> ctls[i].slot]
      BY <2>2, Zenon
    <3>2. PICK k \in DOMAIN slots : slots[k].board = ctls[i].board /\ ctls[i].slot = k - 1
      BY <1>1, <3>1, Zenon DEF SlotsInv, Numbered
    <3> QED
      BY <3>1, <3>2, Zenon
  <2> QED
    BY <2>1, <2>2, Zenon DEF Nodes
<1>3. slots \in Seq(Slots) /\ Len(slots) <= MaxCards /\ DOMAIN slots = 1..Len(slots)
      /\ Len(slots) \in Nat
  BY <1>1 DEF TypeInv, SlotsInv
<1>4. \A k, l \in DOMAIN slots : slots[k].board = slots[l].board => k = l
  BY <1>1, Zenon DEF SlotsInv
<1>5. ASSUME NEW m \in Nodes, NEW n \in Nodes
      PROVE  /\ m.board = n.board <=> m.number = n.number
             /\ Minor(m.number, m.pf) = Minor(n.number, n.pf) => m = n
  <2>1. PICK k \in DOMAIN slots : slots[k].board = m.board /\ m.number = k - 1
    BY <1>2, Zenon
  <2>2. PICK l \in DOMAIN slots : slots[l].board = n.board /\ n.number = l - 1
    BY <1>2, Zenon
  <2>3. k \in Nat /\ l \in Nat
    BY <1>3
  <2>4. m.board = n.board <=> m.number = n.number
    BY <1>4, <2>1, <2>2, <2>3, SMTT(30)
  <2>5. Minor(m.number, m.pf) = Minor(n.number, n.pf) => m.number = n.number /\ m.pf = n.pf
    <3>1. m.pf \in {QdmaPf, ControlPf} /\ n.pf \in {QdmaPf, ControlPf}
      BY <1>2, Zenon
    <3>2. m.number \in Int /\ n.number \in Int
      BY <2>1, <2>2, <2>3, SMTT(30)
    <3>3. PICK x \in Int, y \in Int : x = m.number /\ y = n.number
      BY <3>2, Zenon
    <3>4. PICK p \in {1, 2}, q \in {1, 2} : /\ p = IF m.pf = QdmaPf THEN 2 ELSE 1
                                            /\ q = IF n.pf = QdmaPf THEN 2 ELSE 1
      BY Zenon
    <3>5. 2 * x + p = 2 * y + q => x = y /\ p = q
      OBVIOUS
    <3>6. p = q => m.pf = n.pf
      BY <3>1, <3>4, Zenon DEF QdmaPf, ControlPf
    <3> QED
      BY <3>3, <3>4, <3>5, <3>6, Zenon DEF Minor
  <2>6. m.number = n.number /\ m.pf = n.pf => m = n
    BY <1>2, <2>4, Zenon
  <2> QED
    BY <2>4, <2>5, <2>6, Zenon
<1>6. \A m \in Nodes : m.number < MaxCards
  BY <1>2, <1>3, BoardAssumption, SMTT(30)
<1> QED
  BY <1>5, <1>6, Zenon DEF NodesMatch

\* The inductive invariant of the kernel module holds throughout: what each instance, node, slot,
\* queue pair, fd, buffer and transfer refers to exists, through probes, removals, files and
\* transfers in any order.
THEOREM DriverSafe == Spec => []DriverInv
<1>1. Init => DriverInv
  BY InitHolds, Zenon
<1>2. DriverInv /\ [Next]_driverVars => DriverInv'
  BY NextHolds, Zenon
<1> QED
  BY <1>1, <1>2, PTL DEF Spec

\* The two nodes of a board have the number of their board, no two nodes have one minor, and no
\* number exceeds SLASH_MAX_CARDS (slash_board_get, slash_board_put): NodesMatch.
THEOREM NodesNumbered == Spec => []NodesMatch
<1>1. DriverInv => NodesMatch
  BY NodesMatched, Zenon
<1> QED
  BY <1>1, DriverSafe, PTL

\* Whatever ADD, START, STOP, DEL and the removal of the function fail at, an enabled or online
\* queue belongs to the entry under its id, apart from the orphans of an ADD that could not undo
\* itself: QueuesTracked.
THEOREM QueuesKnown == Spec => []QueuesTracked
<1>1. DriverInv => QueuesTracked
  BY Zenon DEF DriverInv
<1> QED
  BY <1>1, DriverSafe, PTL

==============================================================================
